-------------------------- MODULE BlackboardService -------------------------
(***************************************************************************)
(* Appending to the Blackboard: _propose_next_version of                   *)
(* backend/app/services/blackboard_service.py, which every adapter         *)
(* (findings, device state, workflow output) goes through, with the        *)
(* head_version hint of blackboard/coordinator.py.                         *)
(*                                                                         *)
(* Threads of one process share its coordinator.  A thread reads the head  *)
(* hint without the write lock, proposes the next version under it, and    *)
(* starts over when the proposal was REJECTED_STALE.                       *)
(***************************************************************************)
EXTENDS Blackboard, Integers

CONSTANTS
    Threads,      \* threads that append
    Owner,        \* Owner[t]: the coordinator of t's process
    MaxRetries,   \* MAX_PROPOSE_RETRIES
    MaxAppends    \* bound on appends

ASSUME ServiceAssumption ==
    /\ Owner \in [Threads -> Coordinators]
    /\ MaxRetries \in Nat \ {0}
    /\ MaxAppends \in Nat

VARIABLES
    tpc,        \* tpc[t]: where t is
    append,     \* append[t]: what t appends, and how often it has tried
    appends,    \* every append that returned (history)
    requested,  \* appends started so far
    held        \* held[c][r]: the thread that has left c's lock of replica r
                \* taken for good, or None

serviceVars == <<tpc, append, appends, requested>>
fullVars == <<committed, heads, pending, health, pc, job, todo, prepared, refusals,
              durable, used, results, faults, tpc, append, appends, requested, held>>

ServiceInit ==
    /\ Init
    /\ tpc = [t \in Threads |-> "idle"]
    /\ append = [t \in Threads |-> None]
    /\ appends = {}
    /\ requested = 0
    /\ held = [c \in Coordinators |-> [r \in Replicas |-> None]]

\* head_version: the head of the first responsive replica, 0 without one.
Answering(c) == {r \in Replicas : Responsive(c, r)}
FirstAnswering(c) == CHOOSE r \in Answering(c) : \A q \in Answering(c) : r <= q
HeadVersion(c, k) ==
    IF Answering(c) = {} THEN 0 ELSE heads[FirstAnswering(c)][k]

\* t gets the lock of a replica that is free, or its own: it is an RLock.
Enters(t, r) == held[Owner[t]][r] \in {None, t}

\* The replica call of a write step, under the replica's lock.  Every error
\* rolls back and releases it, but for one: a transaction whose BEGIN
\* IMMEDIATE raises is never entered, so its __exit__ never runs and the lock
\* stays with the thread.  (A COMMIT that raises releases the lock, but leaves
\* its transaction open; the next BEGIN then raises, which is such an error.)
StoreCall(t) ==
    LET c == Owner[t]
        called == (todo[c] \ todo'[c]) \cap Answering(c)
    IN  /\ \A r \in called : Enters(t, r)
        /\ \/ UNCHANGED held
           \/ /\ faults' # faults
              /\ UNCHANGED prepared
              /\ \E r \in called : held' = [held EXCEPT ![c][r] = t]

\* What an append of t to k meets when it starts (history, for the
\* properties): "calm" if t's coordinator takes every replica to be healthy,
\* nothing is staged or being written and all heads of k agree, "disturbed"
\* otherwise.
Weather(t, k) ==
    IF \/ health[Owner[t]] # AllHealthy
       \/ pending # {}
       \/ \E c \in Coordinators : pc[c] # "idle"
       \/ \E r, q \in Replicas : heads[r][k] # heads[q][k]
    THEN "disturbed"
    ELSE "calm"

StartAppend(t) ==
    /\ tpc[t] = "idle"
    /\ requested < MaxAppends
    /\ \E k \in Keys, id \in Ids :
          append' = [append EXCEPT ![t] =
                        [key |-> k, id |-> id, version |-> 0, tries |-> 0,
                         base |-> HeadVersion(Owner[t], k),
                         weather |-> Weather(t, k), faults |-> faults]]
    /\ tpc' = [tpc EXCEPT ![t] = "head"]
    /\ requested' = requested + 1
    /\ UNCHANGED <<appends, held>>
    /\ UNCHANGED vars

\* One round of the retry loop: the next version, from the hint.
ReadHead(t) ==
    /\ tpc[t] = "head"
    /\ Answering(Owner[t]) # {} => Enters(t, FirstAnswering(Owner[t]))
    /\ append' = [append EXCEPT ![t].version =
                     HeadVersion(Owner[t], append[t].key) + 1]
    /\ tpc' = [tpc EXCEPT ![t] = "propose"]
    /\ UNCHANGED <<appends, requested, held>>
    /\ UNCHANGED vars

\* propose: t takes the write lock of its coordinator.
ProposeNext(t) ==
    LET c == Owner[t]
        op == CHOOSE op \in WriteOps : op \notin used   \* a fresh uuid
    IN  /\ tpc[t] = "propose"
        /\ pc[c] = "idle"
        /\ WriteOps \ used # {}
        /\ append[t].version \in Versions
        /\ job' = [job EXCEPT ![c] = [op |-> op, key |-> append[t].key,
                                      version |-> append[t].version,
                                      id |-> append[t].id]]
        /\ used' = used \cup {op}
        /\ pc' = [pc EXCEPT ![c] = "prepare"]
        /\ todo' = [todo EXCEPT ![c] = Replicas]
        /\ tpc' = [tpc EXCEPT ![t] = "proposing"]
        /\ UNCHANGED <<append, appends, requested, held>>
        /\ UNCHANGED <<committed, heads, pending, health, prepared, refusals,
                       durable, results, faults>>

\* The replica calls of propose, up to its return.
WriteStep(c) ==
    \/ Decide(c)
    \/ StartCleanup(c)
    \/ \E r \in Replicas : \/ PrepareAcked(c, r)
                           \/ PrepareRefused(c, r)
                           \/ CommitAcked(c, r)
                           \/ CommitMissed(c, r)
                           \/ AbortLoser(c, r)
                           \/ AbortReplica(c, r)

\* Mutant: one round of the retry loop is lost.
RetriesOneLess(t, outcome) ==
    outcome = "REJECTED_STALE" /\ append[t].tries + 2 < MaxRetries
\* Mutant: every failed proposal is retried, without a bound.
RetriesForEver(t, outcome) == outcome # "COMMITTED"

\* propose returned: only REJECTED_STALE is retried.
Retries(t, outcome) ==
    outcome = "REJECTED_STALE" /\ append[t].tries + 1 < MaxRetries

ProposeReturned(t) ==
    LET c == Owner[t]
    IN  /\ tpc[t] = "proposing"
        /\ RejectAll(c) \/ Finish(c)
        /\ \E w \in results' \ results :
              IF Retries(t, w.outcome)
              THEN /\ append' = [append EXCEPT ![t].tries = @ + 1,
                                               ![t].version = 0]
                   /\ tpc' = [tpc EXCEPT ![t] = "head"]
                   /\ UNCHANGED appends
              ELSE /\ appends' = appends \cup
                        {[outcome |-> w.outcome,
                          weather |-> IF append[t].faults = faults
                                      THEN append[t].weather ELSE "disturbed",
                          grown |-> HeadVersion(c, append[t].key) - append[t].base]}
                   /\ append' = [append EXCEPT ![t] = None]
                   /\ tpc' = [tpc EXCEPT ![t] = "idle"]
        /\ UNCHANGED <<requested, held>>

ThreadStep(t) ==
    \/ ReadHead(t)
    \/ ProposeNext(t)
    \/ /\ tpc[t] = "proposing" /\ WriteStep(Owner[t]) /\ StoreCall(t)
       /\ UNCHANGED serviceVars
    \/ ProposeReturned(t)

\* Threads die with their process only in Blackboard's own runs; here the
\* process lives and replicas come and go.
ServiceNext ==
    \/ \E t \in Threads : StartAppend(t) \/ ThreadStep(t)
    \/ \E c \in Coordinators, r \in Replicas :
          /\ SetUnavailable(c, r) \/ SetAvailable(c, r)
          /\ UNCHANGED <<serviceVars, held>>
    \/ LeasePasses /\ UNCHANGED <<serviceVars, held>>

\* A thread that can take a step takes one: SQLite answers within its busy
\* timeout, and a thread that waits for a lock gets it once it is released
\* (a lock in held never is, and its step is not enabled).
ServiceSpec ==
    /\ ServiceInit
    /\ [][ServiceNext]_fullVars
    /\ \A t \in Threads : WF_fullVars(ThreadStep(t))

-----------------------------------------------------------------------------
(* Properties. *)

ServiceTypeOK ==
    /\ TypeOK
    /\ tpc \in [Threads -> {"idle", "head", "propose", "proposing"}]
    /\ appends \subseteq [outcome : WriteOutcomes,
                             weather : {"calm", "disturbed"}, grown : Int]
    /\ requested \in 0 .. MaxAppends
    /\ held \in [Coordinators -> [Replicas -> Threads \cup {None}]]

\* An append that started with every replica healthy and level and nothing
\* staged, and met no fault while it ran, is committed, also after outages and
\* failed writes of the past; the one exception is an append that lost every
\* round of the retry loop, each to a version that another append added to the
\* history of its key while it ran.  Appends to other keys never cost it one.
AppendsLand ==
    \A e \in appends : e.weather = "calm" =>
        \/ e.outcome = "COMMITTED"
        \/ e.outcome = "REJECTED_STALE" /\ e.grown >= MaxRetries

\* Every append returns, however the threads race for the head and the write
\* lock and whatever fails, as long as no replica lock of its process has been
\* left taken: nothing else leaves a thread waiting for ever.
AppendsReturn ==
    \A t \in Threads :
        tpc[t] # "idle" ~> \/ tpc[t] = "idle"
                           \/ \E r \in Replicas : held[Owner[t]][r] # None

\* The statement that every append returns.  Violated: the lock that a raising
\* BEGIN IMMEDIATE left taken stops the other threads for ever.
AppendsAlwaysReturn == \A t \in Threads : tpc[t] # "idle" ~> tpc[t] = "idle"
=============================================================================
