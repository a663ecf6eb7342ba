# Verification of the agentic SOC framework

TLA+ models, TLC runs and TLAPS proofs for the stateful core of the agentic SOC
framework. The specifications are written from the code; every definition that
models code is tied to its lines in `PROJECT.json` ("map").

## 1. The system and its parts

The framework extracts features from captures of a simulated hospital network,
replays them window by window, lets agents turn windows into findings,
correlates findings into risks, and decides on actions (allow, monitor, block).
Everything the agents agree on is recorded in a replicated **Blackboard**; every
task of the workflow is approved by a quorum of **orchestrators**; the
**backend** runs replays and streams events to the **frontend**.

| part | state it keeps | operations | interacts with |
| --- | --- | --- | --- |
| storage (`blackboard/storage.py`) | per replica a SQLite file: committed rows, staged rows with leases, head per key | prepare_insert, commit_promote, abort_pending, upsert_external, row reads | called by the replica object, under its RLock |
| replica (`blackboard/replica.py`) | health: HEALTHY, UNAVAILABLE, DIVERGED | prepare, commit, abort, upsert_external, read | maps storage outcomes to acknowledgements |
| coordinator (`blackboard/coordinator.py`) | the write lock; one write in progress | propose, read_latest, read_version, resync_replicas_from_majority, head_version | calls the three replicas one after the other |
| blackboard service (`backend/app/services/blackboard_service.py`) | the retry loop of an append | append of findings, device state, workflow output | head_version, propose |
| orchestration (`orchestration/*`, `orchestration_service.py`) | rounds, proposals, votes, calls in flight, round and decision history | preflight, adjudicate, accept_proposal, accept_vote, set_available, shutdown | gates workflow tasks; the workflow calls the coordinator directly, others come through the service and its preflight |
| workflow (`workflow_service.py`, `agentic_workflow/*`, `simulation/abm.py`) | device risks, the window's completed agents and findings, gateway bindings, action ledger | execute_window, commit of an action, feedback | orchestration before, Blackboard after each agent |
| replay control (`replay_controller.py`, `simulation/replay.py`) | lifecycle state, pause gate, step limit, cancel flag, worker thread | create, play, pause, resume, step, restart, shutdown, worker checkpoints | publishes to the broker |
| event broker (`event_broker.py`, `endpoints/events.py`) | one ring of events, subscriber queues, sequence numbers | publish, subscribe, drain, gap notice | replay worker and request handlers to WebSocket clients |
| extraction (`datasets/datasense/*`) | watermarks, window accumulators, temporary and final directories, checkpoint | run_session: clean, read, sort, write, rename, mark | its output is what a replay plays |
| frontend synchroniser | last applied sequence, displayed science | apply snapshot, apply event, reconnect | snapshot endpoint, WebSocket |
| SREP, training, inference | arrays | numerical | produce scores |

**What is hard.** The three SQLite files are written without a common
transaction: a write is a two-phase protocol whose coordinator may die between
any two calls, whose leases expire, and whose files other coordinators share.
Reads and repairs do not take the write lock. Appends are optimistic: the next
version is a hint read from one replica. An orchestrator's call may outlive the
round that made it. The pause gate, the step limit and the cancel flag of a
replay are read and cleared without the lock that sets them. Queues and
histories are bounded. Packets come out of order and extraction may die anywhere.
The hazards, each at its line, are in `PROJECT.json` ("hazards").

**What makes each part correct.**
- storage: gap-free history, heads that agree with the rows; nothing committed
  is ever rewritten.
- write path: COMMITTED means a durable quorum, for ever; one record per slot is
  reported COMMITTED; rejections commit nothing; nothing stays staged.
- reads and repair: nobody is told two records of one slot, nobody reads
  backwards, a repair copies only what a quorum holds.
- service: appends land when nothing is wrong, and return unless a replica's lock
  was left taken.
- orchestration: one decision per round, by a quorum of votes of that round; a
  late answer neither counts nor blocks a replica; an adjudication returns; an
  active round is never dropped from the history.
- workflow: an action rests on its committed evidence chain, is decided once per
  window and entity, and a window is complete only when all of it happened.
- replay control: one worker; a paused run holds still; what ended stays ended;
  a cancelled worker ends.
- broker: a subscriber gets every event in order or is told of the gap, and the
  end of its replay reaches it.
- extraction and playback: a session marked complete holds every packet and event
  exactly once; a replay goes through it in order and its graph adds up.

## 2. Modules

| module | models | state and actions |
| --- | --- | --- |
| `ReplicaStorage` | `storage.py` | `committed`, `pending`, `heads` are the three tables of every replica; one action per transaction. The lease of a staged row is a flag that `ExpireLease` (time) turns. A record is its identity (the integrity hash); the payload is not represented |
| `Blackboard` | `coordinator.propose`, `replica.prepare/commit/abort`, fault hooks | extends `ReplicaStorage`; several coordinators (processes) over the same stores; `pc`, `job`, `todo`, `prepared`, `refusals`, `durable` are the local variables of `propose`; every replica call is a step; crashes, outages, raised errors and substituted records are the environment |
| `CommitRegister` | the promise of the write path | abstract: `chosen` slots and what callers were `told` |
| `BlackboardReads` | `_read`, `_observe_replica`, resync | extends `Blackboard`; one step per replica observed, upserted or judged; damaged rows |
| `BlackboardService` | `_propose_next_version`, `head_version` | extends `Blackboard`; threads with a retry loop; replaces `Propose` by a proposal at the hinted version. `held` are the replica locks that a raising BEGIN IMMEDIATE left taken (`StoreCall`); other threads wait for them for ever |
| `DecisionRound` | `DecisionRound`, `BoundedReplayCache`, `MessageVerifier` of `orchestration/` | `proposals`, `votes`, `quorum`, `terminal`, `cache` are the fields of the code; `decision` is what `build_decision` returned. Any message may arrive at any time: of a stranger, altered, bound to another round, repeated |
| `Orchestration` | `OrchestrationCoordinator`, `OrchestratorReplica`, `orchestration_service.py` | one action per stretch of `adjudicate` between two moments at which another thread matters (`submit`, `lookup`, `check`, `wait`, `collect`, `classify`); `calls` are the futures on the one-worker executors, which start, finish or hang on their own; the deadline is `Expire`; `rounds` and `decisions` are the bounded histories. Service and workflow are two callers: `preflighted` is what the service registered under its request lock and waits with, `caller` who holds the adjudication lock; `Active` is `_active_keys` |
| `ReplayControl` | `replay_controller.py`, the run loop of `simulation/replay.py` | per run the fields of `_Run` and `ReplayControl`; client calls are actions, split where they wait for a join or publish after releasing the lock; the checkpoint's wait, test and clear are steps of their own, because they take no lock |
| `Workflow` | `WorkflowService.execute_window`, readiness, correlation, risk and access policies, gateway, action committer and ledger, `DeviceABM`, `FindingGateway.submit` | one step per dispatch, per agent and per blackboard lookup or write; other callers of `commit`, each with its own ledger, and feedback run beside the worker. The blackboard is represented by what the blackboard modules show: a write is COMMITTED, refused, or partial, and a partial record may later be served, denied or undecided |
| `EventStream` | `_publish`, `EventBroker`, the WebSocket endpoint | taking a number and publishing are two steps under the controller's lock; each socket's coroutine drains, sends one event at a time, gives the gap notice; a slow client is one whose steps come late |
| `FeatureWindows` | `windowing.py`, `ordering.py`, `network_features.py`, `communication.py`, `behavior_features.py` | operators: a manager is a record, an operation a function of it. An accumulator is the set of positions of its packets or events: every feature is a function of that set |
| `WindowSort` | `window_sort.py` | operators: chunks, merge passes, final merge; `ByWindow` is the reference they are checked against |
| `ExtractionStore` | `extraction.py`, `feature_store.py` | one session's `run_session` step by step over directories and checkpoint that survive a `Crash`; a rename is a step, a packet is a step. Each writer is left on its own: `FinalizeFails` and `Abort` may leave its temporary directory (`undeleted`), and so may `CleanStale` |
| `SessionReplay` | `FeatureStoreReader`, the merge of `ReplayRunner`, `CommunicationGraph` | extends `ExtractionStore`: plays back what extraction stored |
| `MC*` | | symmetry sets, request sets, topologies and raw files for TLC |
| `BlackboardProofs`, `BlackboardReadsProofs`, `BlackboardServiceProofs`, `DecisionRoundProofs`, `OrchestrationProofs`, `WorkflowProofs`, `EventStreamProofs` | | theorems about the module of the same name; those about `ReplicaStorage` open `BlackboardProofs` |
| `ReplayProofs` | | theorems about `ReplayControl`, then about `ExtractionStore` and `SessionReplay` |

Correspondences that need a word:
- *Atomicity.* A storage transaction is one step: it runs under BEGIN IMMEDIATE,
  which excludes other threads and processes. What lies between two transactions
  is interleaved.
- *Order of calls.* The coordinator visits the replicas in list order; `Calls`
  and `Visits` keep that order.
- *Results* are kept as history (`results`, `reads`, `repairs`, `appends`), so
  that "reported COMMITTED" stays a claim about every later state. A write is
  identified by its operation id, which is fresh (a UUID in the code).
- *Health* belongs to the coordinator's replica objects, not to the file: two
  processes may disagree, and a restart forgets it.
- *Hooks.* `Substitutes` is what a tampering fault hook may stage in place of the
  proposed record; a substitution is one of the budgeted faults.
- *Signatures and digests.* A message carries the fact whether hash and HMAC tag
  were made with its sender's key; a proposal digest is represented by the route
  it digests, and the four fields that bind a message to its request by one.
  Hash collisions and forged tags are outside the model. Votes are kept per
  sender in the code, so approvals are counted as a set of senders. In
  `Orchestration` a message comes from the orchestrator's own call and is
  authentic; what a round does with others is `DecisionRound`.
- *Risks* are integers in units of `1/Unit`, `Unit` a multiple of 512, so that
  the halvings of three hops of propagation are exact. The backend's ABM has no
  spill file, so `propagate` cannot raise there. `evidence_complete` follows the
  code in using `network_observed`, which stays true once a device was seen.
  `pending_resume` and `pending_steps` are never read and are left out.
- *Time in extraction* is in ticks from the scenario's start. `ThroughIso` is the
  rounding of a timestamp that is written as ISO text and parsed again; window
  and tolerance are multiples of that quantum (`WindowAssumption`). An endpoint
  that is broadcast, multicast or no device of the inventory is `Outside`.
- *Buffers of extraction.* The engine's buffer and the writer's have the same
  size and are one buffer here. What a dead process left in a temporary
  directory is never read, so only its presence is kept.
- *Playback* is opened while no extraction of the session runs: extraction is a
  script of its own, run beforehand.
- *Mutants.* A definition whose comment begins with "Mutant:" is a plausible
  wrong version of the definition that follows it. No specification uses it; it
  is there to show that a property notices the mistake.

## 3. Runs

| run | question | bounds |
| --- | --- | --- |
| `write` | two processes race for the slots of one key | 3 replicas, 2 versions, 2 records, 2 writes, one fault (outage, raised or injected answer, substituted record, crash) at any point |
| `reads` | reads torn across commits never go back, repairs tear no hole | 2 writes of successive versions, 2 reads or repairs, one fault |
| `repair` | repair against competing records and a damaged row | 2 records of one slot, one read or repair, one damaged row, one fault |
| `service` | appends of threads that share a coordinator | 2 threads, 3 appends, 2 rounds of the retry loop, so that an append can lose both, one fault |
| `round` | any messages in any order over successive rounds | 3 orchestrators and a stranger, 2 candidate routes and another, 2 rounds, approvals and rejections, one message identity per sender, a cache of 2: smaller than the number of senders, so identities are forgotten and reused |
| `orchestration` | successive adjudications with calls that outlive them, preflights beside an active round | 3 orchestrators, 2 adjudications, a request of the service and one of the workflow, histories of length 1 so that a round is evicted, one outage before, in or after the first adjudication |
| `replay` | commands against checkpoints | 2 replays of 2 windows, 4 client calls, one exception: enough for a pause, a step and a resume around one checkpoint and a restart behind them |
| `workflow` | two windows from dispatch to completion | 3 devices in a line (a sensor, another protected device, an attacker), 2 windows with fading traffic, one competing caller, one feedback, one failure, histories and caches of length 1 so that everything is evicted |
| `events` | two publishers, a slow client | a replay and an operational stream, 5 events each, ring of 3 shared by both, queue of 2, 2 connections: the ring wraps, the queue overflows |
| `pipeline` | from raw files to the communication graph | up to 3 packets or 3 events with timestamps around window borders and the start, lateness of 0 or 3 ticks, 2 starts, edge capacity 2, chunks and fan-in of 2, buffers of 3 rows, one disk error that leaves a directory |
| `fork`, `span` | statements of the documentation that the code does not keep (section 6) | smallest instances that show them |

Bounds: two operations are what a race needs, a third would repeat it at a later
version; one fault is enough to separate any two steps of a write. For every
safety property that section 5 proves the bounds of its run do not matter. Keys are independent (no action relates two
keys, except that health is shared), so one key is used. In `pipeline` two
starts are a first attempt that dies, fails or completes and a second that
resumes, retries or is forced; three packets give one that is in order, one that
is late and one that closes the window. `CHECK_DEADLOCK FALSE` where the budgets
of operations and calls run out and the system rests; `round` has no such end.

Properties of the runs:
- `CommittedIsDurable`, `CommittedAgreement`, `RejectedWritesCommitNothing`,
  `FailedStorageCommitsNothing`: what each outcome of a write guarantees, now
  and later. `NoStrandedStaging`: a write that met no fault leaves no staging.
- `ImplementsRegister`, `ReadsImplementRegister`: refinement of
  `CommitRegister`; a slot is *chosen* when a quorum of files holds the same
  record, a caller is *told* by a COMMITTED result or an authoritative read.
- `HistoryGapFree`, `ForwardOnly` (action property): histories have no holes and
  are never rewritten, repairs included. `NeverReadBackwards`,
  `RepairsCopyTheMajority`: reads and repairs.
- `AppendsLand`: an append that starts with healthy, level replicas and meets no
  fault is committed, or lost every round of the loop to versions that others
  appended to its key meanwhile. `AppendsReturn` (liveness): an append returns, or
  waits for a lock that a raising BEGIN IMMEDIATE left taken; nothing else stops it.
- `QuorumIsAuthentic`, `QuorumIsTheOnlyOne`, `DecisionMatchesVotes`,
  `RoundsOnlyGrow` (action property): a decision is exactly what the signed votes
  of its own round say, and nothing a round has taken is changed.
- `AnswersAreOfThisRound`, `OneUnfinishedCall`: an answer that comes late, even
  under the same identity, counts nowhere, and no round queues behind a hung
  call. `OneStandingEach`: a decision says one thing of each orchestrator.
  `AdjudicationReturns` (liveness). `RetainedRoundsStayDecided` (action property),
  `ActiveRoundIsKept`: the workflow does not take the service's request lock, so
  preflight registers and evicts beside an active round; that round is kept (at
  the price of one round above the limit: `HistoryStaysBounded`, section 5).
- `OneWorker`, `PausedHoldsStill`, `EndedStaysEnded` (action property),
  `CancelledWorkersEnd` (liveness): section 1, replay control. The last one
  excludes a cancel between the checkpoint's test of the step limit and its
  clear of the gate, where a cancel is lost.
- `ActionsHaveTheirChain`, `AlarmsAreBlocked`, `OneDecisionPerEntity`,
  `CompletedWindowsAreWhole`, `FeedbackIsBound`: what may be concluded from a
  committed action, a completed window and a recorded feedback.
- `RingInOrder`, `NoSilentGap` (action property), `EndReachesTheClient`
  (liveness): delivery.
- `MarkedWhenWhole` (action property): what a checkpoint marked completed promises
  about the files. `NoLitter`: a completed or failed session has no temporary
  directory, but for those that a disk error left since the last clean-up. `ReplayIsChronological`,
  `GraphCountsThePackets`: what a replay of them does, down to the raw packets.

**Fairness.** Safety runs use none. `ServiceSpec` assumes weak fairness of each
thread: the write lock is released by every path of `propose`, and SQLite
answers or raises within its busy timeout. It assumes nothing of a thread that
waits for a replica lock in `held`: its step is not enabled. One thread may take the write lock
again and again, but the number of appends is bounded in the model, so weak
fairness is enough. `OrchSpec` assumes that the adjudicating thread goes on and that time
passes; the executors' workers get none, a call may hang for ever. `ReplaySpec`
assumes that a worker thread that can go on does; nobody has to call play or
resume. `StreamSpec` assumes that the event loop runs each coroutine that can go
on; publishers and clients get none. Outages, repairs, lease expiry and the start
of calls are not fair.

## 4. Abstract specification

`CommitRegister` has two steps: *Choose* decides a slot that is not decided, and
*Tell* tells decided records. `Blackboard` implements it with
`chosen <- Chosen`, `told <- Acknowledged`; `BlackboardReads` with
`told <- Told`, which adds what reads returned. A partial commit is invisible in
the abstraction until a quorum holds the record; a commit call that completes
the quorum is *Choose*; the return of COMMITTED is *Tell*. `Workflow` uses the
Blackboard through this abstraction: what was told stays, what was not may or
may not be there.

`ByWindow` in `WindowSort` is the reference of the external sort: the property
`ReplayIsChronological` compares what the chunks and merge passes deliver with it.

## 5. Proofs

`BlackboardProofs` first proves of the stores, for any sets of replicas, keys,
versions, records and operations, `StoreSafety` (types, `SlotsUnique`, `HistoryGapFree`,
`StagedNextToHead`) and `StoreForwardOnly`. `SlotsUnique` is inductive only
together with the type invariant and `StagedNextToHead`: a promotion inserts at
head + 1, which is a free slot because histories are gap-free.

It then proves the write path for any number of processes, writes,
crashes, faults and substituted records. Assumptions: replicas are a finite set
of numbers, a quorum is more than half of them, the sentinel `None` is neither a
write nor a record. The inductive invariant `WriteInv` adds to the types and to
the store's invariant:
- `JobsDistinct`, `OpsAccounted`: a running write's operation is used by nobody
  else and has no result yet, so a row of an operation belongs to one write;
- `DurableRows`: a replica counted as durable by a running write holds the
  record it proposed;
- `CommittedIsDurable` and `RejectedWritesCommitNothing` themselves.

The argument: rows are never removed (`ForwardOnly`), so a counted commit stays;
at the return the count is a quorum, hence `CommittedIsDurable`. Two quorums
intersect in a replica, whose slot holds one row (`SlotsUnique`), hence
`CommittedAgreement`. A write that has not entered the commit loop has no
committed row of its operation, hence `RejectedWritesCommitNothing`. Theorems:
`WriteTypes`, `WritesAreTransactions` (every step is a step of `ReplicaStorage`,
so its theorems carry over), `CommittedWritesAreDurable`, `CommittedWritesAgree`,
`RejectionsAreFinal`, `WritesImplementRegister`, and `FailedStorageIsEmpty`,
which needs `QuorumSize <= 2`: the split "quorum, exactly one, otherwise
FAILED_STORAGE" (`coordinator.py:494`) has no case for two commits short of a
quorum of three, a size that `settings.py:72` accepts.

It also proves `NothingIsStranded`. `StagingInv` is what makes
it inductive: until the first fault every replica answers, and every staged row
belongs to a running write whose commit or abort loop has still to come to its
replica; so when the write returns, its rows are gone.

`BlackboardReadsProofs` extends the argument to reads and repairs, for any number
of readers. A read takes no lock, so its observations are torn across commits;
`ReadsInv` says what survives that: a replica is visited once and what was found
there is there still (`SeenOnce`, rows only grow), the record a repair copies is
held by a quorum (`SourceIsHeld`), and some quorum had the newest version known
when the read began, none of whose members answered an older one since
(`KnowsFloor`). A found majority was therefore a quorum at the moment the read
ended: `ReadsRefineRegister`, `ToldRecordsAgree`; it intersects the quorum of
`KnowsFloor`: `ReadsAreMonotonic`; `RepairsAreCopies`; `ReadsUseTransactions`
carries `HistoryGapFree` and `ForwardOnly` over to the system with repairs.

`BlackboardServiceProofs`: any number of threads, processes, appends, rounds of
the retry loop, keys and replicas. `ServiceInv` says that a write that runs is
the proposal of exactly one thread, with that thread's key and version
(`OneProposes`, `WritesAreAppends`), that a hint may have become too small but is
never more than one version ahead (`HintsAreOld`), and counts: the head of a key
plus the appends that may still add to it are at most the appends that were
requested (`HeadsAreCounted`). `AppendsUseTheWritePath` carries the theorems of
the write path over to the service; `AppendsWriteOnce` follows from the count.

`UndisturbedAppendsLand` states `AppendsLand` under two hypotheses on the
constants, and for any number of appends, rounds and keys. *QuorumReachable*:
there are enough replicas for a quorum. *OneProcess*: all threads share a
coordinator; a second coordinator that took a replica to be unavailable before the
append began writes around it, the heads part, and the append fails without a
fault of its own time. `CalmInv` follows an append that began in calm weather and
has met no fault: all replicas answer and every staged row belongs to the running
write; the heads of its key are level, but for a write of that key which is being
promoted (`Even`), so that all replicas answer a proposal alike, yes or
REJECT_STALE; and each round the append has lost was lost to a version that its
key has grown by since it began (`Progress`). A proposal that is not refused is
therefore committed on all replicas, and an append that gives up has seen its key
grow by as many versions as the loop has rounds.

`DecisionRoundProofs` proves the properties of `round` for any number of
orchestrators, routes, rounds, message identities and any cache size, from the
assumption that two quorums share an orchestrator (`Cardinality(Orchestrators) <
2 * RequiredQuorum`). The inductive invariant `RoundInv` adds what the checks of
`accept_proposal` and `accept_vote` leave behind (`ProposalsChecked`,
`VotesChecked`: known sender, signed, bound, one vote per sender),
`QuorumCounted` (`quorum_digest` is the route with enough supporters) and
`DecisionFinal` (a decision closes the round). One vote per sender makes the
supporters of two proposals disjoint; two disjoint quorums do not exist. The
replay cache is needed for none of this: a message it has forgotten meets the
per-sender check.

`OrchestrationProofs`: any orchestrators, requests, adjudications, outages and
history lengths; the assumption on the quorum is that of `DecisionRound`, routes
differ from the words that mark an answer without one. `OrchInv` says that an
orchestrator has one call at most and that a finished one is held under the
generation that made it (`CallsOwned`), that the ones still to be asked have no
standing (`AskedOnce`), that waiting, having voted and being classified exclude
each other (`OneStandingSoFar`), and that the history has one round per identity, the
running one among them (`RoundsAreDistinct`, `RoundIsOpen`). What the loop of
`new_round` drops is a prefix without the active round (`DroppedStops`,
`RegisterKeeps`). Theorems: `AnswersBelongToTheRound`, `OneCallPerExecutor`,
`DecisionsAreConsistent`, `DecidedRoundsStayDecided`, `ActiveRoundStaysKnown`.
`HistoryStaysBounded` needs `HistoryInv`: an open round is the active one or the
one the service waits with, so a workflow that begins while the service does not
wait brings the history back to its limit, and the request lock lets one preflight
at a time add a round beside it.

`ReplayProofs` begins with `ReplayControl`: any number of replays, windows, calls
and faults.
`OneWorkerAtATime` needs that the controller knows one run and that the run a
create or restart waits for stays the active one (`OwnersAgree`);
`PausedRunsHoldStill` needs to follow the worker through the checkpoint, whose
tests take no lock (`PausedIsLimited`: the gate of a paused run is open only
behind a granted limit, and a worker past its last test still has a window to
its credit); `EndedRunsStayEnded` that an ended run's worker is past its windows
(`EndedIsPast`).

It goes on with the stored session, for any raw files, settings, starts,
disk errors and deaths. `SessionsLeaveNoLitter` states `NoLitter`; `LitterInv` says that a
temporary directory belongs to a process whose writers are open, or a disk error
left it, or a process that died after it had recorded in_progress, and then no
later process has got past its clean-up. `MarkedOutputIsInPlace` is the part of `MarkedWhenWhole`
that concerns the directories: the three renames are behind the process when it
marks the session (`StoredInv`: a writer's directory is still there, or its
output is). `ReplaysInOrder` is the part of `ReplayIsChronological` that concerns
the merge of `ReplayRunner.run` (`WindowsInOrder`): strictly ascending windows,
each row in its own, and the check that raises ReplayOrderingError never fires.
Its hypothesis, `[]SorterSorts`, is what `iter_sorted` has to deliver: each stream
by window. TLC finds it to hold of the instance `pipeline` with up to two packets
and events, and the other part of `ReplayIsChronological` compares every stream
that was played with the reference order. `MergeInv` needs what is left of the
streams to be sorted and later than everything played.

`WorkflowProofs`: any devices, topology, scores, windows, callers and failures.
`WorkflowInv` has a part for the loop (agents run once, in the order of the
readiness rules; an iteration is an agent), for the evidence (the device model
holds the scores of the window's findings, and a recorded risk is the systemic
risk as it stands), for the board (records chained to their evidence, one output
of an analyst per entity) and for the ledgers (what was returned or cached is the one
record that a majority holds), and `WorkIsAccounted`: what an agent has to handle
is left to it or has its output, down to the returned decision. Theorems: `EvidenceChain`,
`AlarmsBlock`, `OneDecision`, `CompletedIsWhole`, `FeedbackBound`. `AlarmsBlock`
also needs arithmetic of the risks (`SystemicRisk`): a device's systemic risk is
never below its own score, whatever its neighbours push to it.

`EventStreamProofs`: any streams, threads, clients, ring and queue sizes.
`StreamInv` says that one envelope is under way at a time, with its stream's last
number (`NumberedUnderLock`); that the ring holds of every stream a consecutive
run up to the last number published (`RingChained`); that a queue is such a run,
full and behind once it has overflowed (`QueueFollows`); that the batch a socket
is sending is a run that goes on where the client is, or a notice came
(`BatchFollows`); and that the queue goes on where the batch ends, or the flag
that will give the notice is set (`HandoverFollows`). Theorems: `StreamTypes`,
`RingStaysInOrder`, `GapsAreAnnounced`.

One fact about a recursive function is needed here: the events that `subscribe`
selects from the ring are a run. The library's induction rules cannot be
instantiated, so it is proved from the least counterexample (`LeastNumber`, from
`WFMin` on the natural numbers). `WorkflowProofs` gets the maxima and minima of
sets of numbers the same way, `BlackboardServiceProofs` the first responsive
replica and `ReplayProofs` the end of a window at the head of a stream.

What the proofs changed in the models: the guards of the CASE in
`ConsumePhases` (`Orchestration`) overlapped, which TLC resolves by order and the
logic does not; feedback in `Workflow` could be settled against the record of a
partial write although a majority held another one, which no read of the
coordinator returns (`Firm`, `Served` say which records a read may serve);
`Own` in `EventStream` is written as the function that the list comprehension
computes; `Write` in `ExtractionStore` says what the loop over the rows leaves in
parts and buffer, where it was a fold over them; assumptions that sentinels are no
values became explicit.

Proved and in no run, because what the runs check implies or exceeds them: the
type invariants `TypeOK`, `StoreTypeOK`, `RoundTypeOK`, `ReplayTypeOK`,
`OrchTypeOK`, `StreamTypeOK`, and `SlotsUnique`, `StagedNextToHead`,
`ToldAgreement`, `HistoryBounded`. The type invariants of the other modules are defined for a
reader and for later proofs.

Only model-checked:
- every liveness property: `AppendsReturn`, `AdjudicationReturns`,
  `CancelledWorkersEnd`, `EndReachesTheClient` (temporal reasoning under fairness is
  outside the proof system's reach);
- `MarkedWhenWhole` beyond the directories, `ReplayIsChronological` beyond the
  merge, and `GraphCountsThePackets`: they are about what folds (managers over
  packets, merge passes over chunks, totals over rows) compute for a whole input,
  which needs induction over the data with an operator as its parameter.

## 6. Where code and documents disagree

The run `fork` violates what a document says (quoted in `PROJECT.json`,
"findings"): an expired lease is taken over although its owner has committed on
another replica; the stores then disagree on the slot. At most one of the two
records was reported COMMITTED (that is proved).

The run `span` violates `docs/datasense_raw_pipeline_methodology.md:233-236`:
"**network rows** — every device observed in the capture, plus every inventory
device that is neither an evaluation actor (attacker role) nor the off-testbed
cloud; over the full observed window span `[min_wid, max_wid]` including negative
pre-start windows." The fill begins at `min_wid_seen` (`extraction.py:218`), which
`due_windows` (`ordering.py:76`) moves past every window it finalizes; a device
that was silent in a finalized negative window has no row there
(`ObservedSpanIsFilled`).

Each of the following is a definition that states what a comment or document
says; TLC refutes it when it is put into the configuration named.
- `AbsenceIsConfirmed` (`MCRepair` with two damaged rows): rows that fail
  verification are counted as answers without a record, so two of them confirm
  the absence of a committed key. `coordinator.py:726`: "Absence obeys the same
  quorum discipline as presence."
- `RepairCatchesUp` (`MCReads`): repair offers the majority's head only; a
  replica two versions behind is refused for ever. `coordinator.py:871`: "Bring
  lagging/divergent replicas back to the compatible majority for ONE record key".
- `AppendsAlwaysReturn` (`MCService`): BEGIN IMMEDIATE raising inside
  `_Tx.__enter__` (`storage.py:154-155`) leaves the RLock taken, and appends of
  other threads never return. `AppendsReturn` says that nothing else stops them.
- `EveryoneAccountedFor` (`MCOrchestration`): `_submit` finds an earlier call of
  the orchestrator running and returns nothing; when that call ends before
  `_inflight_for` looks, the orchestrator is neither asked nor classified.
  `docs/stage6_orchestrator_quorum.md:176`: "classify missing participation".
- `RunningIsNotStuck` (`MCReplayControl`): the checkpoint tests the step limit
  and clears the pause gate without the lock; a play between the two sets the
  gate that the clear then closes, and a RUNNING replay waits until the next
  command.
- `TerminalEventIsLast` (`MCReplayControl`): play, pause and step publish after
  they release the lock, so their event may come after the terminal one.
  `docs/stage3a_fastapi_backend.md:141`: "REPLAY_COMPLETED remains the last event
  in the replay's namespace".
- `EveryWindowIsRecorded` (`MCWorkflow`): `execute_window` sets the ABM's window
  first; when it then fails before `record_step` (an adjudication without a
  quorum, a raising detector), the runner's test
  (`simulation/replay.py:278`, "Ensure window bookkeeping still happens if
  callback didn't") finds the window set and records nothing.
- `GapIsToThePreviousEvent` (`MCPipeline`): `_prune_history` forgets the events
  of a finalized window, and with them the event from which the next window's gap
  is measured. `behavior_features.py:290`: "the latest strictly-earlier event of
  the same device".

Noted while modelling, without a property:
- a read marks replicas with damaged rows DIVERGED before it knows whether it
  will be conclusive (`coordinator.py:755`);
- when the replica that answers the head hint lags, the next version is stale on
  the others and prepared on the laggard: FAILED_QUORUM, which
  `_propose_next_version` does not retry (`blackboard_service.py:380`), so every
  append to the key fails until the laggard is repaired;
- a forced re-extraction deletes the output before it changes the checkpoint: a
  crash in between leaves a session that is marked completed and has no files;
- a packet that resolves to no device moves the watermark without finalizing
  windows;
- a writer whose `finalize` raises in its own `__exit__` is never aborted
  (`feature_store.py:213-217`), an `abort` whose flush raises removes nothing
  (271-274), and removals ignore errors (490): the session is marked failed with a
  temporary directory in place, which the next attempt removes if it can;
- `subscribe` gives a new subscriber the newest events that fit its queue and
  does not say that older ones of the ring were left out;
- `_output_bindings` of the output gateway grows for the life of the process;
- the workflow calls `coordinator.adjudicate` directly (`workflow_service.py:263`),
  beside the service's request lock and its decision history; the round history
  may then exceed its limit by one.

## 7. Not modelled

- Payload validation, canonical encoding and hashing (`contracts.py`,
  `hashing.py`): a record is represented by its hash; equality of hashes is
  taken for equality of records. The authorisation matrix appears only as an
  early rejection.
- Listing and counting of rows, events and developer endpoints of the blackboard
  service. `set_speed` of a replay, which changes only the pacing.
- Caps on the lists and ports that an accumulator keeps; the values of features.
- Numerical parts: SREP, training, inference. `network_agent.py`,
  `behavior_agent.py` and `action_policy.py` are not on the live path.
- Saved snapshots: single files replaced atomically, written and read by requests.
- HTTP routing, rendering, scripts.
- The frontend's replay synchroniser. Composed with `EventStream` it exceeds ten
  million states at the smallest bounds that let the queue overflow.

## 8. Plan

1. `Dashboard`: the frontend's synchroniser (`replaySynchronizer.ts`,
   `replaySocket.ts`) over an abstract channel that delivers in order and may
   skip with a notice, which is what the properties of `EventStream` promise. Its
   hazards: science responses carry no sequence guard, and a reconnection does
   not hydrate.
2. Proofs: the hypothesis `SorterSorts` of `ReplaysInOrder`. With the merge written
   as a recursive function of the number of rows taken, the least counterexample
   would do what the library's induction rule cannot.
3. The authorisation matrix of the Blackboard contracts, when a property needs
   more of it than the early rejection.
