------------------------------ MODULE Workflow ------------------------------
(***************************************************************************)
(* The five-agent workflow of a replay window:                             *)
(* WorkflowService.execute_window (backend/app/services/                   *)
(* workflow_service.py), the readiness rules, analysts, gateway, action    *)
(* committer and ledger of agentic_workflow/, and the device model of      *)
(* simulation/abm.py that they feed and read.                              *)
(*                                                                         *)
(* One worker thread executes the windows in ascending order.  Concurrent  *)
(* calls of the action committer, each through a ledger of its own over    *)
(* the same blackboard, retry or contradict what the worker commits, and   *)
(* clients send feedback.  The blackboard is what the blackboard modules   *)
(* show of it: a write is COMMITTED, refused, or left partial, and what is *)
(* partial a later read may serve, deny or not decide.                     *)
(*                                                                         *)
(* Risks are integers in units of 1/Unit; Unit is a multiple of 512, so    *)
(* that three hops of propagation stay exact.                              *)
(***************************************************************************)
EXTENDS Integers, Sequences, FiniteSets, FiniteSetsExt, Functions

CONSTANTS
    Devices,        \* inventory.records, as integers in the order of their names
    Sensors,        \* devices with behaviour profiles
    Attackers,      \* devices that are not protected assets
    Topology,       \* set of pairs: edges of the topology graph
    Unit,           \* the integer that stands for a risk of 1.0
    Traffic,        \* per window: devices that may have an observed network row
    NetScores,      \* attack probabilities the detector gives
    BehScores,      \* deviation scores the profiler gives
    NumWindows,     \* bound: windows of the replay
    StatesLimit,    \* window_states_limit
    ActionsLimit,   \* length of recent_actions
    CacheLimit,     \* cache_limit of a ledger
    Retriers,       \* other callers of commit, each with its own ledger
    MaxFeedback,    \* bound: feedback recorded
    MaxFailures,    \* bound: failures of agents, rounds and writes
    None

Windows == 1 .. NumWindows
Protected == Devices \ Attackers

Worker == "worker"
Callers == {Worker} \cup Retriers

\* AccessAction, and an EnforcementDecisionV1: whose it is, and its action.
AccessActions == {"ALLOW", "MONITOR", "BLOCK"}
Decisions == [by : Callers, action : AccessActions]

ASSUME WorkflowAssumption ==
    /\ Devices \subseteq Nat
    /\ Sensors \subseteq Protected /\ Attackers \subseteq Devices
    /\ Unit \in Nat \ {0} /\ Unit % 512 = 0
    /\ NetScores \subseteq 0 .. Unit /\ BehScores \subseteq 0 .. Unit
    /\ NumWindows \in Nat /\ ActionsLimit \in Nat \ {0}
    /\ Worker \notin Retriers
    /\ None \notin Nat /\ None \notin Decisions

VARIABLES
    netRisk,    \* DeviceState.network_risk, None until observed
    behRisk,    \* DeviceState.behavior_risk
    systemic,   \* DeviceState.systemic_risk
    abmWindow,  \* DeviceABM.current_window_id
    steps,      \* the windows of the recorded ABM steps, in order
    window,     \* the window last started
    pc,         \* where execute_window is
    agent,      \* the dispatched agent
    completed,  \* completed
    flags,      \* device_risk_available, risk_rec_available
    iteration,  \* iteration
    findings,   \* findings_for_window: accepted evidence
    bindings,   \* WorkflowOutputGateway._output_bindings: outputs it accepted
    todo,       \* entities the running agent still has to handle
    status,     \* WorkflowWindowState.status per window
    kept,       \* keys of window_states
    board,      \* workflow records of the blackboard
    recent,     \* recent_actions, newest last
    cache,      \* the ledgers' caches, newest last
    call,       \* where each caller of commit is
    returned,   \* decisions that commit has returned (history)
    feedback,   \* recorded feedback
    failures    \* failures so far

abmVars == <<netRisk, behRisk, systemic, abmWindow, steps>>
loopVars == <<completed, flags, iteration>>
ledgerVars == <<cache, call, returned>>
workflowVars == <<netRisk, behRisk, systemic, abmWindow, steps, window, pc, agent, completed,
                  flags, iteration, findings, bindings, todo, status, kept, board, recent, cache,
                  call, returned, feedback, failures>>

Idle == [pc |-> "idle", window |-> None, entity |-> None, action |-> None]

\* Nothing observed, every risk 0.0, no window yet.
WorkflowInit ==
    /\ netRisk = [d \in Devices |-> None]
    /\ behRisk = [d \in Devices |-> None]
    /\ systemic = [d \in Devices |-> 0]
    /\ abmWindow = None
    /\ steps = <<>>
    /\ window = 0
    /\ pc = "idle"
    /\ agent = None
    /\ completed = {}
    /\ flags = [risk |-> FALSE, rec |-> FALSE]
    /\ iteration = 0
    /\ findings = {}
    /\ bindings = {}
    /\ todo = {}
    /\ status = [w \in Windows |-> None]
    /\ kept = {}
    /\ board = {}
    /\ recent = <<>>
    /\ cache = [c \in Callers |-> <<>>]
    /\ call = [c \in Callers |-> Idle]
    /\ returned = {}
    /\ feedback = {}
    /\ failures = 0

-----------------------------------------------------------------------------
(* The device model. *)

OrZero(r) == IF r = None THEN 0 ELSE r

\* max of the risks present; a missing one is ignored, not averaged.
Direct(net, beh, d) == LET a == OrZero(net[d]) b == OrZero(beh[d]) IN IF a > b THEN a ELSE b

Neighbours(d) == {e \in Protected : <<d, e>> \in Topology \/ <<e, d>> \in Topology}

\* r * w * decay ^ (hops + 1), hop after hop, with weight and decay 1/2.
Pushed(r, hop) == CASE hop = 1 -> r \div 4 [] hop = 2 -> r \div 32 [] hop = 3 -> r \div 512

\* Breadth first from a device: what it reaches in one, two and three hops
\* over protected devices, and not in fewer.
Reached(d) ==
    LET one == Neighbours(d) \ {d}
        two == (UNION {Neighbours(e) : e \in one}) \ ({d} \cup one)
        three == (UNION {Neighbours(e) : e \in two}) \ ({d} \cup one \cup two)
    IN <<one, two, three>>

\* A device gets the most that any protected source pushes to it.
Propagated(net, beh, d) ==
    LET near == Reached(d)
    IN IF d \in Attackers THEN 0
       ELSE Max({0} \cup UNION {{Pushed(Direct(net, beh, s), h) : s \in near[h]} : h \in 1 .. 3})

\* Mutant: behaviour evidence is left out of the fusion.
SystemicNetOnly(net, beh, d) == Max({OrZero(net[d]), Propagated(net, beh, d)})

\* systemic_risk: the larger of direct and propagated risk.
Systemic(net, beh, d) == Max({Direct(net, beh, d), Propagated(net, beh, d)})

\* propagate: all devices at once.
Propagate(net, beh) == systemic' = [d \in Devices |-> Systemic(net, beh, d)]

-----------------------------------------------------------------------------
(* Readiness. *)

Agents == {"network", "behavior", "threat", "risk", "access"}
Detectors == {"network", "behavior"}

\* is_ready
IsReady(a) ==
    CASE a \in Detectors -> TRUE
      [] a = "threat" -> Detectors \subseteq completed
      [] a = "risk" -> "threat" \in completed /\ flags.risk
      [] a = "access" -> "risk" \in completed /\ flags.rec

\* ready_agents
Ready == {a \in Agents \ completed : IsReady(a)}

MaxIterations == 6

-----------------------------------------------------------------------------
(* execute_window: start, dispatch and end. *)

\* _remember_window_state: the oldest terminal windows make room.
Remembered(w) ==
    LET over == Cardinality(kept) + 1 - StatesLimit
        gone == {k \in kept : status[k] \in {"COMPLETED", "FAILED"}
                              /\ Cardinality({j \in kept : j < k}) < over}
    IN (kept \ gone) \cup {w}

\* The runner calls for the next window; current_window_id is set first.
StartWindow ==
    /\ pc = "idle" /\ window < NumWindows
    /\ window' = window + 1
    /\ abmWindow' = window + 1
    /\ status' = [status EXCEPT ![window + 1] = "STARTED"]
    /\ kept' = Remembered(window + 1)
    /\ completed' = {} /\ iteration' = 0
    /\ flags' = [risk |-> FALSE, rec |-> FALSE]
    /\ findings' = {}
    /\ pc' = "loop"
    /\ UNCHANGED <<netRisk, behRisk, systemic, steps, agent, bindings, todo, board, recent,
                   ledgerVars, feedback, failures>>

\* status FAILED and out of the loop.  The runner's own propagate and
\* record_step are for a callback that did not set current_window_id.
Failed ==
    /\ status' = [status EXCEPT ![window] = "FAILED"]
    /\ pc' = "idle"

\* A failure from outside: no quorum, an agent that raises, a write that is
\* not COMMITTED, a read that is not authoritative.
Fail ==
    /\ failures < MaxFailures
    /\ failures' = failures + 1
    /\ Failed

\* What the agents of the dispatch act on: entities with findings, with a
\* correlation, with a risk recommendation; protected ones only.
Outputs(kind) == {r.entity : r \in {x \in board : x.kind = kind /\ x.window = window /\ x.durable}}

Work(a) ==
    CASE a = "threat" -> {f.entity : f \in findings} \cap Protected
      [] a = "risk" -> Outputs("threat")
      [] a = "access" -> Outputs("risk")
      [] OTHER -> {}

\* _dispatch_via_orchestration: the round decides for one of the ready
\* routes; no quorum, a rejection or an exception is no decision.
Adjudicated(ready) == ready \cup {None}

\* The decided agent runs; without a decision nothing does.
Dispatch ==
    /\ pc = "loop" /\ iteration < MaxIterations /\ Ready # {}
    /\ iteration' = iteration + 1
    /\ \E a \in Adjudicated(Ready) :
          \/ /\ a # None
             /\ agent' = a
             /\ todo' = Work(a)
             /\ pc' = "run"
             /\ UNCHANGED <<status, failures>>
          \/ a = None /\ Fail /\ UNCHANGED <<agent, todo>>
    /\ UNCHANGED <<abmVars, window, completed, flags, findings, bindings, kept, board, recent,
                   ledgerVars, feedback>>

\* Nothing is ready, or the iterations are used up.
CompleteWindow ==
    /\ pc = "loop" /\ (iteration = MaxIterations \/ Ready = {})
    /\ status' = [status EXCEPT ![window] = "COMPLETED"]
    /\ pc' = "idle"
    /\ UNCHANGED <<abmVars, window, agent, loopVars, findings, bindings, todo, kept, board,
                   recent, ledgerVars, feedback, failures>>

-----------------------------------------------------------------------------
(* The detectors. *)

\* A gateway submission per finding: the device's evidence and the log.
Evidence(kind, of) == {[kind |-> kind, entity |-> d, score |-> of[d]] :
                          d \in {x \in Devices : of[x] # None}}

\* Mutant: the profiler's branch only propagates.
BothDoneNoFlag(done, net, beh) ==
    IF Detectors \subseteq done
    THEN /\ Propagate(net, beh)
         /\ steps' = Append(steps, window)
         /\ flags' = [flags EXCEPT !.risk = (agent = "network")]
    ELSE UNCHANGED <<systemic, steps, flags>>

\* Once both detectors are done: propagate, record the step, risk available.
BothDone(done, net, beh) ==
    IF Detectors \subseteq done
    THEN /\ Propagate(net, beh)
         /\ steps' = Append(steps, window)
         /\ flags' = [flags EXCEPT !.risk = TRUE]
    ELSE UNCHANGED <<systemic, steps, flags>>

Merge(old, of) == [d \in Devices |-> IF of[d] = None THEN old[d] ELSE of[d]]

\* network_anomaly_detector: findings for the observed rows, or a skip when
\* there are none; behaviour is untouched.
RunNetwork ==
    /\ pc = "run" /\ agent = "network"
    /\ \E of \in [Devices -> NetScores \cup {None}] :
          /\ \A d \in Devices \ Traffic[window] : of[d] = None
          /\ netRisk' = Merge(netRisk, of)
          /\ findings' = findings \cup Evidence("network", of)
          /\ completed' = completed \cup {"network"}
          /\ BothDone(completed \cup {"network"}, Merge(netRisk, of), behRisk)
    /\ pc' = "loop"
    /\ UNCHANGED <<behRisk, abmWindow, window, agent, iteration, bindings, todo, status, kept,
                   board, recent, ledgerVars, feedback, failures>>

\* What the profiler may find: row by row, for sensors only.
Profiles == {of \in [Devices -> BehScores \cup {None}] : \A d \in Devices \ Sensors : of[d] = None}

\* iot_behavioral_profiler
RunBehavior ==
    /\ pc = "run" /\ agent = "behavior"
    /\ \E of \in Profiles :
          /\ behRisk' = Merge(behRisk, of)
          /\ findings' = findings \cup Evidence("behavior", of)
          /\ completed' = completed \cup {"behavior"}
          /\ BothDone(completed \cup {"behavior"}, netRisk, Merge(behRisk, of))
    /\ pc' = "loop"
    /\ UNCHANGED <<netRisk, abmWindow, window, agent, iteration, bindings, todo, status, kept,
                   board, recent, ledgerVars, feedback, failures>>

\* A detector raises: the network's before any finding is submitted, the
\* profiler after the rows it has already submitted.
DetectorRaises ==
    /\ pc = "run" /\ agent \in Detectors
    /\ Fail
    /\ \E of \in Profiles :
          /\ agent = "network" => \A d \in Devices : of[d] = None
          /\ behRisk' = Merge(behRisk, of)
          /\ findings' = findings \cup Evidence("behavior", of)
    /\ UNCHANGED <<netRisk, systemic, abmWindow, steps, window, agent, loopVars, bindings, todo,
                   kept, board, recent, ledgerVars, feedback>>

-----------------------------------------------------------------------------
(* The analysts.  Each entity's output passes the workflow gateway and must  *)
(* be COMMITTED on the blackboard.                                           *)

\* The outputs that an output of a kind refers to.
Refs(kind) ==
    CASE kind = "threat" -> {}
      [] kind = "risk" -> {"threat"}
      [] kind = "access" -> {"risk", "threat"}
      [] kind = "action" -> {"access", "risk", "threat"}

Binding(kind, e) == [kind |-> kind, window |-> window, entity |-> e]

\* WorkflowOutputGateway.submit: every reference is bound to the same window
\* and entity.
Accepts(kind, e) == \A k \in Refs(kind) : Binding(k, e) \in bindings

Record(kind, e, val, durable) ==
    [kind |-> kind, window |-> window, entity |-> e, val |-> val, durable |-> durable]

First == CHOOSE e \in todo : \A o \in todo : e <= o

\* The gateway's answer, and then record_workflow_output: COMMITTED and go on,
\* or raise: the window FAILED, the record nowhere or on some replica.
Write(kind, e, val) ==
    IF Accepts(kind, e)
    THEN /\ bindings' = bindings \cup {Binding(kind, e)}
         /\ \/ /\ board' = board \cup {Record(kind, e, val, TRUE)}
               /\ todo' = todo \ {e}
               /\ UNCHANGED <<status, pc, failures>>
            \/ /\ Fail
               /\ board' \in {board, board \cup {Record(kind, e, val, FALSE)}}
               /\ UNCHANGED todo
    ELSE Failed /\ UNCHANGED <<bindings, board, todo, failures>>

Matched(e) == \E f \in findings :
    f.entity = e /\ (f.kind = "network" => 10 * f.score >= 6 * Unit)
                 /\ (f.kind = "behavior" => 10 * f.score >= 8 * Unit)

\* threat_intelligence_correlator: MATCHED when a rule of the catalog fires.
Correlate ==
    /\ pc = "run" /\ agent = "threat" /\ todo # {}
    /\ Write("threat", First, Matched(First))
    /\ UNCHANGED <<abmVars, window, agent, loopVars, findings, kept, recent, ledgerVars, feedback>>

\* risk_propagation_analyst: the device's state, complete when the network
\* and, for a sensor, the behaviour have been observed.
Complete(e) == netRisk[e] # None /\ (e \in Sensors => behRisk[e] # None)

\* analyze: the recommendation is the device's systemic risk.
RiskRecommendation(e) == [risk |-> Systemic(netRisk, behRisk, e), complete |-> Complete(e)]

Analyze ==
    /\ pc = "run" /\ agent = "risk" /\ todo # {}
    /\ Propagate(netRisk, behRisk)
    /\ Write("risk", First, RiskRecommendation(First))
    /\ UNCHANGED <<netRisk, behRisk, abmWindow, steps, window, agent, loopVars, findings, kept,
                   recent, ledgerVars, feedback>>

\* decide: 0.7 blocks, 0.4 or missing evidence monitors.
Policy(r) ==
    IF 10 * r.risk >= 7 * Unit THEN "BLOCK"
    ELSE IF 10 * r.risk >= 4 * Unit \/ ~ r.complete THEN "MONITOR" ELSE "ALLOW"

RiskOf(w, e) == (CHOOSE r \in board : r.kind = "risk" /\ r.window = w /\ r.entity = e).val

\* Mutant: a partial write of the recommendation will do.
AcceptedToo == {"COMMITTED", "PARTIAL_COMMIT"}

\* The outcomes of the recommendation's write with which the commit goes on.
Accepted == {"COMMITTED"}

\* trust_access_controller: the access recommendation, then its commit.
Decide ==
    /\ pc = "run" /\ agent = "access" /\ todo # {}
    /\ call[Worker].pc = "idle"
    /\ LET action == Policy(RiskOf(window, First))
       IN IF Accepts("access", First)
          THEN /\ bindings' = bindings \cup {Binding("access", First)}
               /\ \/ /\ \E o \in Accepted :
                           board' = board \cup {Record("access", First, action, o = "COMMITTED")}
                     /\ call' = [call EXCEPT ![Worker] = [pc |-> "get", window |-> window,
                                                          entity |-> First, action |-> action]]
                     /\ UNCHANGED <<status, pc, failures>>
                  \/ /\ Fail
                     /\ board' \in {board, board \cup {Record("access", First, action, FALSE)}}
                     /\ UNCHANGED call
          ELSE Failed /\ UNCHANGED <<bindings, board, call, failures>>
    /\ UNCHANGED <<abmVars, window, agent, loopVars, findings, todo, kept, recent, cache,
                   returned, feedback>>

\* An analyst has handled its entities.
AgentDone ==
    /\ pc = "run" /\ agent \notin Detectors /\ todo = {}
    /\ completed' = completed \cup {agent}
    /\ flags' = [risk |-> flags.risk \/ agent = "risk",
                 rec |-> flags.rec \/ agent \in {"risk", "access"}]
    /\ pc' = "loop"
    /\ UNCHANGED <<abmVars, window, agent, iteration, findings, bindings, todo, status, kept,
                   board, recent, ledgerVars, feedback, failures>>

-----------------------------------------------------------------------------
(* ActionCommitter.commit over BlackboardActionLedger. *)

Decision(c) == [by |-> c, action |-> call[c].action]

Actions(w, e) == {r \in board : r.kind = "action" /\ r.window = w /\ r.entity = e}

\* What a read of the blackboard may serve: the record on a majority, which
\* hides every other, or one that some replica holds.
Firm(w, e) == {r \in Actions(w, e) : r.durable}
Served(w, e) == IF Firm(w, e) # {} THEN Firm(w, e) ELSE Actions(w, e)

Cached(c) == {k \in Range(cache[c]) : k.window = call[c].window /\ k.entity = call[c].entity}

\* ledger.get: the cached decision; else what the blackboard serves.  A record
\* some replica holds may be served, which takes a majority, denied, or be
\* undecided, which raises.
Answers(c) ==
    IF Cached(c) # {} THEN {k.val : k \in Cached(c)}
    ELSE {r.val : r \in Served(call[c].window, call[c].entity)}
           \cup {d \in {None} : Firm(call[c].window, call[c].entity) = {}}

\* The entry of the key, if there is one, makes way for the newest; the oldest
\* is evicted.
Keep(c, d) ==
    LET at == {i \in 1 .. Len(cache[c]) : cache[c][i] \in Cached(c)}
        i == CHOOSE j \in at : TRUE
        fresh == IF at = {} THEN cache[c]
                 ELSE SubSeq(cache[c], 1, i - 1) \o SubSeq(cache[c], i + 1, Len(cache[c]))
        all == Append(fresh, [window |-> call[c].window, entity |-> call[c].entity, val |-> d])
    IN IF Len(all) > CacheLimit THEN Tail(all) ELSE all

\* A record that was served is on a majority.
Settled(c, d) ==
    {IF r \in Actions(call[c].window, call[c].entity) /\ r.val = d
     THEN [r EXCEPT !.durable = TRUE] ELSE r : r \in board}

\* commit raises: the worker's window is FAILED, another caller just ends.
Raise(c) ==
    /\ call' = [call EXCEPT ![c] = Idle]
    /\ IF c = Worker THEN Failed ELSE UNCHANGED <<status, pc>>
    /\ UNCHANGED <<bindings, todo, returned, recent>>

\* commit returns d.  The worker passes it through the gateway, records the
\* enforcement and takes the next entity.
Return(c, d) ==
    LET done == [window |-> call[c].window, entity |-> call[c].entity, val |-> d]
    IN /\ call' = [call EXCEPT ![c] = Idle]
       /\ returned' = returned \cup {done}
       /\ IF c = Worker /\ Accepts("action", done.entity)
          THEN /\ bindings' = bindings \cup {Binding("action", done.entity)}
               /\ todo' = todo \ {done.entity}
               /\ recent' = IF Len(recent) = ActionsLimit THEN Append(Tail(recent), done)
                            ELSE Append(recent, done)
          ELSE UNCHANGED <<bindings, todo, recent>>
       /\ IF c = Worker /\ ~ Accepts("action", done.entity)
          THEN Failed ELSE UNCHANGED <<status, pc>>

\* An earlier decision: the same action of the same recommendation is returned,
\* another one is a conflict.
Meet(c, d) ==
    /\ board' = Settled(c, d)
    /\ cache' = [cache EXCEPT ![c] = Keep(c, d)]
    /\ IF d.action = call[c].action THEN Return(c, d) ELSE Raise(c)

\* The two looks before the write.
Look(c) ==
    /\ call[c].pc \in {"get", "again"}
    /\ \E d \in Answers(c) :
          \/ d # None /\ Meet(c, d)
          \/ /\ d = None
             /\ call' = [call EXCEPT ![c].pc = IF @ = "get" THEN "again" ELSE "put"]
             /\ UNCHANGED <<board, cache, status, pc, bindings, todo, returned, recent>>
    /\ UNCHANGED <<abmVars, window, agent, loopVars, findings, kept, feedback, failures>>

\* Mutant: put does not look again under the commit lock.
NoAnswers(c) == {None}

\* put's own look, under the lock that all ledgers of a blackboard share.
LockedAnswers(c) == Answers(c)

ActionRecord(c, durable) ==
    [kind |-> "action", window |-> call[c].window, entity |-> call[c].entity,
     val |-> Decision(c), durable |-> durable]

\* put, under that lock: look, write, and keep what is COMMITTED.
Put(c) ==
    /\ call[c].pc = "put"
    /\ \E d \in LockedAnswers(c) :
          \/ d # None /\ Meet(c, d)
          \/ /\ d = None
             /\ board' = (board \ Actions(call[c].window, call[c].entity))
                            \cup {ActionRecord(c, TRUE)}
             /\ cache' = [cache EXCEPT ![c] = Keep(c, Decision(c))]
             /\ Return(c, Decision(c))
    /\ UNCHANGED <<abmVars, window, agent, loopVars, findings, kept, feedback, failures>>

\* A look is not authoritative, or the write is not COMMITTED: commit raises,
\* and the record may be on some replica.
CommitRaises(c) ==
    /\ call[c].pc # "idle" /\ failures < MaxFailures
    /\ failures' = failures + 1
    /\ \/ Cached(c) = {} /\ UNCHANGED <<board, cache>>
       \/ /\ call[c].pc = "put" /\ None \in LockedAnswers(c)
          /\ board' = board \cup {ActionRecord(c, FALSE)}
          /\ UNCHANGED cache
    /\ Raise(c)
    /\ UNCHANGED <<abmVars, window, agent, loopVars, findings, kept, feedback>>

\* Another caller retries the commit of a recommendation, or asks for another
\* action for it; it does so once, through a ledger with an empty cache.
Retry(c, action) ==
    /\ call[c] = Idle /\ \A r \in returned : r.val.by # c
    /\ cache[c] = <<>>
    /\ \E r \in board :
          /\ r.kind = "access" /\ r.durable
          /\ call' = [call EXCEPT ![c] = [pc |-> "get", window |-> r.window,
                                          entity |-> r.entity, action |-> action]]
    /\ UNCHANGED <<abmVars, window, pc, agent, loopVars, findings, bindings, todo, status, kept,
                   board, recent, cache, returned, feedback, failures>>

-----------------------------------------------------------------------------
(* Feedback. *)

\* get_action: a recent action, or one the blackboard serves.
Known ==
    Range(recent) \cup {[window |-> r.window, entity |-> r.entity, val |-> r.val] :
        r \in {x \in board : x.kind = "action" /\ x \in Served(x.window, x.entity)}}

\* Mutant: the action need not be of the named window and entity.
BoundAnyhow(a, w, e) == TRUE

\* The binding check of submit_feedback.
Bound(a, w, e) == a.window = w /\ a.entity = e

\* record_confirmed_feedback
FeedbackRecord(a, w, e) == [action |-> a.val, window |-> w, entity |-> e]

\* submit_feedback: the action is known and bound, the record COMMITTED.
SubmitFeedback(a, w, e) ==
    /\ Cardinality(feedback) < MaxFeedback
    /\ a \in Known /\ Bound(a, w, e)
    /\ board' = {IF r.kind = "action" /\ r.window = a.window /\ r.entity = a.entity /\ r.val = a.val
                 THEN [r EXCEPT !.durable = TRUE] ELSE r : r \in board}
    /\ feedback' = feedback \cup {FeedbackRecord(a, w, e)}
    /\ UNCHANGED <<abmVars, window, pc, agent, loopVars, findings, bindings, todo, status, kept,
                   recent, ledgerVars, failures>>

-----------------------------------------------------------------------------
WorkflowNext ==
    \/ StartWindow \/ Dispatch \/ CompleteWindow
    \/ RunNetwork \/ RunBehavior \/ DetectorRaises
    \/ Correlate \/ Analyze \/ Decide \/ AgentDone
    \/ \E c \in Callers : Look(c) \/ Put(c) \/ CommitRaises(c)
    \/ \E c \in Retriers, a \in {"MONITOR", "BLOCK"} : Retry(c, a)
    \/ \E a \in Known, w \in Windows, e \in Devices : SubmitFeedback(a, w, e)

WorkflowSpec == WorkflowInit /\ [][WorkflowNext]_workflowVars

-----------------------------------------------------------------------------
(* Properties. *)

WorkflowTypeOK ==
    /\ netRisk \in [Devices -> 0 .. Unit \cup {None}]
    /\ behRisk \in [Devices -> 0 .. Unit \cup {None}]
    /\ \A d \in Devices \ Sensors : behRisk[d] = None
    /\ systemic \in [Devices -> 0 .. Unit]
    /\ completed \subseteq Agents /\ iteration \in 0 .. MaxIterations
    /\ kept \subseteq 1 .. window /\ Cardinality(kept) <= StatesLimit
    /\ window > 0 => window \in kept
    /\ \A c \in Callers : Len(cache[c]) <= CacheLimit
    /\ todo \subseteq Protected

\* Every enforcement decision rests on its evidence chain: a correlation, a
\* risk recommendation and an access recommendation of the same window and
\* entity are COMMITTED, and the worker's action is the policy's for that risk.
ActionsHaveTheirChain ==
    \A a \in {r \in board : r.kind = "action"} :
        /\ \A k \in {"threat", "risk", "access"} : \E r \in board :
              r.kind = k /\ r.window = a.window /\ r.entity = a.entity /\ r.durable
        /\ a.val.by = Worker => a.val.action = Policy(RiskOf(a.window, a.entity))

\* A device whose finding of this window scored 0.7 or more is blocked, if the
\* worker decides about it at all, whichever detector ran first.
AlarmsAreBlocked ==
    \A f \in findings, a \in board :
        (a.kind = "action" /\ a.window = window /\ a.entity = f.entity /\ a.val.by = Worker
           /\ 10 * f.score >= 7 * Unit) => a.val.action = "BLOCK"

\* All commits that return for a window and entity return one decision, and
\* every ledger's cache agrees, whoever raced, retried or failed in between.
OneDecisionPerEntity ==
    \A x, y \in returned \cup UNION {Range(cache[c]) : c \in Callers} :
        (x.window = y.window /\ x.entity = y.entity) => x.val = y.val

\* A window is COMPLETED only when all five agents ran, and then the commit
\* of an action has returned for every protected device with findings.
CompletedWindowsAreWhole ==
    (pc = "idle" /\ window > 0 /\ status[window] = "COMPLETED") =>
        /\ completed = Agents
        /\ \A f \in findings : f.entity \in Protected =>
              \E r \in returned : r.window = window /\ r.entity = f.entity

\* Feedback is recorded only about an action of its own window and entity that
\* a majority of the replicas holds.
FeedbackIsBound ==
    \A f \in feedback : \E r \in board :
        r.kind = "action" /\ r.durable /\ r.val = f.action
          /\ r.window = f.window /\ r.entity = f.entity

\* The statement that the runner's bookkeeping happens for every window, also
\* when the workflow failed before it had recorded the step.
EveryWindowIsRecorded ==
    (pc = "idle" /\ window > 0) => window \in Range(steps)
=============================================================================
