--------------------------- MODULE Orchestration ----------------------------
(***************************************************************************)
(* The adjudication of requests: OrchestrationCoordinator of               *)
(* orchestration/coordinator.py, the calls of OrchestratorReplica          *)
(* (orchestration/replica.py) it makes, and the service in front of it,    *)
(* backend/app/services/orchestration_service.py.                          *)
(*                                                                         *)
(* Requests come through the service, one at a time under its request      *)
(* lock, which first checks a request in preflight, and from the workflow, *)
(* which calls the coordinator directly.  The coordinator's adjudication   *)
(* lock admits one of them; preflight runs beside an adjudication.         *)
(*                                                                         *)
(* The thread that adjudicates asks every orchestrator for a proposal and, *)
(* once it has accepted it, for a vote.  Each orchestrator has an executor *)
(* with one worker, so a call that hangs outlives its round.  The clock,   *)
(* the workers, the operator who switches orchestrators off and shutdown   *)
(* run beside it.                                                          *)
(*                                                                         *)
(* What a round does with a message is DecisionRound.  Here a message comes *)
(* from the orchestrator's own call, signed and with a fresh identity, so  *)
(* it is accepted unless the route is no candidate.                        *)
(***************************************************************************)
EXTENDS Naturals, Sequences, FiniteSets

CONSTANTS
    OrchestratorIds,   \* ORCHESTRATOR_IDS, a sequence
    Routes,            \* candidate routes of a request
    ServiceRequests,   \* what the service is asked, each with .id (its identity)
                       \* and .digest ...
    Dispatches,        \* ... and what the workflow asks; their identities may meet
    RequiredQuorum,    \* REQUIRED_QUORUM
    HistoryLimit,      \* round_history_limit
    DecisionLimit,     \* decision_history_limit
    MaxAdjudications,  \* bound: adjudications
    MaxSwitches,       \* bound: set_available calls ...
    SwitchRounds,      \* ... up to the end of so many adjudications ...
    Switchable,        \* ... and the orchestrators they are about
    None               \* no route, no request

Requests == ServiceRequests \cup Dispatches
Orchestrators == {OrchestratorIds[i] : i \in DOMAIN OrchestratorIds}

ASSUME OrchestrationAssumption ==
    /\ OrchestratorIds \in Seq(Orchestrators)
    /\ \A i, j \in DOMAIN OrchestratorIds : OrchestratorIds[i] = OrchestratorIds[j] => i = j
    /\ RequiredQuorum \in Nat
    /\ Cardinality(Orchestrators) < 2 * RequiredQuorum
    /\ MaxAdjudications \in Nat /\ MaxSwitches \in Nat /\ SwitchRounds \in Nat
    /\ Switchable \subseteq Orchestrators
    /\ HistoryLimit \in Nat \ {0} /\ DecisionLimit \in Nat \ {0}
    /\ None \notin Routes /\ None \notin Requests
    /\ Routes \cap {"approved", "rejected", "omitted", "unavailable"} = {}

VARIABLES
    available,  \* per orchestrator: _available
    switches,   \* number of set_available calls so far
    calls,      \* the futures that still matter: submitted and unread calls
    rounds,     \* _rounds, oldest first: identity, digest, terminal
    preflighted,  \* the request the service has preflighted and waits with for
                \* the adjudication lock, None without one
    caller,     \* who holds the adjudication lock
    pc,         \* where the adjudicating thread is
    request,    \* the request it works on
    gen,        \* number of adjudications begun
    todo,       \* self.replicas not yet asked, in order
    expired,    \* the deadline has passed
    held,       \* per orchestrator: the future the thread waits for
    prop,       \* per orchestrator: the call that brought its accepted proposal
    vote,       \* per orchestrator: the call that brought its accepted vote
    out,        \* rejections, unavailable, omitted, timed_out, delayed of the round
    closed,     \* _closed of service and coordinator
    answer,     \* the decision adjudicate returned last
    decisions   \* _decisions of the service, oldest first: what was decided

workerVars == <<available, switches>>
callerVars == <<preflighted, caller>>
roundVars == <<prop, vote, out, answer>>
orchVars == <<available, switches, calls, rounds, preflighted, caller, pc, request, gen, todo,
              expired, held, prop, vote, out, closed, answer, decisions>>

Classes == {"rejected", "unavailable", "omitted", "timed_out", "delayed"}
Results == Routes \cup {"approved", "rejected", "omitted", "unavailable"}
Calls == [orc : Orchestrators, gen : 1 .. MaxAdjudications, kind : {"proposal", "vote"},
          phase : {"queued", "running", "done", "cancelled"}, result : Results \cup {None}]
Nobody == [c \in Classes |-> {}]
Rounds == [id : {r.id : r \in Requests}, digest : {r.digest : r \in Requests},
           terminal : BOOLEAN]

ASSUME NoneIsNoCall == None \notin Calls

OrchInit ==
    /\ available = [o \in Orchestrators |-> TRUE]
    /\ switches = 0
    /\ calls = {}
    /\ rounds = <<>>
    /\ preflighted = None
    /\ caller = "nobody"
    /\ pc = "idle"
    /\ request = None
    /\ gen = 0
    /\ todo = <<>>
    /\ expired = FALSE
    /\ held = [o \in Orchestrators |-> "none"]
    /\ prop = [o \in Orchestrators |-> None]
    /\ vote = [o \in Orchestrators |-> None]
    /\ out = Nobody
    /\ closed = FALSE
    /\ answer = None
    /\ decisions = <<>>

-----------------------------------------------------------------------------
(* Futures. *)

\* Mutant: the earlier call of the orchestrator is not looked at.
BusyNever(o) == FALSE

\* The prior call of _submit and _inflight_for is not done.
Busy(o) == \E c \in calls : c.orc = o /\ c.phase \in {"queued", "running"}

NewCall(o, g, kind) ==
    [orc |-> o, gen |-> g, kind |-> kind, phase |-> "queued", result |-> None]

\* The future the thread holds for an orchestrator: its own proposal or vote,
\* or the call of an earlier round it waits for.
IsHeld(c) == CASE held[c.orc] = "busy" -> c.gen # gen
               [] held[c.orc] \in {"proposal", "vote"} -> c.gen = gen /\ c.kind = held[c.orc]
               [] OTHER -> FALSE

\* done() holds of a future that was cancelled; wait does not return for one
\* that no worker has taken notice of.
HeldDone == {c \in calls : IsHeld(c) /\ c.phase \in {"done", "cancelled"}}
HeldNotified == {c \in HeldDone : c.phase = "done"}
Waiting == {o \in Orchestrators : held[o] # "none"}

\* The route a vote approves is that of the orchestrator's own proposal.
Voters == {o \in Orchestrators : vote[o] # None}
Approvers(r) == {o \in Voters : prop[o].result = r}
QuorumRoutes == {r \in Routes : Cardinality(Approvers(r)) >= RequiredQuorum}

-----------------------------------------------------------------------------
(* The service and the round history. *)

Known(id) == {i \in 1 .. Len(rounds) : rounds[i].id = id}

\* _active_keys: the round that is being adjudicated.
Active(id) == pc # "idle" /\ request.id = id

\* Mutant: a terminal round is let through.
ReusableOpen(r) == \A i \in Known(r.id) : rounds[i].digest = r.digest

\* What new_round and its callers ask of a known round: the same content, and
\* not terminal.
Reusable(r) == \A i \in Known(r.id) : rounds[i].digest = r.digest /\ ~ rounds[i].terminal

\* Mutant: the oldest rounds go, active or not.
DroppedActive(rs) == Len(rs) - HistoryLimit

\* How many rounds the loop of new_round drops: the oldest ones, down to the
\* limit or to the active round.
Dropped(rs) ==
    CHOOSE n \in 0 .. Len(rs) - HistoryLimit :
        /\ \A i \in 1 .. n : ~ Active(rs[i].id)
        /\ n = Len(rs) - HistoryLimit \/ Active(rs[n + 1].id)

\* new_round: keep an existing round, or add one and drop the oldest.
Register(r) ==
    LET longer == Append(rounds, [id |-> r.id, digest |-> r.digest, terminal |-> FALSE])
    IN  rounds' = IF Known(r.id) # {} THEN rounds
                  ELSE IF Len(longer) > HistoryLimit
                  THEN SubSeq(longer, Dropped(longer) + 1, Len(longer))
                  ELSE longer

\* The service's request lock is held from preflight to the return.
RequestLockFree == preflighted = None /\ caller # "service"

\* The adjudications that are begun, or certain to be tried.
Begun == gen + (IF preflighted = None THEN 0 ELSE 1)

\* OrchestrationService.adjudicate up to the call of the coordinator.  What
\* preflight refuses leaves no trace: the round was known.  The service looks
\* at its own _closed before it waits for the lock, so preflight may follow a
\* shutdown.
Preflight(r) ==
    /\ RequestLockFree /\ Begun < MaxAdjudications
    /\ Reusable(r) /\ ~ Active(r.id)
    /\ Register(r)
    /\ preflighted' = r
    /\ UNCHANGED <<workerVars, calls, caller, pc, request, gen, todo, expired, held, roundVars,
                   closed, decisions>>

\* The coordinator's adjudicate up to the loop over the replicas: the round is
\* looked up or registered, and becomes active.
Begin(r, who) ==
    /\ ~ closed /\ Reusable(r)
    /\ Register(r)
    /\ pc' = "submit"
    /\ request' = r
    /\ caller' = who
    /\ gen' = gen + 1
    /\ todo' = OrchestratorIds
    /\ expired' = FALSE
    /\ answer' = None
    /\ UNCHANGED <<workerVars, calls, held, prop, vote, out, closed, decisions>>

\* The service gets the adjudication lock; adjudicate checks the request again
\* and refuses what has become terminal, or a closed coordinator.
ServiceBegins ==
    /\ pc = "idle" /\ preflighted # None
    /\ preflighted' = None
    /\ \/ Begin(preflighted, "service")
       \/ /\ closed \/ ~ Reusable(preflighted)
          /\ UNCHANGED <<workerVars, calls, rounds, caller, pc, request, gen, todo, expired, held,
                         roundVars, closed, decisions>>

\* _dispatch_via_orchestration calls adjudicate directly.
WorkflowBegins(r) ==
    /\ pc = "idle" /\ Begun < MaxAdjudications
    /\ Begin(r, "workflow")
    /\ UNCHANGED preflighted

\* close of the round, in the finally clause.
CloseRound == rounds' = [i \in 1 .. Len(rounds) |->
                            [rounds[i] EXCEPT !.terminal = @ \/ rounds[i].id = request.id]]

\* The thread leaves the round: close, and the futures are forgotten.
LeaveRound ==
    /\ pc' = "idle"
    /\ CloseRound
    /\ caller' = "nobody"
    /\ UNCHANGED preflighted
    /\ request' = None
    /\ expired' = FALSE
    /\ held' = [o \in Orchestrators |-> "none"]
    /\ prop' = [o \in Orchestrators |-> None]
    /\ vote' = [o \in Orchestrators |-> None]
    /\ out' = Nobody

\* A submit after shutdown raises RuntimeError.
Abort ==
    /\ LeaveRound
    /\ todo' = <<>>
    /\ calls' = {c \in calls : c.phase \in {"queued", "running"}}

\* One turn of the loop that asks the replicas; _submit, in its lock.
SubmitProposal(o) ==
    /\ pc = "submit" /\ todo # <<>> /\ o = Head(todo)
    /\ \/ /\ ~ available[o]
          /\ out' = [out EXCEPT !["unavailable"] = @ \cup {o}]
          /\ todo' = Tail(todo)
          /\ UNCHANGED <<callerVars, calls, rounds, pc, held, request, expired, prop, vote>>
       \/ /\ available[o] /\ Busy(o)
          /\ pc' = "lookup"
          /\ todo' = Tail(todo)
          /\ held' = [held EXCEPT ![o] = "lookup"]
          /\ UNCHANGED <<callerVars, calls, rounds, out, request, expired, prop, vote>>
       \/ /\ available[o] /\ ~ Busy(o) /\ closed
          /\ Abort
       \/ /\ available[o] /\ ~ Busy(o) /\ ~ closed
          /\ calls' = calls \cup {NewCall(o, gen, "proposal")}
          /\ held' = [held EXCEPT ![o] = "proposal"]
          /\ todo' = Tail(todo)
          /\ UNCHANGED <<callerVars, rounds, pc, out, request, expired, prop, vote>>
    /\ UNCHANGED <<workerVars, gen, closed, answer, decisions>>

\* _inflight_for: the call that was running may have ended since; then the
\* thread holds no future for the orchestrator.
LookUp ==
    /\ pc = "lookup"
    /\ pc' = "submit"
    /\ held' = [o \in Orchestrators |->
                   IF held[o] # "lookup" THEN held[o]
                   ELSE IF Busy(o) THEN "busy" ELSE "none"]
    /\ UNCHANGED <<workerVars, callerVars, calls, rounds, request, gen, todo, expired, roundVars,
                   closed, decisions>>

-----------------------------------------------------------------------------
(* Collecting answers. *)

\* Mutant: a future counts by what was called, whichever round called it.
PopByCall(ds, kind) == {c \in ds : c.kind = kind}

\* The futures among ds that the thread holds as proposals, votes or prior calls.
Pop(ds, kind) == {c \in ds : held[c.orc] = kind}
Of(ds, results) == {c.orc : c \in {d \in ds : d.result \in results}}

\* What the calls ds leave for each orchestrator, taken over if they brought
\* one of the results.
Taken(ds, results, before) ==
    [o \in Orchestrators |-> IF o \in Of(ds, results)
                             THEN CHOOSE c \in ds : c.orc = o ELSE before[o]]

\* _consume_phases over the completed futures ds of this round: whose proposal
\* is accepted is asked for a vote, which fails once the executors are shut.
ConsumePhases(ds, resubmitted) ==
    LET accepted == Of(Pop(ds, "proposal"), Routes)
        asked == IF closed THEN {} ELSE accepted
    IN  /\ prop' = Taken(Pop(ds, "proposal"), Routes, prop)
        /\ vote' = Taken(Pop(ds, "vote"), {"approved"}, vote)
        /\ out' = [out EXCEPT !["rejected"] = @ \cup Of(ds, {"rejected"}),
                              !["unavailable"] = @ \cup Of(ds, {"unavailable"}),
                              !["omitted"] = @ \cup Of(ds, {"omitted"})
                                                 \cup (accepted \ asked)]
        /\ held' = [o \in Orchestrators |->
                       CASE o \in asked -> "vote"
                         [] o \in resubmitted -> "proposal"
                         [] o \in {c.orc : c \in ds} \ asked -> "none"
                         [] OTHER -> held[o]]
        /\ calls' = {c \in calls : ~ (c \in ds \/ (c.orc \in resubmitted /\ c.phase = "done"))}
                        \cup {NewCall(o, gen, "vote") : o \in asked}
                        \cup {NewCall(o, gen, "proposal") : o \in resubmitted}

\* The loop's condition, and the check of the remaining time.
CheckLoop ==
    /\ (pc = "submit" /\ todo = <<>>) \/ pc = "check"
    /\ pc' = IF Waiting = {} \/ QuorumRoutes # {} \/ expired THEN "collect" ELSE "wait"
    /\ UNCHANGED <<workerVars, callerVars, calls, rounds, request, gen, todo, expired, held, roundVars,
                   closed, decisions>>

\* wait returns with everything that is done; calls of earlier rounds that
\* have ended make room for a proposal.
WaitReturns ==
    /\ pc = "wait" /\ HeldNotified # {}
    /\ LET freed == {c.orc : c \in Pop(HeldNotified, "busy")}
           mine == HeldNotified \ Pop(HeldNotified, "busy")
       IN  IF closed /\ freed # {}
           THEN Abort
           ELSE /\ ConsumePhases(mine, freed)
                /\ pc' = "check"
                /\ UNCHANGED <<callerVars, rounds, todo, request, expired>>
    /\ UNCHANGED <<workerVars, gen, closed, answer, decisions>>

\* Mutant: the wait has no timeout.
WaitForAll ==
    /\ pc = "wait" /\ Waiting = {} /\ expired
    /\ pc' = "collect"
    /\ UNCHANGED <<workerVars, callerVars, calls, rounds, request, gen, todo, expired, held, roundVars,
                   closed, decisions>>

\* wait returns empty-handed at the deadline.
WaitTimesOut ==
    /\ pc = "wait" /\ HeldNotified = {} /\ expired
    /\ pc' = "collect"
    /\ UNCHANGED <<workerVars, callerVars, calls, rounds, request, gen, todo, expired, held, roundVars,
                   closed, decisions>>

\* After the loop: what is done by now is still consumed.
Collect ==
    /\ pc = "collect"
    /\ ConsumePhases(HeldDone \ Pop(HeldDone, "busy"), {})
    /\ pc' = "classify"
    /\ UNCHANGED <<workerVars, callerVars, rounds, request, gen, todo, expired, closed, answer, decisions>>

\* Mutant: the deadline is not looked at again.
ClassOfPendingStale == "delayed"

\* deadline_expired, read after collecting.
ClassOfPending == IF expired THEN "timed_out" ELSE "delayed"

\* build_decision, and what the service keeps and publishes of it.
Decision(final) ==
    [outcome |-> IF QuorumRoutes # {} THEN "DECIDED"
                 ELSE IF final["timed_out"] # {} THEN "TIMED_OUT"
                 ELSE IF Cardinality(Voters) < RequiredQuorum THEN "INSUFFICIENT_RESPONSES"
                 ELSE "NO_QUORUM",
     route |-> IF QuorumRoutes = {} THEN None ELSE CHOOSE r \in QuorumRoutes : TRUE,
     voters |-> Voters,
     out |-> final]

Recorded(id) == LET longer == Append(decisions, id)
                IN  IF Len(longer) > DecisionLimit THEN Tail(longer) ELSE longer

\* The orchestrators still pending are classed, queued futures cancelled, the
\* round closed and the decision built; the service keeps and publishes its
\* own.  (It does so after the adjudication lock, from the closed round and
\* under its request lock, so nobody sees a step between.)
Classify ==
    /\ pc = "classify"
    /\ answer' = Decision([out EXCEPT ![ClassOfPending] = @ \cup Waiting])
    /\ decisions' = IF caller = "service" THEN Recorded(request.id) ELSE decisions
    /\ calls' = {c \in calls : c.phase = "running" \/ (c.phase = "queued" /\ c.gen # gen)}
    /\ LeaveRound
    /\ UNCHANGED <<workerVars, gen, todo, closed>>

-----------------------------------------------------------------------------
(* Workers, clock, operator. *)

\* A call ends; nobody remembers it unless the thread holds its future.
EndCall(c, result) ==
    calls' = (calls \ {c}) \cup (IF IsHeld(c) THEN {[c EXCEPT !.phase = "done", !.result = result]}
                                 ELSE {})

\* A worker takes the call up: propose and vote begin with the availability.
StartCall(c) ==
    /\ c \in calls /\ c.phase = "queued"
    /\ IF available[c.orc]
       THEN calls' = (calls \ {c}) \cup {[c EXCEPT !.phase = "running"]}
       ELSE EndCall(c, "unavailable")
    /\ UNCHANGED <<workerVars, callerVars, rounds, pc, request, gen, todo, expired, held, roundVars,
                   closed, decisions>>

\* propose returns the route its policy chose, vote the approval of the own
\* proposal, and either may fail.
FinishCall(c) ==
    /\ c \in calls /\ c.phase = "running"
    /\ \/ c.kind = "proposal" /\ \E r \in Routes \cup {"rejected"} : EndCall(c, r)
       \/ c.kind = "vote" /\ EndCall(c, "approved")
       \/ EndCall(c, "omitted")
    /\ UNCHANGED <<workerVars, callerVars, rounds, pc, request, gen, todo, expired, held, roundVars,
                   closed, decisions>>

Expire ==
    /\ pc # "idle" /\ ~ expired
    /\ expired' = TRUE
    /\ UNCHANGED <<workerVars, callerVars, calls, rounds, pc, request, gen, todo, held, roundVars,
                   closed, decisions>>

SetAvailable(o) ==
    /\ switches < MaxSwitches /\ gen <= SwitchRounds
    /\ available' = [available EXCEPT ![o] = ~ @]
    /\ switches' = switches + 1
    /\ UNCHANGED <<callerVars, calls, rounds, pc, request, gen, todo, expired, held, roundVars, closed,
                   decisions>>

\* shutdown: queued calls are cancelled, running ones go on.
Shutdown ==
    /\ ~ closed
    /\ closed' = TRUE
    /\ calls' = {c \in calls : c.phase # "queued"}
                  \cup {[c EXCEPT !.phase = "cancelled", !.result = "omitted"] :
                           c \in {d \in calls : d.phase = "queued" /\ IsHeld(d)}}
    /\ UNCHANGED <<workerVars, callerVars, rounds, pc, request, gen, todo, expired, held, roundVars,
                   decisions>>

Adjudicate ==
    \/ ServiceBegins
    \/ \E o \in Orchestrators : SubmitProposal(o)
    \/ LookUp
    \/ CheckLoop
    \/ WaitReturns
    \/ WaitTimesOut
    \/ Collect
    \/ Classify

OrchNext ==
    \/ \E r \in ServiceRequests : Preflight(r)
    \/ \E r \in Dispatches : WorkflowBegins(r)
    \/ Adjudicate
    \/ \E c \in calls : StartCall(c) \/ FinishCall(c)
    \/ Expire
    \/ \E o \in Switchable : SetAvailable(o)
    \/ Shutdown

\* The thread runs on and time passes; no fairness for the workers, a call
\* may hang for ever.
OrchSpec == /\ OrchInit /\ [][OrchNext]_orchVars
            /\ WF_orchVars(Adjudicate) /\ WF_orchVars(Expire)

-----------------------------------------------------------------------------
(* Properties. *)

OrchTypeOK ==
    /\ available \in [Orchestrators -> BOOLEAN]
    /\ switches \in 0 .. MaxSwitches
    /\ calls \subseteq Calls
    /\ rounds \in Seq(Rounds) /\ decisions \in Seq({r.id : r \in Requests})
    /\ Len(decisions) <= DecisionLimit
    /\ preflighted \in Requests \cup {None} /\ caller \in {"nobody", "service", "workflow"}
    /\ pc \in {"idle", "submit", "lookup", "check", "wait", "collect",
               "classify"}
    /\ request \in Requests \cup {None}
    /\ gen \in 0 .. MaxAdjudications
    /\ todo \in Seq(Orchestrators)
    /\ expired \in BOOLEAN /\ closed \in BOOLEAN
    /\ held \in [Orchestrators -> {"none", "lookup", "busy", "proposal", "vote"}]
    /\ prop \in [Orchestrators -> Calls \cup {None}]
    /\ vote \in [Orchestrators -> Calls \cup {None}]
    /\ out \in [Classes -> SUBSET Orchestrators]

\* A call that outlives its round never counts in a later one, even under the
\* same request identity: every accepted proposal and vote came from a call
\* this adjudication made, and a vote follows the proposal of its orchestrator.
AnswersAreOfThisRound ==
    \A o \in Orchestrators :
        /\ prop[o] # None => prop[o].gen = gen /\ prop[o].kind = "proposal"
        /\ vote[o] # None => vote[o].gen = gen /\ vote[o].kind = "vote" /\ prop[o] # None

\* However many rounds an orchestrator's call outlives, its executor never has
\* two unfinished calls, so no round queues behind a hung one.
OneUnfinishedCall ==
    \A o \in Orchestrators :
        Cardinality({c \in calls : c.orc = o /\ c.phase \in {"queued", "running"}}) <= 1

\* What a decision says of an orchestrator is one thing: it voted, or its
\* proposal was rejected, or it is unavailable, omitted, late or delayed; and
\* it is called delayed only where the round was decided without it.
OneStandingEach ==
    answer # None =>
        /\ \A c1, c2 \in Classes : c1 # c2 => answer.out[c1] \cap answer.out[c2] = {}
        /\ \A c \in Classes : answer.voters \cap answer.out[c] = {}
        /\ answer.out["delayed"] # {} => answer.outcome = "DECIDED"

\* The statement that missing participation is classified: nobody is left out
\* of a decision.
EveryoneAccountedFor ==
    answer # None =>
        Orchestrators = answer.voters \cup UNION {answer.out[c] : c \in Classes}

\* While the history retains a terminal round it stays terminal and no other
\* decision is made under its identity.
RetainedRoundsStayDecided ==
    [][\A i \in 1 .. Len(rounds) : rounds[i].terminal =>
          /\ answer = None /\ answer' # None => request.id # rounds[i].id
          /\ \A j \in 1 .. Len(rounds') : rounds'[j].id = rounds[i].id => rounds'[j].terminal
      ]_orchVars

\* The round of a running adjudication stays in the history, whatever is
\* preflighted beside it, so what it decides is found there when the same
\* request comes again.
ActiveRoundIsKept ==
    pc # "idle" => \E i \in 1 .. Len(rounds) : /\ rounds[i].id = request.id
                                               /\ rounds[i].digest = request.digest

\* An active round that may not be dropped makes the history longer than its
\* limit by one round at most, however service and workflow take turns.
HistoryBounded == Len(rounds) <= HistoryLimit + 1

\* An adjudication returns, with a decision or an error, whatever the
\* orchestrators do: a call that hangs for ever delays it to the deadline only.
AdjudicationReturns == pc # "idle" ~> pc = "idle"
=============================================================================
