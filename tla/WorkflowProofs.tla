--------------------------- MODULE WorkflowProofs ---------------------------
(***************************************************************************)
(* Proofs about the workflow of a window and the action ledger, for every  *)
(* inventory, topology, score and number of windows, callers and failures. *)
(***************************************************************************)
EXTENDS Workflow, FiniteSetTheorems, WellFoundedInduction, TLAPS

-----------------------------------------------------------------------------
(* The inductive invariant. *)

Analysts == {"threat", "risk", "access"}
Enforced == [window : Windows, entity : Protected, val : Decisions]
Running == [pc : {"get", "again", "put"}, window : Windows, entity : Protected,
            action : AccessActions]
\* A record has these five fields.
WellFormed(r) ==
    /\ r \in [kind : Analysts \cup {"action"}, window : Windows, entity : Protected,
              val : {r.val}, durable : BOOLEAN]
    /\ r.kind = "action" => r.val \in Decisions

LoopTypes ==
    /\ window \in 0 .. NumWindows
    /\ pc \in {"idle", "loop", "run"}
    /\ pc # "idle" => window \in Windows
    /\ completed \subseteq Agents
    /\ iteration \in Nat
    /\ status \in [Windows -> {None, "STARTED", "COMPLETED", "FAILED"}]
    /\ todo \subseteq Protected
    /\ flags \in [risk : BOOLEAN, rec : BOOLEAN]

RiskTypes ==
    /\ netRisk \in [Devices -> 0 .. Unit \cup {None}]
    /\ behRisk \in [Devices -> 0 .. Unit \cup {None}]
    /\ findings \subseteq [kind : Detectors, entity : Devices, score : 0 .. Unit]

LedgerTypes ==
    /\ call \in [Callers -> Running \cup {Idle}]
    /\ cache \in [Callers -> Seq(Enforced)]
    /\ recent \in Seq(Enforced)
    /\ returned \subseteq Enforced

\* Every record is well formed and of a window that has been started.
BoardTypes == \A r \in board : WellFormed(r) /\ r.window <= window

\* An agent that has run or runs.
Started(a) == a \in completed \/ (pc = "run" /\ agent = a)

\* The agents run once each, in the order of the readiness rules; an iteration
\* is an agent.
AgentsInOrder ==
    /\ pc = "run" => agent \in Agents \ completed
    /\ Started("threat") => Detectors \subseteq completed
    /\ Started("risk") => "threat" \in completed
    /\ Started("access") => "risk" \in completed
    /\ Detectors \subseteq completed => flags.risk
    /\ "risk" \in completed => flags.rec
    /\ pc = "loop" => iteration = Cardinality(completed)
    /\ pc = "run" => iteration = Cardinality(completed) + 1

\* The device model holds the scores of the window's findings, and findings
\* are of detectors that have finished.
FindingsAreHeld ==
    /\ \A f \in findings : f.kind = "network" => netRisk[f.entity] = f.score
    /\ \A f \in findings : f.kind = "behavior" => behRisk[f.entity] = f.score
    /\ pc # "idle" => \A f \in findings : f.kind \in completed

\* The recommendations of the window are the systemic risks as they stand.
RisksAreCurrent ==
    \A r \in board : (r.kind = "risk" /\ r.window = window) =>
        /\ Detectors \subseteq completed
        /\ r.val.risk = Systemic(netRisk, behRisk, r.entity)

\* A COMMITTED record.
Has(k, w, e) == \E r \in board : r.kind = k /\ r.window = w /\ r.entity = e /\ r.durable

\* The evidence below a record is COMMITTED.
Chained ==
    \A r \in board :
        /\ r.kind # "threat" => Has("threat", r.window, r.entity)
        /\ r.kind \in {"access", "action"} => Has("risk", r.window, r.entity)
        /\ r.kind = "action" => Has("access", r.window, r.entity)

\* The evidence below a commit is COMMITTED.
CallsChained ==
    \A c \in Callers : call[c].pc # "idle" =>
        \A k \in Analysts : Has(k, call[c].window, call[c].entity)

\* An analyst has not written of the entities that it still has to handle,
\* but for the one whose commit is under way.
NotYetWritten ==
    pc # "idle" =>
        \A r \in board : (r.window = window /\ r.kind \in Analysts) =>
            \/ r.kind \in completed
            \/ /\ pc = "run" /\ agent = r.kind
               /\ r.entity \in todo => call[Worker].pc # "idle" /\ call[Worker].entity = r.entity

\* One output of an analyst per window and entity.
OneOutput ==
    \A r, s \in board :
        (r.kind \in Analysts /\ r.kind = s.kind /\ r.window = s.window /\ r.entity = s.entity)
           => r.val = s.val

\* The worker commits inside its window, about an entity it has to handle.
WorkerCommits ==
    call[Worker].pc # "idle" =>
        /\ pc = "run" /\ agent = "access"
        /\ call[Worker].window = window /\ call[Worker].entity \in todo

\* What the worker commits or has written is the policy's action.
WorkerFollowsPolicy ==
    \A r \in board : r.kind = "risk" =>
        /\ (call[Worker].pc # "idle" /\ call[Worker].window = r.window
              /\ call[Worker].entity = r.entity) => call[Worker].action = Policy(r.val)
        /\ \A a \in board :
              (a.kind = "action" /\ a.window = r.window /\ a.entity = r.entity
                 /\ a.val.by = Worker) => a.val.action = Policy(r.val)

\* A decision on a majority.
IsFirm(w, e, d) == \E r \in board :
    r.kind = "action" /\ r.window = w /\ r.entity = e /\ r.durable /\ r.val = d

OneFirm ==
    \A r, s \in board :
        (r.kind = "action" /\ s.kind = "action" /\ r.window = s.window /\ r.entity = s.entity
           /\ r.durable /\ s.durable) => r.val = s.val

\* Whatever was returned or is remembered is on a majority.
RememberedAreFirm ==
    /\ \A x \in returned : IsFirm(x.window, x.entity, x.val)
    /\ \A x \in Range(recent) : IsFirm(x.window, x.entity, x.val)
    /\ \A c \in Callers : \A x \in Range(cache[c]) : IsFirm(x.window, x.entity, x.val)
    /\ \A f \in feedback : IsFirm(f.window, f.entity, f.action)

Left(a) == IF pc = "run" /\ agent = a THEN todo ELSE {}
ReturnedHere == {r.entity : r \in {x \in returned : x.window = window}}

\* What an analyst has to handle: inputs of the window, each of which is done
\* or left to do.
WorkIsAccounted ==
    /\ pc = "run" /\ agent = "risk" => todo \subseteq Outputs("threat")
    /\ pc = "run" /\ agent = "access" => todo \subseteq Outputs("risk")
    /\ Started("threat") => {f.entity : f \in findings} \cap Protected
                               \subseteq Left("threat") \cup Outputs("threat")
    /\ Started("risk") => Outputs("threat") \subseteq Left("risk") \cup Outputs("risk")
    /\ Started("access") => Outputs("risk") \subseteq Left("access") \cup ReturnedHere

CompletedRanAll ==
    (pc = "idle" /\ window > 0 /\ status[window] = "COMPLETED") => completed = Agents

LoopInv == LoopTypes /\ AgentsInOrder /\ CompletedRanAll
EvidenceInv == RiskTypes /\ FindingsAreHeld /\ RisksAreCurrent
BoardInv == BoardTypes /\ Chained /\ CallsChained /\ NotYetWritten /\ OneOutput
LedgerInv == LedgerTypes /\ WorkerCommits /\ WorkerFollowsPolicy /\ OneFirm /\ RememberedAreFirm
WorkflowInv == LoopInv /\ EvidenceInv /\ BoardInv /\ LedgerInv /\ WorkIsAccounted

-----------------------------------------------------------------------------
(* Minima, maxima and risks. *)

\* A nonempty set of naturals has a least element.
LEMMA LeastExists ==
  ASSUME NEW S \in SUBSET Nat, S # {}
  PROVE  \E x \in S : \A y \in S : x <= y
<1>1. PICK x \in S : \A y \in S : ~ (<<y, x>> \in OpToRel(<, Nat))
  BY NatLessThanWellFounded, WFMin
<1>2. \A y \in S : ~ (y < x)
  BY <1>1 DEF OpToRel
<1> QED BY <1>2

\* A nonempty set of naturals with a bound has its maximum.
LEMMA MaxExists ==
  ASSUME NEW n \in Nat, NEW S \in SUBSET (0 .. n), S # {}
  PROVE  Max(S) \in S /\ \A y \in S : y <= Max(S)
<1> DEFINE T == {n - y : y \in S}
<1>1. T \in SUBSET Nat /\ T # {}
  <2>1. \A y \in S : y \in 0 .. n
    OBVIOUS
  <2>2. \A y \in S : n - y \in Nat
    BY <2>1
  <2> QED BY <2>2
<1>2. PICK t \in T : \A y \in T : t <= y
  BY <1>1, LeastExists
<1>3. PICK x \in S : t = n - x
  OBVIOUS
<1>4. \A y \in S : x >= y
  BY <1>2, <1>3
<1> QED BY <1>4 DEF Max

\* The entity an analyst takes first is one it has to handle.
LEMMA FirstIsOfTodo ==
  ASSUME LoopTypes, todo # {}
  PROVE  First \in todo
<1>1. todo \in SUBSET Nat
  BY WorkflowAssumption DEF LoopTypes, Protected
<1>2. \E e \in todo : \A o \in todo : e <= o
  BY <1>1, LeastExists
<1> QED BY <1>2 DEF First

\* A device's direct risk is at most its systemic risk, and both are risks.
LEMMA SystemicRisk ==
  ASSUME NEW net \in [Devices -> 0 .. Unit \cup {None}],
         NEW beh \in [Devices -> 0 .. Unit \cup {None}],
         NEW d \in Devices
  PROVE  /\ Systemic(net, beh, d) \in 0 .. Unit
         /\ Direct(net, beh, d) <= Systemic(net, beh, d)
         /\ OrZero(net[d]) <= Direct(net, beh, d)
         /\ OrZero(beh[d]) <= Direct(net, beh, d)
<1>1. \A x \in Devices : /\ Direct(net, beh, x) \in 0 .. Unit
                         /\ OrZero(net[x]) <= Direct(net, beh, x)
                         /\ OrZero(beh[x]) <= Direct(net, beh, x)
  BY WorkflowAssumption DEF Direct, OrZero
<1>2. \A r \in 0 .. Unit, h \in 1 .. 3 : Pushed(r, h) \in 0 .. Unit
  BY WorkflowAssumption DEF Pushed
<1>3. \A h \in 1 .. 3 : Reached(d)[h] \subseteq Devices
  <2>1. \A e : Neighbours(e) \subseteq Devices
    BY DEF Neighbours, Protected
  <2> DEFINE one == Neighbours(d) \ {d}
             two == (UNION {Neighbours(e) : e \in one}) \ ({d} \cup one)
             three == (UNION {Neighbours(e) : e \in two}) \ ({d} \cup one \cup two)
  <2>2. Reached(d) = <<one, two, three>>
    BY DEF Reached
  <2>3. one \subseteq Devices
    BY <2>1
  <2>4. two \subseteq Devices
    BY <2>1
  <2>5. three \subseteq Devices
    BY <2>1
  <2> HIDE DEF one, two, three
  <2> QED BY <2>2, <2>3, <2>4, <2>5
<1> DEFINE Sources == UNION {{Pushed(Direct(net, beh, s), h) : s \in Reached(d)[h]} : h \in 1 .. 3}
<1>4. Sources \subseteq 0 .. Unit
  BY <1>1, <1>2, <1>3
<1>5. {0} \cup Sources \in SUBSET (0 .. Unit) /\ {0} \cup Sources # {}
  BY <1>4, WorkflowAssumption
<1>6. Unit \in Nat
  BY WorkflowAssumption
<1>7. Max({0} \cup Sources) \in 0 .. Unit
  <2> HIDE DEF Sources
  <2> QED BY <1>5, <1>6, MaxExists
<1>8. Propagated(net, beh, d) \in 0 .. Unit
  BY <1>6, <1>7 DEF Propagated
<1> DEFINE Two == {Direct(net, beh, d), Propagated(net, beh, d)}
<1>9. Two \in SUBSET (0 .. Unit) /\ Two # {}
  BY <1>1, <1>8
<1>10. Max(Two) \in Two /\ \A y \in Two : y <= Max(Two)
  <2> HIDE DEF Two
  <2> QED BY <1>6, <1>9, MaxExists
<1> QED BY <1>1, <1>9, <1>10 DEF Systemic

\* There are five agents.
LEMMA FiveAgents == IsFiniteSet(Agents) /\ Cardinality(Agents) = 5
<1>1. ASSUME NEW S, IsFiniteSet(S), NEW n \in Nat, Cardinality(S) = n, NEW x, x \notin S
      PROVE  IsFiniteSet(S \cup {x}) /\ Cardinality(S \cup {x}) = n + 1
  <2>1. IsFiniteSet(S \cup {x})
        /\ Cardinality(S \cup {x}) = IF x \in S THEN Cardinality(S) ELSE Cardinality(S) + 1
    BY <1>1, FS_AddElement
  <2> QED BY <1>1, <2>1
<1>2. IsFiniteSet({"network"}) /\ Cardinality({"network"}) = 1
  BY FS_Singleton
<1>3. PICK S2 : S2 = {"network"} \cup {"behavior"}
  OBVIOUS
<1>4. IsFiniteSet(S2) /\ Cardinality(S2) = 1 + 1
  BY <1>1, <1>2, <1>3
<1>5. PICK S3 : S3 = S2 \cup {"threat"}
  OBVIOUS
<1>6. "threat" \notin S2
  BY <1>3
<1>7. IsFiniteSet(S3) /\ Cardinality(S3) = 2 + 1
  BY <1>1, <1>4, <1>5, <1>6
<1>8. PICK S4 : S4 = S3 \cup {"risk"}
  OBVIOUS
<1>9. "risk" \notin S3
  BY <1>3, <1>5
<1>10. IsFiniteSet(S4) /\ Cardinality(S4) = 3 + 1
  BY <1>1, <1>7, <1>8, <1>9
<1>11. S4 \cup {"access"} = Agents /\ "access" \notin S4
  BY <1>3, <1>5, <1>8 DEF Agents
<1>12. IsFiniteSet(Agents) /\ Cardinality(Agents) = 4 + 1
  BY <1>1, <1>10, <1>11
<1> QED BY <1>12

\* One more agent, one more completed.
LEMMA OneMoreAgent ==
  ASSUME NEW S \in SUBSET Agents
  PROVE  /\ Cardinality(S) \in 0 .. 5
         /\ \A a \in Agents \ S : Cardinality(S \cup {a}) = Cardinality(S) + 1
<1>1. IsFiniteSet(S) /\ Cardinality(S) <= 5
  BY FiveAgents, FS_Subset
<1>2. Cardinality(S) \in Nat
  BY <1>1, FS_CardinalityType
<1>3. \A a \in Agents \ S : Cardinality(S \cup {a}) = Cardinality(S) + 1
  BY <1>1, FS_AddElement
<1> QED BY <1>1, <1>2, <1>3

-----------------------------------------------------------------------------
(* The start. *)

LEMMA WorkflowStarts == WorkflowInit => WorkflowInv
<1> SUFFICES ASSUME WorkflowInit PROVE WorkflowInv
  OBVIOUS
<1>1. LoopTypes /\ CompletedRanAll
  BY WorkflowAssumption DEF WorkflowInit, LoopTypes, CompletedRanAll
<1>2. AgentsInOrder
  BY FS_EmptySet DEF WorkflowInit, AgentsInOrder, Started, Detectors
<1>3. EvidenceInv
  BY DEF WorkflowInit, EvidenceInv, RiskTypes, FindingsAreHeld, RisksAreCurrent
<1>4. call = [c \in Callers |-> Idle] /\ \A c \in Callers : call[c].pc = "idle"
  BY DEF WorkflowInit, Idle
<1>5. BoardInv
  BY <1>4 DEF WorkflowInit, BoardInv, BoardTypes, Chained, CallsChained, NotYetWritten, OneOutput
<1>6. LedgerTypes
  BY <1>4 DEF WorkflowInit, LedgerTypes
<1>7. WorkerCommits /\ WorkerFollowsPolicy /\ OneFirm
  BY <1>4 DEF WorkflowInit, WorkerCommits, WorkerFollowsPolicy, OneFirm, Callers
<1>8. RememberedAreFirm
  BY DEF WorkflowInit, RememberedAreFirm, Range
<1>9. WorkIsAccounted
  BY DEF WorkflowInit, WorkIsAccounted, Started
<1> QED BY <1>1, <1>2, <1>3, <1>5, <1>6, <1>7, <1>8, <1>9
           DEF WorkflowInv, LoopInv, LedgerInv

-----------------------------------------------------------------------------
(* Steps of the ledger. *)

OutputsOf(b) == {r \in b : r.kind \in Analysts}

\* A record that is served becomes firm, if no other is.
Promoted(w, e, d) ==
    {IF r.kind = "action" /\ r.window = w /\ r.entity = e /\ r.val = d
     THEN [r EXCEPT !.durable = TRUE] ELSE r : r \in board}

\* The one decision that may be made firm is held, and it is the firm one.
MayBeFirm(w, e, d) ==
    /\ \E r \in board : r.kind = "action" /\ r.window = w /\ r.entity = e /\ r.val = d
    /\ \A r \in board : (r.kind = "action" /\ r.window = w /\ r.entity = e /\ r.durable)
                          => r.val = d

\* What the ledger may do to the blackboard: nothing to outputs, and to actions
\* only to decide once.
FirmStep ==
    /\ OutputsOf(board') = OutputsOf(board)
    /\ \A r \in board' : WellFormed(r) /\ r.window <= window
    /\ OneFirm'
    /\ \A x, y, z : IsFirm(x, y, z) => IsFirm(x, y, z)'

\* Each action that is there after a step was there, or is of a call.
ActionsAreOld(calls) ==
    \A a \in board' : a.kind = "action" =>
        \/ \E b \in board : /\ b.kind = "action" /\ b.val = a.val
                             /\ b.window = a.window /\ b.entity = a.entity
        \/ \E c \in calls : /\ call[c].pc # "idle" /\ a.val = Decision(c)
                             /\ a.window = call[c].window /\ a.entity = call[c].entity

\* A record made durable keeps its other fields.
LEMMA Durably ==
  ASSUME NEW r, WellFormed(r)
  PROVE  LET u == [r EXCEPT !.durable = TRUE]
         IN /\ u.kind = r.kind /\ u.window = r.window /\ u.entity = r.entity /\ u.val = r.val
            /\ WellFormed(u) /\ u.durable
  BY DEF WellFormed

LEMMA Promotion ==
  ASSUME NEW w, NEW e, NEW d, BoardTypes, OneFirm, MayBeFirm(w, e, d),
         board' = Promoted(w, e, d)
  PROVE  FirmStep /\ IsFirm(w, e, d)' /\ ActionsAreOld({})
<1> DEFINE Same(r) == r.kind = "action" /\ r.window = w /\ r.entity = e /\ r.val = d
           Up(r) == IF Same(r) THEN [r EXCEPT !.durable = TRUE] ELSE r
<1>1. board' = {Up(r) : r \in board}
  BY DEF Promoted
<1>2. \A r \in board : /\ Up(r).kind = r.kind /\ Up(r).window = r.window
                       /\ Up(r).entity = r.entity /\ Up(r).val = r.val
                       /\ WellFormed(Up(r))
                       /\ r.durable => Up(r).durable
                       /\ Up(r).durable => (r.durable \/ Same(r))
                       /\ Same(r) => Up(r).durable
                       /\ r.kind # "action" => Up(r) = r
  BY Durably DEF BoardTypes
<1> HIDE DEF Up
<1>3. OutputsOf(board') = OutputsOf(board)
  BY <1>1, <1>2 DEF OutputsOf, Analysts
<1>4. \A r \in board' : WellFormed(r) /\ r.window <= window
  BY <1>1, <1>2 DEF BoardTypes
<1>5. \A x, y, z : IsFirm(x, y, z) => IsFirm(x, y, z)'
  BY <1>1, <1>2 DEF IsFirm
<1>6. OneFirm'
  BY <1>1, <1>2 DEF OneFirm, MayBeFirm
<1>7. IsFirm(w, e, d)'
  BY <1>1, <1>2 DEF IsFirm, MayBeFirm
<1>8. ActionsAreOld({})
  BY <1>1, <1>2 DEF ActionsAreOld
<1> QED BY <1>3, <1>4, <1>5, <1>6, <1>7, <1>8 DEF FirmStep

\* put's write: no record is firm yet, and the new one is.
LEMMA FirmWrite ==
  ASSUME NEW c \in Callers, NEW w, NEW e, NEW d,
         w = call[c].window, e = call[c].entity, d = Decision(c), BoardTypes, OneFirm, LedgerTypes, call[c].pc # "idle",
         Firm(call[c].window, call[c].entity) = {},
         call[c].window <= window,
         board' = (board \ Actions(call[c].window, call[c].entity)) \cup {ActionRecord(c, TRUE)}
  PROVE  /\ FirmStep
         /\ IsFirm(w, e, d)'
         /\ ActionsAreOld({c})
<1> DEFINE n == ActionRecord(c, TRUE)
<1>1. /\ n.kind = "action" /\ n.window = call[c].window /\ n.entity = call[c].entity
      /\ n.val = Decision(c) /\ n.durable
  BY DEF ActionRecord
<1>2. call[c] \in Running
  BY DEF LedgerTypes, Idle
<1>3. WellFormed(n)
  BY <1>2 DEF WellFormed, ActionRecord, Decision, Decisions, Running
<1>4. \A r \in Actions(call[c].window, call[c].entity) : r.kind = "action" /\ ~ r.durable
  BY DEF Firm, Actions
<1>5. \A r \in board : r.kind = "action" /\ r.window = call[c].window /\ r.entity = call[c].entity
        => r \in Actions(call[c].window, call[c].entity)
  BY DEF Actions
<1>0. board' = (board \ Actions(call[c].window, call[c].entity)) \cup {n}
  OBVIOUS
<1> HIDE DEF n
<1>6. OutputsOf(board') = OutputsOf(board)
  BY <1>0, <1>1, <1>4 DEF OutputsOf, Analysts
<1>7. \A r \in board' : WellFormed(r) /\ r.window <= window
  BY <1>0, <1>1, <1>3 DEF BoardTypes
<1>8. \A x, y, z : IsFirm(x, y, z) => IsFirm(x, y, z)'
  BY <1>0, <1>4 DEF IsFirm
<1>9. OneFirm'
  BY <1>0, <1>1, <1>5 DEF OneFirm
<1>10. IsFirm(w, e, d)'
  BY <1>0, <1>1 DEF IsFirm
<1>11. ActionsAreOld({c})
  BY <1>0, <1>1 DEF ActionsAreOld
<1> QED BY <1>6, <1>7, <1>8, <1>9, <1>10, <1>11 DEF FirmStep

\* A write that is not COMMITTED: the record is held, and not firm.
LEMMA PartialWrite ==
  ASSUME NEW c \in Callers, BoardTypes, OneFirm, LedgerTypes, call[c].pc # "idle",
         call[c].window <= window,
         board' = board \cup {ActionRecord(c, FALSE)}
  PROVE  /\ FirmStep
         /\ ActionsAreOld({c})
<1> DEFINE n == ActionRecord(c, FALSE)
<1>1. /\ n.kind = "action" /\ n.window = call[c].window /\ n.entity = call[c].entity
      /\ n.val = Decision(c) /\ ~ n.durable
  BY DEF ActionRecord
<1>2. call[c] \in Running
  BY DEF LedgerTypes, Idle
<1>3. WellFormed(n)
  BY <1>2 DEF WellFormed, ActionRecord, Decision, Decisions, Running
<1>4. board' = board \cup {n}
  OBVIOUS
<1> HIDE DEF n
<1>6. OutputsOf(board') = OutputsOf(board)
  BY <1>1, <1>4 DEF OutputsOf, Analysts
<1>7. \A r \in board' : WellFormed(r) /\ r.window <= window
  BY <1>1, <1>3, <1>4 DEF BoardTypes
<1>8. \A x, y, z : IsFirm(x, y, z) => IsFirm(x, y, z)'
  BY <1>4 DEF IsFirm
<1>9. OneFirm'
  BY <1>1, <1>4 DEF OneFirm
<1>10. ActionsAreOld({c})
  BY <1>1, <1>4 DEF ActionsAreOld
<1> QED BY <1>6, <1>7, <1>8, <1>9, <1>10 DEF FirmStep

\* What a step of the ledger does to the window that the worker executes: none
\* of it, a failure, or one entity less to handle.
LoopGoesOn ==
    /\ UNCHANGED <<pc, status, todo>>
    /\ call[Worker].pc # "idle" => call'[Worker].pc # "idle"

LoopFails ==
    /\ pc # "idle" /\ Failed
    /\ UNCHANGED todo
    /\ call'[Worker] = Idle

EntityHandled ==
    /\ call[Worker].pc # "idle" /\ call'[Worker] = Idle
    /\ UNCHANGED <<pc, status>>
    /\ todo' = todo \ {call[Worker].entity}
    /\ \E x \in returned' : x.window = window /\ x.entity = call[Worker].entity

LedgerStep ==
    /\ FirmStep /\ ActionsAreOld(Callers)
    /\ UNCHANGED <<netRisk, behRisk, window, agent, completed, flags, iteration, findings>>
    /\ call' \in [Callers -> Running \cup {Idle}]
    /\ \A c \in Callers :
          \/ call'[c] = Idle
          \/ /\ call[c].pc # "idle" /\ call'[c].pc # "idle"
             /\ call'[c].window = call[c].window /\ call'[c].entity = call[c].entity
             /\ call'[c].action = call[c].action
    /\ returned \subseteq returned'
    /\ LoopGoesOn \/ LoopFails \/ EntityHandled

LEMMA OutputsStay ==
  ASSUME OutputsOf(board') = OutputsOf(board), window' = window
  PROVE  /\ \A k \in Analysts : \A w, e : Has(k, w, e)' <=> Has(k, w, e)
         /\ \A k \in Analysts : Outputs(k)' = Outputs(k)
         /\ \A r : r.kind \in Analysts => (r \in board <=> r \in board')
<1>1. \A r : r.kind \in Analysts => (r \in board <=> r \in board')
  BY DEF OutputsOf
<1>2. \A k \in Analysts : \A w, e : Has(k, w, e)' <=> Has(k, w, e)
  BY <1>1 DEF Has
<1>3. \A k \in Analysts : Outputs(k)' = Outputs(k)
  BY <1>1 DEF Outputs
<1> QED BY <1>1, <1>2, <1>3

\* Steps of the ledger keep what is said of the loop, of the evidence and of the
\* analysts' records.
LEMMA LedgerKeepsTheRest ==
  ASSUME WorkflowInv, LedgerStep
  PROVE  LoopInv' /\ EvidenceInv' /\ BoardInv' /\ WorkerCommits' /\ WorkerFollowsPolicy'
           /\ WorkIsAccounted'
<1> USE DEF WorkflowInv, LedgerStep
<1>0. Worker \in Callers
  BY DEF Callers
<1>1. /\ \A k \in Analysts : \A w, e : Has(k, w, e)' <=> Has(k, w, e)
      /\ \A k \in Analysts : Outputs(k)' = Outputs(k)
      /\ \A r : r.kind \in Analysts => (r \in board <=> r \in board')
  BY OutputsStay DEF FirmStep
<1>2. LoopTypes'
  <2>1. CASE LoopGoesOn
    BY <2>1 DEF LoopInv, LoopTypes, LoopGoesOn
  <2>2. CASE LoopFails
    BY <2>2 DEF LoopInv, LoopTypes, LoopFails, Failed
  <2>3. CASE EntityHandled
    BY <2>3 DEF LoopInv, LoopTypes, EntityHandled
  <2> QED BY <2>1, <2>2, <2>3
<1>3. /\ pc' = pc \/ pc' = "idle"
      /\ todo' \subseteq todo
  BY DEF LoopGoesOn, LoopFails, EntityHandled, Failed
<1>4. AgentsInOrder'
  BY <1>3 DEF LoopInv, AgentsInOrder, Started
<1>5. CompletedRanAll'
  <2>1. CASE LoopGoesOn
    BY <2>1 DEF LoopInv, CompletedRanAll, LoopGoesOn
  <2>2. CASE LoopFails
    <3>1. status'[window] = "FAILED"
      BY <2>2 DEF LoopInv, LoopTypes, LoopFails, Failed
    <3> QED BY <3>1 DEF CompletedRanAll
  <2>3. CASE EntityHandled
    BY <2>3 DEF LoopInv, CompletedRanAll, EntityHandled
  <2> QED BY <2>1, <2>2, <2>3
<1>6. EvidenceInv'
  <2>1. RiskTypes'
    BY DEF EvidenceInv, RiskTypes
  <2>2. FindingsAreHeld'
    BY <1>3 DEF EvidenceInv, FindingsAreHeld
  <2>3. \A r \in board' : r.kind = "risk" => r \in board
    BY <1>1 DEF Analysts
  <2>4. \A e : Systemic(netRisk', behRisk', e) = Systemic(netRisk, behRisk, e)
    OBVIOUS
  <2>5. RisksAreCurrent'
    BY <2>3, <2>4 DEF EvidenceInv, RisksAreCurrent
  <2> QED BY <2>1, <2>2, <2>5 DEF EvidenceInv
<1>7. BoardTypes'
  BY DEF FirmStep, BoardTypes
<1>8. CallsChained'
  <2> SUFFICES ASSUME NEW c \in Callers, (call[c].pc # "idle")', NEW k \in Analysts
               PROVE  Has(k, call[c].window, call[c].entity)'
    BY DEF CallsChained
  <2>1. /\ call[c].pc # "idle"
        /\ call'[c].window = call[c].window /\ call'[c].entity = call[c].entity
    BY DEF Idle
  <2>2. Has(k, call[c].window, call[c].entity)
    BY <2>1 DEF BoardInv, CallsChained
  <2>3. \A r : r.kind = k => (r \in board <=> r \in board')
    BY <1>1
  <2> QED BY <2>1, <2>2, <2>3 DEF Has
<1>9. Chained'
  <2> SUFFICES ASSUME NEW r \in board'
               PROVE  /\ r.kind # "threat" => Has("threat", r.window, r.entity)'
                      /\ r.kind \in {"access", "action"} => Has("risk", r.window, r.entity)'
                      /\ r.kind = "action" => Has("access", r.window, r.entity)'
    BY DEF Chained
  <2>0. r.kind \in Analysts \cup {"action"}
    BY DEF FirmStep, WellFormed
  <2>1. CASE r.kind \in Analysts
    BY <1>1, <2>1 DEF BoardInv, Chained, Analysts
  <2>2. CASE r.kind = "action"
    <3>1. \A k \in Analysts : Has(k, r.window, r.entity)
      <4>1. CASE \E b \in board : /\ b.kind = "action" /\ b.val = r.val
                                  /\ b.window = r.window /\ b.entity = r.entity
        BY <4>1 DEF BoardInv, Chained, Analysts
      <4>2. CASE \E c \in Callers : /\ call[c].pc # "idle" /\ r.val = Decision(c)
                                    /\ r.window = call[c].window /\ r.entity = call[c].entity
        BY <4>2 DEF BoardInv, CallsChained
      <4> QED BY <4>1, <4>2, <2>2 DEF ActionsAreOld
    <3> QED BY <1>1, <3>1, <2>2 DEF Analysts
  <2> QED BY <2>0, <2>1, <2>2
<1>10. NotYetWritten'
  <2> SUFFICES ASSUME pc' # "idle", NEW r \in board', r.window = window, r.kind \in Analysts,
                      r.kind \notin completed
               PROVE  /\ pc' = "run" /\ agent = r.kind
                      /\ r.entity \in todo'
                           => call'[Worker].pc # "idle" /\ call'[Worker].entity = r.entity
    BY DEF NotYetWritten
  <2>1. r \in board /\ pc' = pc
    BY <1>1, <1>3
  <2>2. /\ pc = "run" /\ agent = r.kind
        /\ r.entity \in todo => call[Worker].pc # "idle" /\ call[Worker].entity = r.entity
    BY <2>1 DEF BoardInv, NotYetWritten
  <2>3. CASE LoopGoesOn
    BY <1>0, <2>1, <2>2, <2>3 DEF LoopGoesOn, Idle
  <2>4. CASE LoopFails
    BY <2>4 DEF LoopFails, Failed
  <2>5. CASE EntityHandled
    BY <2>1, <2>2, <2>5 DEF EntityHandled
  <2> QED BY <2>3, <2>4, <2>5
<1>11. OneOutput'
  BY <1>1 DEF BoardInv, OneOutput
<1>12. WorkerCommits'
  BY <1>0 DEF LedgerInv, WorkerCommits, LoopGoesOn, LoopFails, EntityHandled, Idle
<1>13. WorkerFollowsPolicy'
  <2> SUFFICES ASSUME NEW r \in board', r.kind = "risk"
               PROVE  /\ (call'[Worker].pc # "idle" /\ call'[Worker].window = r.window
                             /\ call'[Worker].entity = r.entity)
                              => call'[Worker].action = Policy(r.val)
                      /\ \A a \in board' :
                             (a.kind = "action" /\ a.window = r.window /\ a.entity = r.entity
                                /\ a.val.by = Worker) => a.val.action = Policy(r.val)
    BY DEF WorkerFollowsPolicy
  <2>1. r \in board
    BY <1>1 DEF Analysts
  <2>2. (call'[Worker].pc # "idle" /\ call'[Worker].window = r.window
           /\ call'[Worker].entity = r.entity) => call'[Worker].action = Policy(r.val)
    BY <1>0, <2>1 DEF LedgerInv, WorkerFollowsPolicy, Idle
  <2>3. ASSUME NEW a \in board', a.kind = "action", a.window = r.window, a.entity = r.entity,
               a.val.by = Worker
        PROVE  a.val.action = Policy(r.val)
    <3>1. CASE \E b \in board : /\ b.kind = "action" /\ b.val = a.val
                                /\ b.window = a.window /\ b.entity = a.entity
      BY <2>1, <2>3, <3>1 DEF LedgerInv, WorkerFollowsPolicy
    <3>2. CASE \E c \in Callers : /\ call[c].pc # "idle" /\ a.val = Decision(c)
                                  /\ a.window = call[c].window /\ a.entity = call[c].entity
      <4>1. PICK c \in Callers : /\ call[c].pc # "idle" /\ a.val = Decision(c)
                                 /\ a.window = call[c].window /\ a.entity = call[c].entity
        BY <3>2
      <4>2. c = Worker /\ a.val.action = call[Worker].action
        BY <2>3, <4>1 DEF Decision
      <4> QED BY <2>1, <2>3, <4>1, <4>2 DEF LedgerInv, WorkerFollowsPolicy
    <3> QED BY <2>3, <3>1, <3>2 DEF ActionsAreOld
  <2> QED BY <2>2, <2>3
<1>14. WorkIsAccounted'
  <2>1. \A k \in Analysts : Outputs(k)' = Outputs(k)
    BY <1>1
  <2>2. ReturnedHere \subseteq ReturnedHere'
    BY DEF ReturnedHere
  <2>3. CASE LoopGoesOn
    BY <2>1, <2>2, <2>3 DEF WorkIsAccounted, Started, Left, LoopGoesOn, Analysts
  <2>4. CASE LoopFails
    <3>1. pc' = "idle"
      BY <2>4 DEF LoopFails, Failed
    <3>2. \A a : Left(a)' = {} /\ (Started(a)' => a \in completed)
      BY <3>1 DEF Left, Started
    <3>3. \A a : a \in completed => Left(a) = {} /\ Started(a)
      BY DEF LoopInv, AgentsInOrder, Left, Started
    <3> QED BY <2>1, <2>2, <3>1, <3>2, <3>3 DEF WorkIsAccounted, Analysts
  <2>5. CASE EntityHandled
    <3>1. pc = "run" /\ pc' = "run" /\ agent = "access"
      BY <2>5 DEF EntityHandled, LedgerInv, WorkerCommits
    <3>2. Left("access")' = Left("access") \ {call[Worker].entity}
      BY <2>5, <3>1 DEF EntityHandled, Left
    <3>3. call[Worker].entity \in ReturnedHere'
      BY <2>5 DEF EntityHandled, ReturnedHere
    <3>4. \A a : Started(a)' <=> Started(a)
      BY <3>1 DEF Started
    <3>5. Left("threat")' = Left("threat") /\ Left("risk")' = Left("risk")
      BY <3>1 DEF Left
    <3> QED BY <1>3, <2>1, <2>2, <3>1, <3>2, <3>3, <3>4, <3>5 DEF WorkIsAccounted, Analysts
  <2> QED BY <2>3, <2>4, <2>5
<1> QED BY <1>2, <1>4, <1>5, <1>6, <1>7, <1>8, <1>9, <1>10, <1>11, <1>12, <1>13, <1>14
           DEF LoopInv, BoardInv

-----------------------------------------------------------------------------
(* The calls of commit. *)

\* Sequences that lose or gain an element.
LEMMA RangeOfAppend ==
  ASSUME NEW S, NEW s \in Seq(S), NEW x \in S
  PROVE  Append(s, x) \in Seq(S) /\ Range(Append(s, x)) \subseteq Range(s) \cup {x}
  BY DEF Range

LEMMA RangeOfTail ==
  ASSUME NEW S, NEW s \in Seq(S), s # <<>>
  PROVE  Tail(s) \in Seq(S) /\ Range(Tail(s)) \subseteq Range(s)
  BY DEF Range

LEMMA RangeWithout ==
  ASSUME NEW S, NEW s \in Seq(S), NEW i \in 1 .. Len(s)
  PROVE  LET t == SubSeq(s, 1, i - 1) \o SubSeq(s, i + 1, Len(s))
         IN t \in Seq(S) /\ Range(t) \subseteq Range(s)
<1> DEFINE a == SubSeq(s, 1, i - 1)
           b == SubSeq(s, i + 1, Len(s))
<1>1. /\ a \in Seq(S) /\ Len(a) = i - 1
      /\ \A j \in 1 .. i - 1 : a[j] = s[j]
  OBVIOUS
<1>2. /\ b \in Seq(S) /\ Len(b) = Len(s) - i
      /\ \A j \in 1 .. Len(s) - i : b[j] = s[i + j]
  OBVIOUS
<1> HIDE DEF a, b
<1>3. /\ a \o b \in Seq(S) /\ Len(a \o b) = Len(s) - 1
      /\ \A j \in 1 .. Len(s) - 1 : (a \o b)[j] = IF j <= i - 1 THEN a[j] ELSE b[j - (i - 1)]
  <2>0. a \in Seq(S) /\ b \in Seq(S)
    BY <1>1, <1>2
  <2>1. a \o b \in Seq(S) /\ Len(a \o b) = Len(a) + Len(b)
    BY <2>0
  <2>2. \A j \in 1 .. Len(a) + Len(b) :
           (a \o b)[j] = IF j <= Len(a) THEN a[j] ELSE b[j - Len(a)]
    BY <1>1, <1>2
  <2>3. Len(a) + Len(b) = Len(s) - 1
    BY <1>1, <1>2
  <2> QED BY <1>1, <2>1, <2>2, <2>3
<1>4. \A j \in 1 .. Len(s) - 1 : (a \o b)[j] \in Range(s)
  <2> SUFFICES ASSUME NEW j \in 1 .. Len(s) - 1 PROVE (a \o b)[j] \in Range(s)
    OBVIOUS
  <2>1. CASE j <= i - 1
    <3>1. j \in 1 .. i - 1 /\ j \in DOMAIN s
      BY <2>1
    <3>2. (a \o b)[j] = s[j]
      BY <1>1, <1>3, <2>1, <3>1
    <3> QED BY <3>1, <3>2 DEF Range
  <2>2. CASE ~ (j <= i - 1)
    <3>1. j - (i - 1) \in 1 .. Len(s) - i
      BY <2>2
    <3>2. (a \o b)[j] = s[i + (j - (i - 1))]
      BY <1>2, <1>3, <2>2, <3>1
    <3> QED BY <3>2, <2>2 DEF Range
  <2> QED BY <2>1, <2>2
<1>5. Range(a \o b) \subseteq Range(s)
  BY <1>3, <1>4 DEF Range
<1> QED BY <1>3, <1>5 DEF a, b

\* A ledger's cache afterwards: what it held, and the decision.
LEMMA KeepIsBounded ==
  ASSUME NEW c \in Callers, LedgerTypes, call[c].pc # "idle", NEW d \in Decisions
  PROVE  LET x == [window |-> call[c].window, entity |-> call[c].entity, val |-> d]
         IN /\ x \in Enforced
            /\ Keep(c, d) \in Seq(Enforced)
            /\ Range(Keep(c, d)) \subseteq Range(cache[c]) \cup {x}
<1> DEFINE x == [window |-> call[c].window, entity |-> call[c].entity, val |-> d]
           at == {i \in 1 .. Len(cache[c]) : cache[c][i] \in Cached(c)}
           i == CHOOSE j \in at : TRUE
           fresh == IF at = {} THEN cache[c]
                    ELSE SubSeq(cache[c], 1, i - 1) \o SubSeq(cache[c], i + 1, Len(cache[c]))
           all == Append(fresh, x)
<1>1. call[c] \in Running
  BY DEF LedgerTypes, Idle
<1>2. x \in Enforced
  BY <1>1 DEF Running, Enforced
<1>3. cache[c] \in Seq(Enforced)
  BY DEF LedgerTypes
<1>4. Keep(c, d) = IF Len(all) > CacheLimit THEN Tail(all) ELSE all
  BY DEF Keep
<1>5. fresh \in Seq(Enforced) /\ Range(fresh) \subseteq Range(cache[c])
  <2>1. CASE at = {}
    BY <1>3, <2>1
  <2>2. CASE at # {}
    <3>1. i \in 1 .. Len(cache[c])
      BY <2>2
    <3> HIDE DEF i
    <3>2. LET t == SubSeq(cache[c], 1, i - 1) \o SubSeq(cache[c], i + 1, Len(cache[c]))
          IN t \in Seq(Enforced) /\ Range(t) \subseteq Range(cache[c])
      BY <1>3, <3>1, RangeWithout
    <3> QED BY <2>2, <3>2
  <2> QED BY <2>1, <2>2
<1> HIDE DEF x, fresh
<1>6. all \in Seq(Enforced) /\ Range(all) \subseteq Range(fresh) \cup {x}
  BY <1>2, <1>5, RangeOfAppend
<1>7. all # <<>>
  BY <1>5
<1> HIDE DEF all
<1>8. Tail(all) \in Seq(Enforced) /\ Range(Tail(all)) \subseteq Range(all)
  BY <1>6, <1>7, RangeOfTail
<1>9. Keep(c, d) \in Seq(Enforced) /\ Range(Keep(c, d)) \subseteq Range(cache[c]) \cup {x}
  BY <1>4, <1>5, <1>6, <1>8
<1> QED BY <1>2, <1>9 DEF x

\* A look answers with a decision that is, or may become, the firm one; it
\* answers that there is none only when none is firm.
LEMMA AnswersMayBeFirm ==
  ASSUME NEW c \in Callers, WorkflowInv, call[c].pc # "idle", NEW d \in Answers(c)
  PROVE  /\ d # None => d \in Decisions /\ MayBeFirm(call[c].window, call[c].entity, d)
         /\ d = None => Firm(call[c].window, call[c].entity) = {}
<1> DEFINE w == call[c].window
           e == call[c].entity
<1>1. None \notin Decisions
  BY WorkflowAssumption
<1>2. \A r \in Actions(w, e) : /\ r \in board /\ r.kind = "action" /\ r.window = w
                               /\ r.entity = e /\ r.val \in Decisions
  BY DEF Actions, WorkflowInv, BoardInv, BoardTypes, WellFormed
<1>3. \A r \in board : (r.kind = "action" /\ r.window = w /\ r.entity = e) => r \in Actions(w, e)
  BY DEF Actions
<1>4. CASE Cached(c) # {}
  <2>1. PICK k \in Cached(c) : d = k.val
    BY <1>4 DEF Answers
  <2>2. k \in Range(cache[c]) /\ k.window = w /\ k.entity = e
    BY DEF Cached
  <2>3. k \in Enforced
    BY <2>2 DEF WorkflowInv, LedgerInv, LedgerTypes, Range
  <2>4. IsFirm(w, e, d)
    BY <2>1, <2>2 DEF WorkflowInv, LedgerInv, RememberedAreFirm
  <2>5. d \in Decisions
    BY <2>1, <2>3 DEF Enforced
  <2>6. MayBeFirm(w, e, d)
    BY <2>4 DEF IsFirm, MayBeFirm, WorkflowInv, LedgerInv, OneFirm
  <2> QED BY <1>1, <2>5, <2>6
<1>5. CASE Cached(c) = {}
  <2>1. CASE Firm(w, e) # {}
    <3>1. PICK r \in Firm(w, e) : d = r.val
      BY <1>5, <2>1 DEF Answers, Served
    <3>2. r \in Actions(w, e) /\ r.durable
      BY DEF Firm
    <3>3. MayBeFirm(w, e, d)
      BY <1>2, <3>1, <3>2 DEF MayBeFirm, WorkflowInv, LedgerInv, OneFirm
    <3> QED BY <1>1, <1>2, <3>1, <3>2, <3>3
  <2>2. CASE Firm(w, e) = {}
    <3>1. \A r \in board : (r.kind = "action" /\ r.window = w /\ r.entity = e) => ~ r.durable
      BY <1>3, <2>2 DEF Firm
    <3>2. d # None => \E r \in Actions(w, e) : d = r.val
      BY <1>5, <2>2 DEF Answers, Served
    <3>3. d # None => MayBeFirm(w, e, d)
      BY <1>2, <3>1, <3>2 DEF MayBeFirm
    <3> QED BY <1>2, <2>2, <3>2, <3>3
  <2> QED BY <2>1, <2>2
<1> QED BY <1>4, <1>5

\* The call of c ends, with the decision x or with an exception.
CallEnds(c, x) ==
    /\ call' = [call EXCEPT ![c] = Idle]
    /\ returned \subseteq returned' /\ returned' \subseteq returned \cup x
    /\ recent' \in Seq(Enforced) /\ Range(recent') \subseteq Range(recent) \cup x
    /\ LoopGoesOn \/ LoopFails \/ EntityHandled

LEMMA RaiseEnds ==
  ASSUME NEW c \in Callers, WorkflowInv, call[c].pc # "idle", Raise(c)
  PROVE  CallEnds(c, {})
<1> USE DEF WorkflowInv, LedgerInv, LedgerTypes
<1>1. CASE c = Worker
  BY <1>1 DEF Raise, CallEnds, LoopFails, WorkerCommits
<1>2. CASE c # Worker
  BY <1>2, WorkflowAssumption DEF Raise, CallEnds, LoopGoesOn, Callers
<1> QED BY <1>1, <1>2

LEMMA ReturnEnds ==
  ASSUME NEW c \in Callers, WorkflowInv, call[c].pc # "idle", NEW d \in Decisions, Return(c, d)
  PROVE  CallEnds(c, {[window |-> call[c].window, entity |-> call[c].entity, val |-> d]})
<1> DEFINE x == [window |-> call[c].window, entity |-> call[c].entity, val |-> d]
<1> USE DEF WorkflowInv, LedgerInv
<1>1. x \in Enforced /\ x.window = call[c].window /\ x.entity = call[c].entity
  BY KeepIsBounded
<1>2. /\ call' = [call EXCEPT ![c] = Idle]
      /\ returned' = returned \cup {x}
  BY DEF Return
<1>3. Worker \in Callers /\ (c # Worker => call'[Worker] = call[Worker])
      /\ (c = Worker => call'[Worker] = Idle)
  BY <1>2 DEF LedgerTypes, Callers
<1>4. recent \in Seq(Enforced)
  BY DEF LedgerTypes
<1> DEFINE ok == c = Worker /\ Accepts("action", x.entity)
<1>5. CASE ok
  <2>1. /\ todo' = todo \ {x.entity}
        /\ recent' = IF Len(recent) = ActionsLimit THEN Append(Tail(recent), x)
                     ELSE Append(recent, x)
        /\ UNCHANGED <<status, pc>>
    BY <1>5 DEF Return
  <2>2. EntityHandled
    BY <1>1, <1>2, <1>3, <1>5, <2>1 DEF EntityHandled, WorkerCommits
  <2> HIDE DEF x
  <2>3. CASE Len(recent) = ActionsLimit
    <3>1. recent # <<>>
      BY <2>3, WorkflowAssumption
    <3>2. Tail(recent) \in Seq(Enforced) /\ Range(Tail(recent)) \subseteq Range(recent)
      BY <1>4, <3>1, RangeOfTail
    <3>3. /\ Append(Tail(recent), x) \in Seq(Enforced)
          /\ Range(Append(Tail(recent), x)) \subseteq Range(Tail(recent)) \cup {x}
      BY <1>1, <3>2, RangeOfAppend
    <3>4. recent' \in Seq(Enforced) /\ Range(recent') \subseteq Range(recent) \cup {x}
      BY <2>1, <2>3, <3>2, <3>3
    <3> QED BY <1>2, <2>2, <3>4 DEF CallEnds, x
  <2>4. CASE Len(recent) # ActionsLimit
    <3>1. recent' \in Seq(Enforced) /\ Range(recent') \subseteq Range(recent) \cup {x}
      BY <1>1, <1>4, <2>1, <2>4, RangeOfAppend
    <3> QED BY <1>2, <2>2, <3>1 DEF CallEnds, x
  <2> QED BY <2>3, <2>4
<1>6. CASE ~ ok
  <2>1. UNCHANGED <<todo, recent>>
    BY <1>6 DEF Return
  <2>2. CASE c = Worker
    <3>1. Failed
      BY <1>6, <2>2 DEF Return
    <3>2. LoopFails
      BY <1>3, <2>1, <2>2, <3>1 DEF LoopFails, WorkerCommits
    <3> QED BY <1>2, <1>4, <2>1, <3>2 DEF CallEnds
  <2>3. CASE c # Worker
    <3>1. UNCHANGED <<status, pc>>
      BY <2>3 DEF Return
    <3>2. LoopGoesOn
      BY <1>3, <2>1, <2>3, <3>1 DEF LoopGoesOn
    <3> QED BY <1>2, <1>4, <2>1, <3>2 DEF CallEnds
  <2> QED BY <2>2, <2>3
<1> QED BY <1>5, <1>6

\* A call that ends after a step that decides once keeps the invariant.
LEMMA EndedCallKeeps ==
  ASSUME NEW c \in Callers, WorkflowInv, call[c].pc # "idle",
         FirmStep, ActionsAreOld(Callers), NEW X \in SUBSET Enforced, CallEnds(c, X),
         \A x \in X : IsFirm(x.window, x.entity, x.val)',
         cache' \in [Callers -> Seq(Enforced)],
         \A o \in Callers : \A x \in Range(cache'[o]) :
            x \in Range(cache[o]) \/ IsFirm(x.window, x.entity, x.val)',
         UNCHANGED <<netRisk, behRisk, window, agent, completed, flags, iteration, findings,
                     feedback>>
  PROVE  WorkflowInv'
<1>1. call \in [Callers -> Running \cup {Idle}]
  BY DEF WorkflowInv, LedgerInv, LedgerTypes
<1>2. call' \in [Callers -> Running \cup {Idle}]
  BY <1>1 DEF CallEnds
<1>3. \A o \in Callers : \/ call'[o] = Idle
                         \/ /\ call[o].pc # "idle" /\ call'[o] = call[o]
  <2> SUFFICES ASSUME NEW o \in Callers, call'[o] # Idle
               PROVE  call[o].pc # "idle" /\ call'[o] = call[o]
    OBVIOUS
  <2>1. call'[o] = call[o]
    BY <1>1 DEF CallEnds
  <2>2. call[o] \in Running
    BY <1>1, <2>1
  <2> QED BY <2>1, <2>2 DEF Running
<1>4. LedgerStep
  BY <1>2, <1>3 DEF LedgerStep, CallEnds
<1>5. LedgerTypes'
  BY <1>2 DEF LedgerTypes, CallEnds, WorkflowInv, LedgerInv
<1>6. RememberedAreFirm'
  <2>0. \A x, y, z : IsFirm(x, y, z) => IsFirm(x, y, z)'
    BY DEF FirmStep
  <2>1. RememberedAreFirm
    BY DEF WorkflowInv, LedgerInv
  <2>2. \A x \in returned' : IsFirm(x.window, x.entity, x.val)'
    BY <2>0, <2>1 DEF RememberedAreFirm, CallEnds
  <2>3. \A x \in Range(recent') : IsFirm(x.window, x.entity, x.val)'
    BY <2>0, <2>1 DEF RememberedAreFirm, CallEnds
  <2>4. \A o \in Callers : \A x \in Range(cache'[o]) : IsFirm(x.window, x.entity, x.val)'
    BY <2>0, <2>1 DEF RememberedAreFirm
  <2>5. \A f \in feedback' : IsFirm(f.window, f.entity, f.action)'
    BY <2>0, <2>1 DEF RememberedAreFirm
  <2> QED BY <2>2, <2>3, <2>4, <2>5 DEF RememberedAreFirm
<1> QED BY <1>4, <1>5, <1>6, LedgerKeepsTheRest DEF WorkflowInv, LedgerInv, FirmStep

LedgerFrame ==
    UNCHANGED <<netRisk, behRisk, window, agent, completed, flags, iteration, findings, feedback>>

\* The cache of the caller keeps the decision, the others stay.
LEMMA CacheKeeps ==
  ASSUME NEW c \in Callers, LedgerTypes, call[c].pc # "idle", NEW d \in Decisions,
         cache' = [cache EXCEPT ![c] = Keep(c, d)]
  PROVE  LET x == [window |-> call[c].window, entity |-> call[c].entity, val |-> d]
         IN /\ x \in Enforced
            /\ cache' \in [Callers -> Seq(Enforced)]
            /\ \A o \in Callers : \A y \in Range(cache'[o]) : y \in Range(cache[o]) \/ y = x
<1> DEFINE x == [window |-> call[c].window, entity |-> call[c].entity, val |-> d]
<1>1. /\ x \in Enforced
      /\ Keep(c, d) \in Seq(Enforced)
      /\ Range(Keep(c, d)) \subseteq Range(cache[c]) \cup {x}
  BY KeepIsBounded
<1> HIDE DEF x
<1>2. \A o \in Callers : cache'[o] = IF o = c THEN Keep(c, d) ELSE cache[o]
  BY DEF LedgerTypes
<1>3. cache' \in [Callers -> Seq(Enforced)]
  BY <1>1 DEF LedgerTypes
<1> QED BY <1>1, <1>2, <1>3 DEF x

\* commit meets an earlier decision.
LEMMA MeetKeeps ==
  ASSUME NEW c \in Callers, WorkflowInv, call[c].pc # "idle",
         NEW d \in Answers(c), d # None, Meet(c, d), LedgerFrame
  PROVE  WorkflowInv'
<1>1. PICK w, e : w = call[c].window /\ e = call[c].entity
  OBVIOUS
<1>2. d \in Decisions /\ MayBeFirm(w, e, d)
  BY <1>1, AnswersMayBeFirm
<1>3. BoardTypes /\ OneFirm /\ LedgerTypes
  BY DEF WorkflowInv, BoardInv, LedgerInv
<1>4. board' = Promoted(w, e, d)
  BY <1>1 DEF Meet, Settled, Promoted, Actions
<1>5. FirmStep /\ IsFirm(w, e, d)' /\ ActionsAreOld({})
  BY <1>2, <1>3, <1>4, Promotion
<1>6. ActionsAreOld(Callers)
  BY <1>5 DEF ActionsAreOld
<1>7. PICK x : x = [window |-> call[c].window, entity |-> call[c].entity, val |-> d]
  OBVIOUS
<1>8. x.window = w /\ x.entity = e /\ x.val = d
  BY <1>1, <1>7
<1>9. IsFirm(x.window, x.entity, x.val)'
  BY <1>5, <1>8
<1>10. /\ x \in Enforced
       /\ cache' \in [Callers -> Seq(Enforced)]
       /\ \A o \in Callers : \A y \in Range(cache'[o]) : y \in Range(cache[o]) \/ y = x
  BY <1>2, <1>3, <1>7, CacheKeeps DEF Meet
<1>11. PICK X \in SUBSET Enforced : X \subseteq {x} /\ CallEnds(c, X)
  <2>1. CASE Return(c, d)
    BY <1>2, <1>7, <1>10, <2>1, ReturnEnds
  <2>2. CASE Raise(c)
    BY <2>2, RaiseEnds
  <2> QED BY <2>1, <2>2 DEF Meet
<1>12. \A y \in X : IsFirm(y.window, y.entity, y.val)'
  BY <1>9, <1>11
<1>13. \A o \in Callers : \A y \in Range(cache'[o]) :
          y \in Range(cache[o]) \/ IsFirm(y.window, y.entity, y.val)'
  BY <1>9, <1>10
<1> QED BY <1>5, <1>6, <1>10, <1>11, <1>12, <1>13, EndedCallKeeps DEF LedgerFrame

\* A step that leaves the blackboard alone decides nothing.
LEMMA SameBoard ==
  ASSUME BoardTypes, OneFirm, UNCHANGED <<board, window>>
  PROVE  FirmStep /\ ActionsAreOld(Callers)
<1>1. OneFirm'
  BY DEF OneFirm
<1>2. \A x, y, z : IsFirm(x, y, z) => IsFirm(x, y, z)'
  BY DEF IsFirm
<1>3. ActionsAreOld(Callers)
  BY DEF ActionsAreOld
<1> QED BY <1>1, <1>2, <1>3 DEF FirmStep, OutputsOf, BoardTypes

LEMMA LookKeeps ==
  ASSUME NEW c \in Callers, WorkflowInv, Look(c)
  PROVE  WorkflowInv'
<1>0. call[c].pc \in {"get", "again"} /\ LedgerFrame
  BY DEF Look, LedgerFrame, abmVars, loopVars
<1>1. PICK d \in Answers(c) :
        \/ d # None /\ Meet(c, d)
        \/ /\ d = None
           /\ call' = [call EXCEPT ![c].pc = IF @ = "get" THEN "again" ELSE "put"]
           /\ UNCHANGED <<board, cache, status, pc, bindings, todo, returned, recent>>
  BY DEF Look
<1>2. CASE d # None /\ Meet(c, d)
  BY <1>0, <1>2, MeetKeeps
<1>3. CASE /\ call' = [call EXCEPT ![c].pc = IF @ = "get" THEN "again" ELSE "put"]
           /\ UNCHANGED <<board, cache, status, pc, bindings, todo, returned, recent>>
  <2>1. call \in [Callers -> Running \cup {Idle}] /\ call[c] \in Running
    BY <1>0 DEF WorkflowInv, LedgerInv, LedgerTypes, Idle
  <2>2. /\ call'[c] \in Running /\ call'[c].pc # "idle"
        /\ call'[c].window = call[c].window /\ call'[c].entity = call[c].entity
        /\ call'[c].action = call[c].action
    BY <1>3, <2>1 DEF Running
  <2>3. \A o \in Callers \ {c} : call'[o] = call[o]
    BY <1>3, <2>1
  <2>4. call' \in [Callers -> Running \cup {Idle}]
    BY <1>3, <2>1, <2>2
  <2>5. \A o \in Callers :
          \/ call'[o] = Idle
          \/ /\ call[o].pc # "idle" /\ call'[o].pc # "idle"
             /\ call'[o].window = call[o].window /\ call'[o].entity = call[o].entity
             /\ call'[o].action = call[o].action
    BY <1>0, <2>1, <2>2, <2>3 DEF Running
  <2>6. LoopGoesOn
    BY <1>0, <1>3, <2>1, <2>2, <2>3 DEF LoopGoesOn, Callers
  <2>7. FirmStep /\ ActionsAreOld(Callers)
    BY <1>0, <1>3, SameBoard DEF WorkflowInv, BoardInv, LedgerInv, LedgerFrame
  <2>8. LedgerStep
    BY <1>0, <1>3, <2>4, <2>5, <2>6, <2>7 DEF LedgerStep, LedgerFrame
  <2>9. LedgerTypes'
    BY <1>3, <2>4 DEF WorkflowInv, LedgerInv, LedgerTypes
  <2>10. RememberedAreFirm'
    BY <1>0, <1>3 DEF WorkflowInv, LedgerInv, RememberedAreFirm, LedgerFrame, IsFirm
  <2> QED BY <2>7, <2>8, <2>9, <2>10, LedgerKeepsTheRest DEF WorkflowInv, LedgerInv, FirmStep
<1> QED BY <1>1, <1>2, <1>3

LEMMA CallsAreOfThePast ==
  ASSUME NEW c \in Callers, WorkflowInv, call[c].pc # "idle"
  PROVE  call[c].window <= window
<1>1. Has("threat", call[c].window, call[c].entity)
  BY DEF WorkflowInv, BoardInv, CallsChained, Analysts
<1> QED BY <1>1 DEF Has, WorkflowInv, BoardInv, BoardTypes

LEMMA PutKeeps ==
  ASSUME NEW c \in Callers, WorkflowInv, Put(c)
  PROVE  WorkflowInv'
<1>0. call[c].pc = "put" /\ LedgerFrame
  BY DEF Put, LedgerFrame, abmVars, loopVars
<1>1. PICK d \in Answers(c) :
        \/ d # None /\ Meet(c, d)
        \/ /\ d = None
           /\ board' = (board \ Actions(call[c].window, call[c].entity))
                          \cup {ActionRecord(c, TRUE)}
           /\ cache' = [cache EXCEPT ![c] = Keep(c, Decision(c))]
           /\ Return(c, Decision(c))
  BY DEF Put, LockedAnswers
<1>2. CASE d # None /\ Meet(c, d)
  BY <1>0, <1>2, MeetKeeps
<1>3. CASE /\ d = None
           /\ board' = (board \ Actions(call[c].window, call[c].entity))
                          \cup {ActionRecord(c, TRUE)}
           /\ cache' = [cache EXCEPT ![c] = Keep(c, Decision(c))]
           /\ Return(c, Decision(c))
  <2>1. PICK w, e, v : w = call[c].window /\ e = call[c].entity /\ v = Decision(c)
    OBVIOUS
  <2>2. BoardTypes /\ OneFirm /\ LedgerTypes
    BY DEF WorkflowInv, BoardInv, LedgerInv
  <2>3. v \in Decisions
    BY <1>0, <2>1, <2>2 DEF Decision, Decisions, LedgerTypes, Running, Idle
  <2>4. Firm(call[c].window, call[c].entity) = {}
    BY <1>0, <1>3, AnswersMayBeFirm
  <2>5. call[c].window <= window
    BY <1>0, CallsAreOfThePast
  <2>6. FirmStep /\ IsFirm(w, e, v)' /\ ActionsAreOld({c})
    BY <1>0, <1>3, <2>1, <2>2, <2>4, <2>5, FirmWrite
  <2>7. ActionsAreOld(Callers)
    BY <2>6 DEF ActionsAreOld
  <2>8. PICK x : x = [window |-> call[c].window, entity |-> call[c].entity, val |-> v]
    OBVIOUS
  <2>9. x.window = w /\ x.entity = e /\ x.val = v
    BY <2>1, <2>8
  <2>10. IsFirm(x.window, x.entity, x.val)'
    BY <2>6, <2>9
  <2>11. /\ x \in Enforced
         /\ cache' \in [Callers -> Seq(Enforced)]
         /\ \A o \in Callers : \A y \in Range(cache'[o]) : y \in Range(cache[o]) \/ y = x
    BY <1>0, <1>3, <2>1, <2>2, <2>3, <2>8, CacheKeeps
  <2>12. CallEnds(c, {x})
    BY <1>0, <1>3, <2>1, <2>3, <2>8, ReturnEnds
  <2>13. \A y \in {x} : IsFirm(y.window, y.entity, y.val)'
    BY <2>10
  <2>14. \A o \in Callers : \A y \in Range(cache'[o]) :
            y \in Range(cache[o]) \/ IsFirm(y.window, y.entity, y.val)'
    BY <2>10, <2>11
  <2>15. {x} \in SUBSET Enforced
    BY <2>11
  <2> QED BY <1>0, <2>6, <2>7, <2>11, <2>12, <2>13, <2>14, <2>15, EndedCallKeeps DEF LedgerFrame
<1> QED BY <1>1, <1>2, <1>3

LEMMA CommitRaisesKeeps ==
  ASSUME NEW c \in Callers, WorkflowInv, CommitRaises(c)
  PROVE  WorkflowInv'
<1>0. call[c].pc # "idle" /\ LedgerFrame /\ UNCHANGED cache
  BY DEF CommitRaises, LedgerFrame, abmVars, loopVars
<1>1. CallEnds(c, {})
  BY <1>0, RaiseEnds DEF CommitRaises
<1>2. BoardTypes /\ OneFirm /\ LedgerTypes
  BY DEF WorkflowInv, BoardInv, LedgerInv
<1>3. FirmStep /\ ActionsAreOld(Callers)
  <2>1. CASE UNCHANGED board
    BY <1>0, <1>2, <2>1, SameBoard DEF LedgerFrame
  <2>2. CASE board' = board \cup {ActionRecord(c, FALSE)}
    <3>1. FirmStep /\ ActionsAreOld({c})
      BY <1>0, <1>2, <2>2, CallsAreOfThePast, PartialWrite
    <3> QED BY <3>1 DEF ActionsAreOld
  <2> QED BY <2>1, <2>2 DEF CommitRaises
<1>4. cache' \in [Callers -> Seq(Enforced)]
  BY <1>0, <1>2 DEF LedgerTypes
<1>5. \A o \in Callers : \A y \in Range(cache'[o]) : y \in Range(cache[o])
  BY <1>0
<1> QED BY <1>0, <1>1, <1>3, <1>4, <1>5, EndedCallKeeps DEF LedgerFrame

\* Another caller starts on a COMMITTED recommendation.
LEMMA RetryKeeps ==
  ASSUME NEW c \in Retriers, NEW action \in AccessActions, WorkflowInv, Retry(c, action)
  PROVE  WorkflowInv'
<1>0. c \in Callers /\ c # Worker /\ Worker \in Callers
  BY WorkflowAssumption DEF Callers
<1>1. PICK r \in board :
        /\ r.kind = "access" /\ r.durable
        /\ call' = [call EXCEPT ![c] = [pc |-> "get", window |-> r.window,
                                       entity |-> r.entity, action |-> action]]
  BY DEF Retry
<1>2. UNCHANGED <<netRisk, behRisk, window, pc, agent, completed, flags, iteration, findings, todo,
                  status, board, recent, cache, returned, feedback>>
  BY DEF Retry, abmVars, loopVars
<1>3. call \in [Callers -> Running \cup {Idle}]
  BY DEF WorkflowInv, LedgerInv, LedgerTypes
<1>4. WellFormed(r)
  BY DEF WorkflowInv, BoardInv, BoardTypes
<1>5. [pc |-> "get", window |-> r.window, entity |-> r.entity, action |-> action] \in Running
  BY <1>4 DEF WellFormed, Running
<1>6. /\ call' \in [Callers -> Running \cup {Idle}]
      /\ call'[c].window = r.window /\ call'[c].entity = r.entity
      /\ \A o \in Callers \ {c} : call'[o] = call[o]
  BY <1>0, <1>1, <1>3, <1>5
<1>7. call'[Worker] = call[Worker]
  BY <1>0, <1>6
<1>8. LoopInv'
  BY <1>2 DEF WorkflowInv, LoopInv, LoopTypes, AgentsInOrder, Started, CompletedRanAll
<1>9. EvidenceInv'
  BY <1>2 DEF WorkflowInv, EvidenceInv, RiskTypes, FindingsAreHeld, RisksAreCurrent
<1>10. CallsChained'
  <2>1. \A k \in Analysts : Has(k, r.window, r.entity)
    <3>1. Has("access", r.window, r.entity)
      BY <1>1 DEF Has
    <3>2. Has("threat", r.window, r.entity) /\ Has("risk", r.window, r.entity)
      BY <1>1 DEF WorkflowInv, BoardInv, Chained
    <3> QED BY <3>1, <3>2 DEF Analysts
  <2> SUFFICES ASSUME NEW o \in Callers, (call[o].pc # "idle")', NEW k \in Analysts
               PROVE  Has(k, call[o].window, call[o].entity)'
    BY DEF CallsChained
  <2>2. CASE o = c
    BY <1>2, <1>6, <2>1, <2>2 DEF Has
  <2>3. CASE o # c
    <3>1. Has(k, call[o].window, call[o].entity)
      BY <1>6, <2>3 DEF WorkflowInv, BoardInv, CallsChained
    <3> QED BY <1>2, <1>6, <2>3, <3>1 DEF Has
  <2> QED BY <2>2, <2>3
<1>11. BoardTypes' /\ OneOutput' /\ Chained'
  BY <1>2 DEF WorkflowInv, BoardInv, BoardTypes, OneOutput, Chained, Has
<1>12. NotYetWritten'
  BY <1>2, <1>7 DEF WorkflowInv, BoardInv, NotYetWritten
<1>13. LedgerTypes'
  BY <1>2, <1>6 DEF WorkflowInv, LedgerInv, LedgerTypes
<1>14. WorkerCommits' /\ WorkerFollowsPolicy' /\ OneFirm'
  BY <1>2, <1>7 DEF WorkflowInv, LedgerInv, WorkerCommits, WorkerFollowsPolicy, OneFirm
<1>15. RememberedAreFirm'
  BY <1>2 DEF WorkflowInv, LedgerInv, RememberedAreFirm, IsFirm
<1>16. WorkIsAccounted'
  BY <1>2 DEF WorkflowInv, WorkIsAccounted, Started, Left, Outputs, ReturnedHere
<1> QED BY <1>8, <1>9, <1>10, <1>11, <1>12, <1>13, <1>14, <1>15, <1>16
           DEF WorkflowInv, BoardInv, LedgerInv

\* Feedback about an action that is known settles the action.
LEMMA FeedbackKeeps ==
  ASSUME NEW a \in Known, NEW w \in Windows, NEW e \in Devices, WorkflowInv,
         SubmitFeedback(a, w, e)
  PROVE  WorkflowInv'
<1>1. a.window = w /\ a.entity = e
  BY DEF SubmitFeedback, Bound
<1>2. UNCHANGED <<netRisk, behRisk, window, pc, agent, completed, flags, iteration, findings, todo,
                  status, recent, cache, call, returned>>
  BY DEF SubmitFeedback, abmVars, loopVars, ledgerVars
<1>3. BoardTypes /\ OneFirm /\ LedgerTypes
  BY DEF WorkflowInv, BoardInv, LedgerInv
<1>4. MayBeFirm(w, e, a.val)
  <2>1. CASE a \in Range(recent)
    <3>1. IsFirm(w, e, a.val)
      BY <1>1, <2>1 DEF WorkflowInv, LedgerInv, RememberedAreFirm
    <3> QED BY <1>3, <3>1 DEF IsFirm, MayBeFirm, OneFirm
  <2>2. CASE a \notin Range(recent)
    <3>1. PICK r \in board :
            /\ r.kind = "action" /\ r \in Served(r.window, r.entity)
            /\ a = [window |-> r.window, entity |-> r.entity, val |-> r.val]
      BY <2>2 DEF Known
    <3>2. r.window = w /\ r.entity = e /\ r.val = a.val
      BY <1>1, <3>1
    <3>3. CASE Firm(w, e) = {}
      <4>1. \A x \in board : (x.kind = "action" /\ x.window = w /\ x.entity = e) => ~ x.durable
        BY <3>3 DEF Firm, Actions
      <4> QED BY <3>1, <3>2, <4>1 DEF MayBeFirm
    <3>4. CASE Firm(w, e) # {}
      <4>1. r \in Firm(w, e)
        BY <3>1, <3>2, <3>4 DEF Served
      <4>2. r.durable
        BY <4>1 DEF Firm
      <4> QED BY <1>3, <3>1, <3>2, <4>2 DEF MayBeFirm, OneFirm
    <3> QED BY <3>3, <3>4
  <2> QED BY <2>1, <2>2
<1>5. PICK d : d = a.val
  OBVIOUS
<1>6. board' = Promoted(w, e, d)
  BY <1>1, <1>5 DEF SubmitFeedback, Promoted
<1>7. FirmStep /\ IsFirm(w, e, d)' /\ ActionsAreOld({})
  BY <1>3, <1>4, <1>5, <1>6, Promotion
<1>8. ActionsAreOld(Callers)
  BY <1>7 DEF ActionsAreOld
<1>9. LedgerStep
  <2>1. call' \in [Callers -> Running \cup {Idle}]
    BY <1>2, <1>3 DEF LedgerTypes
  <2>2. \A c \in Callers : call'[c] = Idle \/ call[c].pc # "idle"
    BY <1>2, <1>3 DEF LedgerTypes, Running
  <2>3. LoopGoesOn
    BY <1>2 DEF LoopGoesOn
  <2> QED BY <1>2, <1>7, <1>8, <2>1, <2>2, <2>3 DEF LedgerStep
<1>10. LedgerTypes'
  BY <1>2, <1>3 DEF LedgerTypes
<1>11. RememberedAreFirm'
  <2>0. \A x, y, z : IsFirm(x, y, z) => IsFirm(x, y, z)'
    BY <1>7 DEF FirmStep
  <2>1. RememberedAreFirm
    BY DEF WorkflowInv, LedgerInv
  <2>2. \A x \in returned' : IsFirm(x.window, x.entity, x.val)'
    BY <1>2, <2>0, <2>1 DEF RememberedAreFirm
  <2>3. \A x \in Range(recent') : IsFirm(x.window, x.entity, x.val)'
    BY <1>2, <2>0, <2>1 DEF RememberedAreFirm
  <2>4. \A o \in Callers : \A x \in Range(cache'[o]) : IsFirm(x.window, x.entity, x.val)'
    BY <1>2, <2>0, <2>1 DEF RememberedAreFirm
  <2>5. \A f \in feedback' : IsFirm(f.window, f.entity, f.action)'
    <3>1. PICK g : g = FeedbackRecord(a, w, e)
      OBVIOUS
    <3>2. g.window = w /\ g.entity = e /\ g.action = d
      BY <1>5, <3>1 DEF FeedbackRecord
    <3>3. feedback' = feedback \cup {g}
      BY <3>1 DEF SubmitFeedback
    <3>4. IsFirm(g.window, g.entity, g.action)'
      BY <1>7, <3>2
    <3> QED BY <2>0, <2>1, <3>3, <3>4 DEF RememberedAreFirm
  <2> QED BY <2>2, <2>3, <2>4, <2>5 DEF RememberedAreFirm
<1> QED BY <1>7, <1>9, <1>10, <1>11, LedgerKeepsTheRest DEF WorkflowInv, LedgerInv, FirmStep

-----------------------------------------------------------------------------
(* Steps of the loop that write no record. *)

LoopFrame == UNCHANGED <<board, call, cache, recent, returned, feedback>>

LEMMA LoopKeepsTheLedger ==
  ASSUME WorkflowInv, LoopFrame
  PROVE  /\ Chained' /\ CallsChained' /\ OneOutput'
         /\ LedgerTypes' /\ WorkerFollowsPolicy' /\ OneFirm' /\ RememberedAreFirm'
<1> USE DEF WorkflowInv, LoopFrame
<1>1. Chained' /\ CallsChained' /\ OneOutput'
  BY DEF BoardInv, Chained, CallsChained, OneOutput, Has
<1>2. LedgerTypes' /\ WorkerFollowsPolicy' /\ OneFirm'
  BY DEF LedgerInv, LedgerTypes, WorkerFollowsPolicy, OneFirm
<1>3. RememberedAreFirm'
  BY DEF LedgerInv, RememberedAreFirm, IsFirm
<1> QED BY <1>1, <1>2, <1>3

\* No analyst's record is of a window to come.
LEMMA StartWindowKeeps == WorkflowInv /\ StartWindow => WorkflowInv'
<1> SUFFICES ASSUME WorkflowInv, StartWindow PROVE WorkflowInv'
  OBVIOUS
<1> USE DEF WorkflowInv
<1>1. LoopFrame /\ UNCHANGED <<netRisk, behRisk, todo, agent>>
  BY DEF StartWindow, LoopFrame, ledgerVars
<1>2. /\ window' = window + 1 /\ pc = "idle" /\ pc' = "loop" /\ completed' = {}
      /\ iteration' = 0 /\ flags' = [risk |-> FALSE, rec |-> FALSE] /\ findings' = {}
      /\ window \in 0 .. NumWindows /\ window < NumWindows
  BY DEF StartWindow, LoopInv, LoopTypes
<1>3. window' \in Windows
  BY <1>2, WorkflowAssumption DEF Windows
<1>4. LoopTypes'
  <2>1. status' \in [Windows -> {None, "STARTED", "COMPLETED", "FAILED"}]
    BY DEF StartWindow, LoopInv, LoopTypes
  <2> QED BY <1>1, <1>2, <1>3, <2>1 DEF LoopInv, LoopTypes, Windows
<1>5. AgentsInOrder' /\ CompletedRanAll'
  BY <1>2, FS_EmptySet DEF AgentsInOrder, Started, CompletedRanAll, Detectors
<1>6. \A r \in board' : r \in board /\ WellFormed(r) /\ r.window < window'
  <2>1. \A r \in board : WellFormed(r) /\ r.window <= window /\ r.window \in Int
    BY DEF BoardInv, BoardTypes, WellFormed, Windows
  <2> QED BY <1>1, <1>2, <2>1 DEF LoopFrame
<1>7. RiskTypes' /\ FindingsAreHeld'
  BY <1>1, <1>2 DEF EvidenceInv, RiskTypes, FindingsAreHeld
<1>8. \A r \in board' : r.window \in Nat /\ r.window # window'
  BY <1>2, <1>6 DEF WellFormed, Windows
<1>9. RisksAreCurrent' /\ NotYetWritten' /\ BoardTypes'
  BY <1>2, <1>6, <1>8 DEF RisksAreCurrent, NotYetWritten, BoardTypes, WellFormed, Windows
<1>10. WorkerCommits'
  BY <1>1, <1>2 DEF LedgerInv, WorkerCommits, LoopFrame
<1>11. WorkIsAccounted'
  BY <1>2 DEF WorkIsAccounted, Started
<1> QED BY <1>1, <1>4, <1>5, <1>7, <1>9, <1>10, <1>11, LoopKeepsTheLedger
           DEF LoopInv, EvidenceInv, BoardInv, LedgerInv

\* A window that fails without having written.
LEMMA FailureKeeps ==
  ASSUME WorkflowInv, LoopFrame, pc # "idle", Failed, call[Worker].pc = "idle",
         UNCHANGED <<window, completed, flags, agent, todo>>, iteration' \in Nat,
         EvidenceInv', "threat" \in completed => findings' = findings
  PROVE  WorkflowInv'
<1> USE DEF WorkflowInv
<1>1. pc' = "idle" /\ status' \in [Windows -> {None, "STARTED", "COMPLETED", "FAILED"}]
      /\ status'[window] = "FAILED"
  BY DEF Failed, LoopInv, LoopTypes
<1>2. LoopInv'
  BY <1>1 DEF LoopInv, LoopTypes, AgentsInOrder, Started, CompletedRanAll
<1>3. BoardTypes' /\ NotYetWritten'
  BY <1>1 DEF BoardInv, BoardTypes, NotYetWritten, LoopFrame
<1>4. WorkerCommits'
  BY DEF WorkerCommits, LoopFrame
<1>5. WorkIsAccounted'
  <2>1. \A a : Left(a)' = {} /\ (Started(a)' => a \in completed)
    BY <1>1 DEF Left, Started
  <2>2. \A a : a \in completed => Left(a) = {} /\ Started(a)
    BY DEF LoopInv, AgentsInOrder, Left, Started
  <2>3. Outputs("threat")' = Outputs("threat") /\ Outputs("risk")' = Outputs("risk")
        /\ ReturnedHere' = ReturnedHere
    BY DEF Outputs, ReturnedHere, LoopFrame
  <2> QED BY <1>1, <2>1, <2>2, <2>3 DEF WorkIsAccounted
<1> QED BY <1>2, <1>3, <1>4, <1>5, LoopKeepsTheLedger DEF BoardInv, LedgerInv

LEMMA DispatchKeeps == WorkflowInv /\ Dispatch => WorkflowInv'
<1> SUFFICES ASSUME WorkflowInv, Dispatch PROVE WorkflowInv'
  OBVIOUS
<1> USE DEF WorkflowInv
<1>1. /\ LoopFrame /\ UNCHANGED <<netRisk, behRisk, window, completed, flags, findings>>
      /\ pc = "loop" /\ iteration' = iteration + 1
  BY DEF Dispatch, LoopFrame, abmVars, ledgerVars
<1>2. call[Worker].pc = "idle"
  BY <1>1 DEF LedgerInv, WorkerCommits
<1>3. PICK a \in Adjudicated(Ready) :
          \/ /\ a # None /\ agent' = a /\ todo' = Work(a) /\ pc' = "run"
             /\ UNCHANGED <<status, failures>>
          \/ a = None /\ Fail /\ UNCHANGED <<agent, todo>>
  BY DEF Dispatch
<1>4. CASE a = None /\ Fail /\ UNCHANGED <<agent, todo>>
  <2>1. pc' = "idle" /\ Failed
    BY <1>4 DEF Fail, Failed
  <2>2. EvidenceInv'
    BY <1>1, <2>1 DEF EvidenceInv, RiskTypes, FindingsAreHeld, RisksAreCurrent, LoopFrame
  <2>3. iteration' \in Nat
    BY <1>1 DEF LoopInv, LoopTypes
  <2> QED BY <1>1, <1>2, <1>4, <2>1, <2>2, <2>3, FailureKeeps
<1>5. CASE a # None /\ agent' = a /\ todo' = Work(a) /\ pc' = "run" /\ UNCHANGED status
  <2>1. a \in Agents \ completed /\ IsReady(a)
    BY <1>3, <1>5 DEF Adjudicated, Ready
  <2>2. Work(a) \subseteq Protected
    <3>1. \A r \in board : r.entity \in Protected
      BY DEF BoardInv, BoardTypes, WellFormed
    <3>2. Outputs("threat") \subseteq Protected /\ Outputs("risk") \subseteq Protected
      BY <3>1 DEF Outputs
    <3> QED BY <3>2 DEF Work
  <2>3. LoopTypes'
    BY <1>1, <1>5, <2>2 DEF LoopInv, LoopTypes
  <2>4. AgentsInOrder'
    <3>1. iteration = Cardinality(completed)
      BY <1>1 DEF LoopInv, AgentsInOrder
    <3>2. a \in Detectors \/ a = "threat" \/ a = "risk" \/ a = "access"
      BY <2>1 DEF Agents, Detectors
    <3>3. /\ a = "threat" => Detectors \subseteq completed
          /\ a = "risk" => "threat" \in completed
          /\ a = "access" => "risk" \in completed
      BY <2>1 DEF IsReady, Detectors
    <3> QED BY <1>1, <1>5, <2>1, <3>1, <3>3 DEF LoopInv, AgentsInOrder, Started, Detectors
  <2>5. CompletedRanAll'
    BY <1>5 DEF CompletedRanAll
  <2>6. EvidenceInv'
    BY <1>1, <1>5 DEF EvidenceInv, RiskTypes, FindingsAreHeld, RisksAreCurrent, LoopFrame
  <2>7. BoardTypes' /\ NotYetWritten'
    BY <1>1, <1>5 DEF BoardInv, BoardTypes, NotYetWritten, LoopFrame
  <2>8. WorkerCommits'
    BY <1>1, <1>2 DEF WorkerCommits, LoopFrame
  <2>9. WorkIsAccounted'
    <3>1. \A k : k # a => Left(k)' = Left(k) /\ (Started(k)' <=> Started(k))
      BY <1>1, <1>5 DEF Left, Started
    <3>2. Left(a)' = Work(a)
      BY <1>5 DEF Left
    <3>3. /\ Outputs("threat")' = Outputs("threat") /\ Outputs("risk")' = Outputs("risk")
          /\ ReturnedHere' = ReturnedHere
      BY <1>1 DEF Outputs, ReturnedHere, LoopFrame
    <3>4. /\ a = "threat" => Work(a) = {f.entity : f \in findings} \cap Protected
          /\ a = "risk" => Work(a) = Outputs("threat")
          /\ a = "access" => Work(a) = Outputs("risk")
      BY DEF Work
    <3>5. {f.entity : f \in findings'} = {f.entity : f \in findings}
      BY <1>1
    <3> QED BY <1>5, <3>1, <3>2, <3>3, <3>4, <3>5 DEF WorkIsAccounted
  <2> QED BY <1>1, <2>3, <2>4, <2>5, <2>6, <2>7, <2>8, <2>9, LoopKeepsTheLedger
             DEF LoopInv, BoardInv, LedgerInv
<1> QED BY <1>3, <1>4, <1>5

\* A window completes with all five agents: none is ready, and the iterations
\* are more than the agents.
LEMMA CompleteWindowKeeps == WorkflowInv /\ CompleteWindow => WorkflowInv'
<1> SUFFICES ASSUME WorkflowInv, CompleteWindow PROVE WorkflowInv'
  OBVIOUS
<1> USE DEF WorkflowInv
<1>1. /\ LoopFrame
      /\ UNCHANGED <<netRisk, behRisk, window, agent, completed, flags, iteration, findings, todo>>
      /\ pc = "loop" /\ pc' = "idle" /\ status' = [status EXCEPT ![window] = "COMPLETED"]
  BY DEF CompleteWindow, LoopFrame, abmVars, loopVars, ledgerVars
<1>2. completed = Agents
  <2>1. completed \subseteq Agents /\ iteration = Cardinality(completed)
    BY <1>1 DEF LoopInv, LoopTypes, AgentsInOrder
  <2>2. iteration # MaxIterations
    BY <2>1, OneMoreAgent DEF MaxIterations
  <2>3. \A a \in Agents \ completed : ~ IsReady(a)
    BY <2>2 DEF CompleteWindow, Ready
  <2>4. Detectors \subseteq completed
    BY <2>3 DEF IsReady, Detectors, Agents
  <2>5. flags.risk
    BY <2>4 DEF LoopInv, AgentsInOrder
  <2>6. "threat" \in completed
    BY <2>3, <2>4 DEF IsReady, Detectors, Agents
  <2>7. "risk" \in completed
    BY <2>3, <2>5, <2>6 DEF IsReady, Detectors, Agents
  <2>8. flags.rec
    BY <2>7 DEF LoopInv, AgentsInOrder
  <2>9. "access" \in completed
    BY <2>3, <2>7, <2>8 DEF IsReady, Detectors, Agents
  <2> QED BY <2>1, <2>4, <2>6, <2>7, <2>9 DEF Agents, Detectors
<1>3. LoopInv'
  BY <1>1, <1>2 DEF LoopInv, LoopTypes, AgentsInOrder, Started, CompletedRanAll
<1>4. EvidenceInv'
  BY <1>1 DEF EvidenceInv, RiskTypes, FindingsAreHeld, RisksAreCurrent, LoopFrame
<1>5. BoardTypes' /\ NotYetWritten'
  BY <1>1 DEF BoardInv, BoardTypes, NotYetWritten, LoopFrame
<1>6. WorkerCommits'
  BY <1>1 DEF LedgerInv, WorkerCommits, LoopFrame
<1>7. WorkIsAccounted'
  BY <1>1 DEF WorkIsAccounted, Started, Left, Outputs, ReturnedHere, LoopFrame
<1> QED BY <1>1, <1>3, <1>4, <1>5, <1>6, <1>7, LoopKeepsTheLedger DEF BoardInv, LedgerInv

\* What a detector's findings do to the risks: a score that was found is held,
\* whatever was held before.
LEMMA MergeHolds ==
  ASSUME NEW kind \in Detectors, NEW old \in [Devices -> 0 .. Unit \cup {None}],
         NEW of \in [Devices -> 0 .. Unit \cup {None}]
  PROVE  /\ Merge(old, of) \in [Devices -> 0 .. Unit \cup {None}]
         /\ Evidence(kind, of) \subseteq [kind : Detectors, entity : Devices, score : 0 .. Unit]
         /\ \A f \in Evidence(kind, of) : f.kind = kind /\ Merge(old, of)[f.entity] = f.score
<1>1. Merge(old, of) \in [Devices -> 0 .. Unit \cup {None}]
  BY DEF Merge
<1>2. ASSUME NEW f \in Evidence(kind, of)
      PROVE  /\ f \in [kind : Detectors, entity : Devices, score : 0 .. Unit]
             /\ f.kind = kind /\ Merge(old, of)[f.entity] = f.score
  <2>1. PICK d \in Devices : of[d] # None /\ f = [kind |-> kind, entity |-> d, score |-> of[d]]
    BY DEF Evidence
  <2>2. of[d] \in 0 .. Unit /\ Merge(old, of)[d] = of[d]
    BY <2>1 DEF Merge
  <2> QED BY <2>1, <2>2
<1> QED BY <1>1, <1>2

\* While a detector is still to finish there is no recommendation of the window,
\* and no finding of that detector.
LEMMA BeforeDetection ==
  ASSUME WorkflowInv, pc = "run", agent \in Detectors
  PROVE  /\ agent \in Agents \ completed
         /\ "threat" \notin completed /\ "risk" \notin completed /\ "access" \notin completed
         /\ \A r \in board : ~ (r.kind = "risk" /\ r.window = window)
         /\ \A f \in findings : f.kind # agent
         /\ call[Worker].pc = "idle"
<1> USE DEF WorkflowInv
<1>1. agent \in Agents \ completed /\ ~ (Detectors \subseteq completed)
  BY DEF LoopInv, AgentsInOrder
<1>2. "threat" \notin completed /\ "risk" \notin completed /\ "access" \notin completed
  BY <1>1 DEF LoopInv, AgentsInOrder, Started
<1>3. \A r \in board : ~ (r.kind = "risk" /\ r.window = window)
  BY <1>1 DEF EvidenceInv, RisksAreCurrent
<1>4. \A f \in findings : f.kind # agent
  BY <1>1 DEF EvidenceInv, FindingsAreHeld
<1>5. call[Worker].pc = "idle"
  BY DEF LedgerInv, WorkerCommits, Detectors
<1> QED BY <1>1, <1>2, <1>3, <1>4, <1>5

\* What a detector's end leaves to show once its evidence is held.
LEMMA DetectorEndKeeps ==
  ASSUME WorkflowInv, LoopFrame, pc = "run", agent \in Detectors, pc' = "loop",
         UNCHANGED <<window, agent, iteration, todo, status>>,
         completed' = completed \cup {agent},
         flags' \in [risk : BOOLEAN, rec : BOOLEAN], flags'.rec = flags.rec,
         Detectors \subseteq completed' => flags'.risk,
         RiskTypes', FindingsAreHeld'
  PROVE  WorkflowInv'
<1> USE DEF WorkflowInv
<1>0. /\ agent \in Agents \ completed
      /\ "threat" \notin completed /\ "risk" \notin completed /\ "access" \notin completed
      /\ \A r \in board : ~ (r.kind = "risk" /\ r.window = window)
      /\ call[Worker].pc = "idle"
  BY BeforeDetection
<1>1. "threat" \notin completed' /\ "risk" \notin completed' /\ "access" \notin completed'
  BY <1>0 DEF Detectors
<1>2. LoopTypes'
  BY <1>0 DEF LoopInv, LoopTypes
<1>3. AgentsInOrder'
  <2>1. iteration = Cardinality(completed) + 1 /\ completed \in SUBSET Agents
    BY DEF LoopInv, LoopTypes, AgentsInOrder
  <2>2. Cardinality(completed') = Cardinality(completed) + 1
    BY <1>0, <2>1, OneMoreAgent
  <2> QED BY <1>1, <2>1, <2>2 DEF AgentsInOrder, Started
<1>4. CompletedRanAll'
  BY DEF CompletedRanAll
<1>5. RisksAreCurrent'
  BY <1>0 DEF RisksAreCurrent, LoopFrame
<1>6. BoardTypes' /\ NotYetWritten'
  BY DEF BoardInv, BoardTypes, NotYetWritten, LoopFrame, Analysts, Detectors
<1>7. WorkerCommits'
  BY <1>0 DEF WorkerCommits, LoopFrame
<1>8. WorkIsAccounted'
  BY <1>1 DEF WorkIsAccounted, Started
<1> QED BY <1>2, <1>3, <1>4, <1>5, <1>6, <1>7, <1>8, LoopKeepsTheLedger
           DEF LoopInv, EvidenceInv, BoardInv, LedgerInv

LEMMA RunNetworkKeeps == WorkflowInv /\ RunNetwork => WorkflowInv'
<1> SUFFICES ASSUME WorkflowInv, RunNetwork PROVE WorkflowInv'
  OBVIOUS
<1> USE DEF WorkflowInv
<1>1. PICK of \in [Devices -> NetScores \cup {None}] :
          /\ netRisk' = Merge(netRisk, of)
          /\ findings' = findings \cup Evidence("network", of)
          /\ completed' = completed \cup {"network"}
          /\ BothDone(completed \cup {"network"}, Merge(netRisk, of), behRisk)
  BY DEF RunNetwork
<1>2. /\ pc = "run" /\ agent = "network" /\ pc' = "loop" /\ LoopFrame
      /\ UNCHANGED <<behRisk, window, agent, iteration, todo, status>>
  BY DEF RunNetwork, LoopFrame, ledgerVars
<1>3. of \in [Devices -> 0 .. Unit \cup {None}] /\ "network" \in Detectors
  BY WorkflowAssumption DEF Detectors
<1>4. \A f \in findings : f.kind # "network"
  BY <1>2, <1>3, BeforeDetection
<1>5. RiskTypes
  BY DEF EvidenceInv
<1>6. /\ Merge(netRisk, of) \in [Devices -> 0 .. Unit \cup {None}]
      /\ Evidence("network", of) \subseteq [kind : Detectors, entity : Devices, score : 0 .. Unit]
      /\ \A f \in Evidence("network", of) :
            f.kind = "network" /\ Merge(netRisk, of)[f.entity] = f.score
  BY <1>3, <1>5, MergeHolds DEF RiskTypes
<1>7. RiskTypes'
  BY <1>1, <1>2, <1>5, <1>6 DEF RiskTypes
<1>8. FindingsAreHeld'
  BY <1>1, <1>2, <1>4, <1>6 DEF EvidenceInv, FindingsAreHeld
<1>9. /\ flags' \in [risk : BOOLEAN, rec : BOOLEAN] /\ flags'.rec = flags.rec
      /\ Detectors \subseteq completed' => flags'.risk
  BY <1>1 DEF BothDone, LoopInv, LoopTypes
<1> QED BY <1>1, <1>2, <1>3, <1>7, <1>8, <1>9, DetectorEndKeeps

LEMMA RunBehaviorKeeps == WorkflowInv /\ RunBehavior => WorkflowInv'
<1> SUFFICES ASSUME WorkflowInv, RunBehavior PROVE WorkflowInv'
  OBVIOUS
<1> USE DEF WorkflowInv
<1>1. PICK of \in Profiles :
          /\ behRisk' = Merge(behRisk, of)
          /\ findings' = findings \cup Evidence("behavior", of)
          /\ completed' = completed \cup {"behavior"}
          /\ BothDone(completed \cup {"behavior"}, netRisk, Merge(behRisk, of))
  BY DEF RunBehavior
<1>2. /\ pc = "run" /\ agent = "behavior" /\ pc' = "loop" /\ LoopFrame
      /\ UNCHANGED <<netRisk, window, agent, iteration, todo, status>>
  BY DEF RunBehavior, LoopFrame, ledgerVars
<1>3. of \in [Devices -> 0 .. Unit \cup {None}] /\ "behavior" \in Detectors
  BY WorkflowAssumption DEF Detectors, Profiles
<1>4. \A f \in findings : f.kind # "behavior"
  BY <1>2, <1>3, BeforeDetection
<1>5. RiskTypes
  BY DEF EvidenceInv
<1>6. /\ Merge(behRisk, of) \in [Devices -> 0 .. Unit \cup {None}]
      /\ Evidence("behavior", of) \subseteq [kind : Detectors, entity : Devices, score : 0 .. Unit]
      /\ \A f \in Evidence("behavior", of) :
            f.kind = "behavior" /\ Merge(behRisk, of)[f.entity] = f.score
  BY <1>3, <1>5, MergeHolds DEF RiskTypes
<1>7. RiskTypes'
  BY <1>1, <1>2, <1>5, <1>6 DEF RiskTypes
<1>8. FindingsAreHeld'
  BY <1>1, <1>2, <1>4, <1>6 DEF EvidenceInv, FindingsAreHeld
<1>9. /\ flags' \in [risk : BOOLEAN, rec : BOOLEAN] /\ flags'.rec = flags.rec
      /\ Detectors \subseteq completed' => flags'.risk
  BY <1>1 DEF BothDone, LoopInv, LoopTypes
<1> QED BY <1>1, <1>2, <1>3, <1>7, <1>8, <1>9, DetectorEndKeeps

LEMMA DetectorRaisesKeeps == WorkflowInv /\ DetectorRaises => WorkflowInv'
<1> SUFFICES ASSUME WorkflowInv, DetectorRaises PROVE WorkflowInv'
  OBVIOUS
<1> USE DEF WorkflowInv
<1>1. PICK of \in Profiles :
          /\ agent = "network" => \A d \in Devices : of[d] = None
          /\ behRisk' = Merge(behRisk, of)
          /\ findings' = findings \cup Evidence("behavior", of)
  BY DEF DetectorRaises
<1>2. /\ pc = "run" /\ agent \in Detectors /\ Failed /\ pc' = "idle" /\ LoopFrame
      /\ UNCHANGED <<netRisk, window, agent, completed, flags, iteration, todo>>
  BY DEF DetectorRaises, LoopFrame, ledgerVars, loopVars, Fail, Failed
<1>3. of \in [Devices -> 0 .. Unit \cup {None}] /\ "behavior" \in Detectors
  BY WorkflowAssumption DEF Detectors, Profiles
<1>4. /\ "threat" \notin completed
      /\ \A r \in board : ~ (r.kind = "risk" /\ r.window = window)
      /\ \A f \in findings : f.kind # agent
      /\ call[Worker].pc = "idle"
  BY <1>2, BeforeDetection
<1>5. RiskTypes
  BY DEF EvidenceInv
<1>6. /\ Merge(behRisk, of) \in [Devices -> 0 .. Unit \cup {None}]
      /\ Evidence("behavior", of) \subseteq [kind : Detectors, entity : Devices, score : 0 .. Unit]
      /\ \A f \in Evidence("behavior", of) :
            f.kind = "behavior" /\ Merge(behRisk, of)[f.entity] = f.score
  BY <1>3, <1>5, MergeHolds DEF RiskTypes
<1>7. RiskTypes'
  BY <1>1, <1>2, <1>5, <1>6 DEF RiskTypes
<1>8. FindingsAreHeld'
  <2>1. CASE agent = "behavior"
    BY <1>1, <1>2, <1>4, <1>6, <2>1 DEF EvidenceInv, FindingsAreHeld
  <2>2. CASE agent = "network"
    <3>1. behRisk' = behRisk /\ findings' = findings
      <4>1. \A d \in Devices : of[d] = None
        BY <1>1, <2>2
      <4>2. Evidence("behavior", of) = {}
        BY <4>1 DEF Evidence
      <4>3. Merge(behRisk, of) = behRisk
        BY <4>1, <1>5 DEF Merge, RiskTypes
      <4> QED BY <1>1, <4>2, <4>3
    <3> QED BY <1>2, <3>1 DEF EvidenceInv, FindingsAreHeld
  <2> QED BY <1>2, <2>1, <2>2 DEF Detectors
<1>9. RisksAreCurrent'
  BY <1>2, <1>4 DEF RisksAreCurrent, LoopFrame
<1>10. iteration' \in Nat
  BY <1>2 DEF LoopInv, LoopTypes
<1> QED BY <1>2, <1>4, <1>7, <1>8, <1>9, <1>10, FailureKeeps DEF EvidenceInv

\* An analyst without entities left is done with all of them.
LEMMA AgentDoneKeeps == WorkflowInv /\ AgentDone => WorkflowInv'
<1> SUFFICES ASSUME WorkflowInv, AgentDone PROVE WorkflowInv'
  OBVIOUS
<1> USE DEF WorkflowInv
<1>1. /\ pc = "run" /\ agent \notin Detectors /\ todo = {} /\ pc' = "loop" /\ LoopFrame
      /\ completed' = completed \cup {agent}
      /\ flags' = [risk |-> flags.risk \/ agent = "risk",
                   rec |-> flags.rec \/ agent \in {"risk", "access"}]
      /\ UNCHANGED <<netRisk, behRisk, window, agent, iteration, findings, todo, status>>
  BY DEF AgentDone, LoopFrame, ledgerVars, abmVars
<1>2. agent \in Analysts /\ agent \in Agents \ completed
  BY <1>1 DEF LoopInv, AgentsInOrder, Agents, Detectors, Analysts
<1>3. call[Worker].pc = "idle"
  BY <1>1 DEF LedgerInv, WorkerCommits
<1>4. /\ flags'.risk <=> (flags.risk \/ agent = "risk")
      /\ flags'.rec <=> (flags.rec \/ agent \in {"risk", "access"})
      /\ flags' \in [risk : BOOLEAN, rec : BOOLEAN]
  BY <1>1
<1>5. LoopTypes'
  BY <1>1, <1>2, <1>4 DEF LoopInv, LoopTypes
<1>6. AgentsInOrder'
  <2>1. iteration = Cardinality(completed) + 1 /\ completed \in SUBSET Agents
    BY <1>1 DEF LoopInv, LoopTypes, AgentsInOrder
  <2>2. Cardinality(completed') = Cardinality(completed) + 1
    BY <1>1, <1>2, <2>1, OneMoreAgent
  <2>3. Detectors \subseteq completed /\ flags.risk
    BY <1>1, <1>2 DEF LoopInv, AgentsInOrder, Started, Analysts
  <2>4. "risk" \in completed' => flags'.rec
    BY <1>1, <1>4 DEF LoopInv, AgentsInOrder
  <2>5. /\ Started("threat")' => Detectors \subseteq completed'
        /\ Started("risk")' => "threat" \in completed'
        /\ Started("access")' => "risk" \in completed'
    BY <1>1, <2>3 DEF LoopInv, AgentsInOrder, Started
  <2> QED BY <1>1, <1>4, <2>1, <2>2, <2>3, <2>4, <2>5 DEF AgentsInOrder
<1>7. CompletedRanAll'
  BY <1>1 DEF CompletedRanAll
<1>8. EvidenceInv'
  BY <1>1 DEF EvidenceInv, RiskTypes, FindingsAreHeld, RisksAreCurrent, LoopFrame
<1>9. BoardTypes' /\ NotYetWritten'
  BY <1>1 DEF BoardInv, BoardTypes, NotYetWritten, LoopFrame
<1>10. WorkerCommits'
  BY <1>1, <1>3 DEF WorkerCommits, LoopFrame
<1>11. WorkIsAccounted'
  <2>1. \A k : Left(k)' = Left(k) /\ (Started(k)' <=> Started(k))
    BY <1>1 DEF Left, Started
  <2>2. /\ Outputs("threat")' = Outputs("threat") /\ Outputs("risk")' = Outputs("risk")
        /\ ReturnedHere' = ReturnedHere
    BY <1>1 DEF Outputs, ReturnedHere, LoopFrame
  <2> QED BY <1>1, <2>1, <2>2 DEF WorkIsAccounted
<1> QED BY <1>1, <1>5, <1>6, <1>7, <1>8, <1>9, <1>10, <1>11, LoopKeepsTheLedger
           DEF LoopInv, BoardInv, LedgerInv

-----------------------------------------------------------------------------
(* The analysts' records. *)

\* The analyst k writes n about e, an entity that it has still to handle.
Writes(k, e, n) ==
    /\ pc = "run" /\ agent = k /\ e \in todo /\ call[Worker].pc = "idle"
    /\ n.kind = k /\ n.window = window /\ n.entity = e /\ WellFormed(n)
    /\ board' = board \cup {n}
    /\ UNCHANGED <<netRisk, behRisk, window, completed, flags, agent, iteration, findings, cache,
                   recent, returned, feedback>>

LEMMA OutputWritten ==
  ASSUME NEW k \in Analysts, NEW e, NEW n, WorkflowInv, Writes(k, e, n),
         k = "risk" => n.val.risk = Systemic(netRisk, behRisk, e)
  PROVE  /\ BoardTypes' /\ Chained' /\ OneOutput' /\ OneFirm' /\ RememberedAreFirm'
         /\ RiskTypes' /\ RisksAreCurrent'
         /\ \A x \in Analysts : \A w, o : Has(x, w, o) => Has(x, w, o)'
         /\ \A x \in Analysts : x # k => Outputs(x)' = Outputs(x)
         /\ Outputs(k)' = IF n.durable THEN Outputs(k) \cup {e} ELSE Outputs(k)
         /\ \A r \in board' : r.kind = "risk" => \A a \in board' :
               (a.kind = "action" /\ a.window = r.window /\ a.entity = r.entity
                  /\ a.val.by = Worker) => a.val.action = Policy(r.val)
         /\ \A x \in Analysts : x # k => (k = "access" => Has(x, window, e))
<1> USE DEF WorkflowInv, Writes
<1>1. \A x \in board : ~ (x.kind = k /\ x.window = window /\ x.entity = e)
  BY DEF BoardInv, NotYetWritten, LoopInv, AgentsInOrder
<1>2. /\ k = "risk" => Has("threat", window, e)
      /\ k = "access" => Has("risk", window, e) /\ Has("threat", window, e)
  <2>1. CASE k = "risk"
    <3>1. e \in Outputs("threat")
      BY <2>1 DEF WorkIsAccounted
    <3> QED BY <2>1, <3>1 DEF Outputs, Has
  <2>2. CASE k = "access"
    <3>1. e \in Outputs("risk")
      BY <2>2 DEF WorkIsAccounted
    <3>2. Has("risk", window, e)
      BY <3>1 DEF Outputs, Has
    <3>3. PICK r \in board : r.kind = "risk" /\ r.window = window /\ r.entity = e
      BY <3>2 DEF Has
    <3>4. Has("threat", window, e)
      BY <3>3 DEF BoardInv, Chained
    <3> QED BY <2>2, <3>2, <3>4
  <2> QED BY <2>1, <2>2
<1>3. \A x \in Analysts : \A w, o : Has(x, w, o) => Has(x, w, o)'
  BY DEF Has
<1>4. BoardTypes'
  BY DEF BoardInv, BoardTypes, WellFormed, Windows
<1>5. Chained'
  <2> SUFFICES ASSUME NEW r \in board'
               PROVE  /\ r.kind # "threat" => Has("threat", r.window, r.entity)'
                      /\ r.kind \in {"access", "action"} => Has("risk", r.window, r.entity)'
                      /\ r.kind = "action" => Has("access", r.window, r.entity)'
    BY DEF Chained
  <2>1. CASE r \in board
    BY <1>3, <2>1 DEF BoardInv, Chained, Analysts
  <2>2. CASE r = n
    <3>1. /\ r.kind # "threat" => Has("threat", r.window, r.entity)
          /\ r.kind = "access" => Has("risk", r.window, r.entity)
      BY <1>2, <2>2 DEF Analysts
    <3> QED BY <1>3, <2>2, <3>1 DEF Analysts
  <2> QED BY <2>1, <2>2
<1>6. OneOutput'
  BY <1>1 DEF BoardInv, OneOutput
<1>7. n.kind # "action"
  BY DEF Analysts
<1>8. OneFirm' /\ \A x, y, z : IsFirm(x, y, z) => IsFirm(x, y, z)'
  BY <1>7 DEF LedgerInv, OneFirm, IsFirm
<1>9. RememberedAreFirm'
  <2>1. RememberedAreFirm
    BY DEF LedgerInv
  <2>2. \A x \in returned' : IsFirm(x.window, x.entity, x.val)'
    BY <1>8, <2>1 DEF RememberedAreFirm
  <2>3. \A x \in Range(recent') : IsFirm(x.window, x.entity, x.val)'
    BY <1>8, <2>1 DEF RememberedAreFirm
  <2>4. \A o \in Callers : \A x \in Range(cache'[o]) : IsFirm(x.window, x.entity, x.val)'
    BY <1>8, <2>1 DEF RememberedAreFirm
  <2>5. \A f \in feedback' : IsFirm(f.window, f.entity, f.action)'
    BY <1>8, <2>1 DEF RememberedAreFirm
  <2> QED BY <2>2, <2>3, <2>4, <2>5 DEF RememberedAreFirm
<1>10. RiskTypes'
  BY DEF EvidenceInv, RiskTypes
<1>11. RisksAreCurrent'
  <2>1. k = "risk" => Detectors \subseteq completed
    BY DEF LoopInv, AgentsInOrder, Started
  <2> QED BY <2>1 DEF EvidenceInv, RisksAreCurrent
<1>12. \A x \in Analysts : x # k => Outputs(x)' = Outputs(x)
  BY DEF Outputs
<1>13. Outputs(k)' = IF n.durable THEN Outputs(k) \cup {e} ELSE Outputs(k)
  <2>1. CASE n.durable
    BY <2>1 DEF Outputs
  <2>2. CASE ~ n.durable
    BY <2>2 DEF Outputs
  <2> QED BY <2>1, <2>2
<1>14. ASSUME NEW r \in board', r.kind = "risk", NEW a \in board', a.kind = "action",
              a.window = r.window, a.entity = r.entity, a.val.by = Worker
       PROVE  a.val.action = Policy(r.val)
  <2>1. a \in board
    BY <1>7, <1>14
  <2>2. CASE r \in board
    BY <1>14, <2>1, <2>2 DEF LedgerInv, WorkerFollowsPolicy
  <2>3. CASE r = n
    <3>1. Has("risk", window, e)
      BY <1>14, <2>1, <2>3 DEF BoardInv, Chained
    <3> QED BY <1>1, <1>14, <2>3, <3>1 DEF Has
  <2> QED BY <2>2, <2>3
<1> QED BY <1>2, <1>3, <1>4, <1>5, <1>6, <1>8, <1>9, <1>10, <1>11, <1>12, <1>13, <1>14
           DEF Analysts

\* A write that succeeds, about one entity less to handle, or that fails the
\* window, with the record on some replica or on none.
LEMMA WriteKeeps ==
  ASSUME NEW k \in {"threat", "risk"}, NEW e \in todo, NEW val, WorkflowInv,
         pc = "run", agent = k, Write(k, e, val),
         k = "risk" => val.risk = Systemic(netRisk, behRisk, e),
         UNCHANGED <<netRisk, behRisk, window, completed, flags, agent, iteration, findings, call,
                     cache, recent, returned, feedback>>
  PROVE  WorkflowInv'
<1> USE DEF WorkflowInv
<1>0. k \in Analysts /\ call[Worker].pc = "idle" /\ window \in Windows /\ e \in Protected
  BY DEF Analysts, LedgerInv, WorkerCommits, LoopInv, LoopTypes
<1>1. \A b \in BOOLEAN : LET n == Record(k, e, val, b)
                         IN /\ n.kind = k /\ n.window = window /\ n.entity = e
                            /\ n.val = val /\ n.durable = b /\ WellFormed(n)
  BY <1>0 DEF Record, WellFormed, Analysts
<1>2. CASE Failed /\ UNCHANGED <<board, todo>>
  <2>1. EvidenceInv'
    BY <1>2 DEF EvidenceInv, RiskTypes, FindingsAreHeld, RisksAreCurrent, Failed
  <2>2. iteration' \in Nat
    BY DEF LoopInv, LoopTypes
  <2> QED BY <1>0, <1>2, <2>1, <2>2, FailureKeeps DEF LoopFrame
<1>3. ASSUME NEW b \in BOOLEAN, board' = board \cup {Record(k, e, val, b)},
             \/ b /\ todo' = todo \ {e} /\ UNCHANGED <<status, pc>>
             \/ ~ b /\ Failed /\ UNCHANGED todo
      PROVE  WorkflowInv'
  <2>1. PICK n : n = Record(k, e, val, b)
    OBVIOUS
  <2>2. Writes(k, e, n) /\ n.durable = b /\ n.val = val
    BY <1>0, <1>1, <1>3, <2>1 DEF Writes
  <2>3. /\ BoardTypes' /\ Chained' /\ OneOutput' /\ OneFirm' /\ RememberedAreFirm'
        /\ RiskTypes' /\ RisksAreCurrent'
        /\ \A x \in Analysts : \A w, o : Has(x, w, o) => Has(x, w, o)'
        /\ \A x \in Analysts : x # k => Outputs(x)' = Outputs(x)
        /\ Outputs(k)' = IF n.durable THEN Outputs(k) \cup {e} ELSE Outputs(k)
        /\ \A r \in board' : r.kind = "risk" => \A a \in board' :
              (a.kind = "action" /\ a.window = r.window /\ a.entity = r.entity
                 /\ a.val.by = Worker) => a.val.action = Policy(r.val)
    BY <1>0, <2>2, OutputWritten
  <2>4. LoopInv'
    <3>1. CASE b
      BY <1>3, <3>1 DEF LoopInv, LoopTypes, AgentsInOrder, Started, CompletedRanAll
    <3>2. CASE ~ b
      BY <1>3, <3>2 DEF LoopInv, LoopTypes, AgentsInOrder, Started, CompletedRanAll, Failed
    <3> QED BY <3>1, <3>2
  <2>5. FindingsAreHeld'
    BY <1>3 DEF EvidenceInv, FindingsAreHeld, Failed
  <2>6. CallsChained'
    <3> SUFFICES ASSUME NEW c \in Callers, call[c].pc # "idle", NEW x \in Analysts
                 PROVE  Has(x, call[c].window, call[c].entity)'
      BY DEF CallsChained
    <3>1. Has(x, call[c].window, call[c].entity)
      BY DEF BoardInv, CallsChained
    <3>2. PICK w, o : w = call[c].window /\ o = call[c].entity
      OBVIOUS
    <3>3. Has(x, w, o)'
      BY <2>3, <3>1, <3>2
    <3> QED BY <3>2, <3>3 DEF Has
  <2>7. NotYetWritten'
    <3>1. CASE b
      BY <1>1, <1>3, <2>1, <2>2, <3>1 DEF BoardInv, NotYetWritten, Writes
    <3>2. CASE ~ b
      BY <1>3, <3>2 DEF NotYetWritten, Failed
    <3> QED BY <3>1, <3>2
  <2>8. LedgerTypes'
    BY DEF LedgerInv, LedgerTypes
  <2>9. WorkerCommits' /\ WorkerFollowsPolicy'
    BY <1>0, <2>3 DEF WorkerCommits, WorkerFollowsPolicy
  <2>10. ReturnedHere' = ReturnedHere
    BY DEF ReturnedHere
  <2>11. WorkIsAccounted'
    <3>0. k \notin completed /\ ~ Started("access") /\ (k = "threat" => ~ Started("risk"))
      BY DEF LoopInv, AgentsInOrder, Started
    <3>1. CASE b
      <4>1. \A a : Started(a)' <=> Started(a)
        BY <1>3, <3>1 DEF Started
      <4>2. /\ Left(k) = todo /\ Left(k)' = todo \ {e}
            /\ \A a : a # k => Left(a)' = {} /\ Left(a) = {}
        BY <1>3, <3>1 DEF Left
      <4>3. CASE k = "threat"
        BY <1>3, <2>2, <2>3, <3>0, <3>1, <4>1, <4>2, <4>3 DEF WorkIsAccounted, Analysts
      <4>4. CASE k = "risk"
        BY <1>3, <2>2, <2>3, <3>0, <3>1, <4>1, <4>2, <4>4 DEF WorkIsAccounted, Analysts
      <4> QED BY <4>3, <4>4
    <3>2. CASE ~ b
      <4>1. pc' = "idle"
        BY <1>3, <3>2 DEF Failed
      <4>2. \A a : Left(a)' = {} /\ (Started(a)' => a \in completed)
        BY <4>1 DEF Left, Started
      <4>3. \A a : a \in completed => Left(a) = {} /\ Started(a)
        BY DEF LoopInv, AgentsInOrder, Left, Started
      <4>4. Outputs("threat")' = Outputs("threat") /\ Outputs("risk")' = Outputs("risk")
        BY <2>2, <2>3, <3>2 DEF Analysts
      <4> QED BY <2>10, <4>1, <4>2, <4>3, <4>4 DEF WorkIsAccounted
    <3> QED BY <3>1, <3>2
  <2> QED BY <2>3, <2>4, <2>5, <2>6, <2>7, <2>8, <2>9, <2>11 DEF EvidenceInv, BoardInv, LedgerInv
<1> QED BY <1>2, <1>3 DEF Write, Fail

LEMMA CorrelateKeeps == WorkflowInv /\ Correlate => WorkflowInv'
<1> SUFFICES ASSUME WorkflowInv, Correlate PROVE WorkflowInv'
  OBVIOUS
<1>1. First \in todo
  BY FirstIsOfTodo DEF Correlate, WorkflowInv, LoopInv
<1>2. UNCHANGED <<netRisk, behRisk, window, completed, flags, agent, iteration, findings, call,
                  cache, recent, returned, feedback>>
  BY DEF Correlate, abmVars, loopVars, ledgerVars
<1> QED BY <1>1, <1>2, WriteKeeps DEF Correlate

LEMMA AnalyzeKeeps == WorkflowInv /\ Analyze => WorkflowInv'
<1> SUFFICES ASSUME WorkflowInv, Analyze PROVE WorkflowInv'
  OBVIOUS
<1>1. First \in todo
  BY FirstIsOfTodo DEF Analyze, WorkflowInv, LoopInv
<1>2. UNCHANGED <<netRisk, behRisk, window, completed, flags, agent, iteration, findings, call,
                  cache, recent, returned, feedback>>
  BY DEF Analyze, loopVars, ledgerVars
<1>3. RiskRecommendation(First).risk = Systemic(netRisk, behRisk, First)
  BY DEF RiskRecommendation
<1> QED BY <1>1, <1>2, <1>3, WriteKeeps DEF Analyze

\* There is one recommendation of the risk, and RiskOf names it.
LEMMA RiskOfIsTheRisk ==
  ASSUME WorkflowInv, NEW w, NEW e, Has("risk", w, e)
  PROVE  \A r \in board : (r.kind = "risk" /\ r.window = w /\ r.entity = e)
                            => RiskOf(w, e) = r.val
<1>1. \E r \in board : r.kind = "risk" /\ r.window = w /\ r.entity = e
  BY DEF Has
<1>2. PICK q : q = CHOOSE r \in board : r.kind = "risk" /\ r.window = w /\ r.entity = e
  OBVIOUS
<1>3. q \in board /\ q.kind = "risk" /\ q.window = w /\ q.entity = e
  BY <1>1, <1>2
<1>4. RiskOf(w, e) = q.val
  BY <1>2 DEF RiskOf
<1> QED BY <1>3, <1>4 DEF WorkflowInv, BoardInv, OneOutput, Analysts

\* The access recommendation is written, or not, and its commit is called.
LEMMA DecideKeeps == WorkflowInv /\ Decide => WorkflowInv'
<1> SUFFICES ASSUME WorkflowInv, Decide PROVE WorkflowInv'
  OBVIOUS
<1> USE DEF WorkflowInv
<1>1. PICK e : e = First
  OBVIOUS
<1>2. PICK action : action = Policy(RiskOf(window, e))
  OBVIOUS
<1>3. /\ pc = "run" /\ agent = "access" /\ call[Worker].pc = "idle"
      /\ UNCHANGED <<netRisk, behRisk, window, completed, flags, agent, iteration, findings, todo,
                     cache, recent, returned, feedback>>
  BY DEF Decide, abmVars, loopVars
<1>4. e \in todo /\ e \in Protected /\ window \in Windows /\ action \in AccessActions
  <2>1. e \in todo
    BY <1>1, FirstIsOfTodo DEF Decide, LoopInv
  <2>2. action \in AccessActions
    BY <1>2 DEF Policy, AccessActions
  <2> QED BY <1>3, <2>1, <2>2 DEF LoopInv, LoopTypes
<1>5. "access" \in Analysts /\ Worker \in Callers
  BY DEF Analysts, Callers
<1>6. \A b \in BOOLEAN : LET n == Record("access", e, action, b)
                         IN /\ n.kind = "access" /\ n.window = window /\ n.entity = e
                            /\ n.val = action /\ n.durable = b /\ WellFormed(n)
  BY <1>4 DEF Record, WellFormed, Analysts
<1> DEFINE running == [pc |-> "get", window |-> window, entity |-> e, action |-> action]
<1>7. CASE Failed /\ UNCHANGED <<board, call>>
  <2>1. EvidenceInv'
    BY <1>3, <1>7 DEF EvidenceInv, RiskTypes, FindingsAreHeld, RisksAreCurrent, Failed
  <2>2. iteration' \in Nat
    BY <1>3 DEF LoopInv, LoopTypes
  <2> QED BY <1>3, <1>7, <2>1, <2>2, FailureKeeps DEF LoopFrame
<1>8. ASSUME NEW b \in BOOLEAN, board' = board \cup {Record("access", e, action, b)},
             \/ b /\ call' = [call EXCEPT ![Worker] = running] /\ UNCHANGED <<status, pc>>
             \/ ~ b /\ Failed /\ UNCHANGED call
      PROVE  WorkflowInv'
  <2>1. PICK n : n = Record("access", e, action, b)
    OBVIOUS
  <2>2. Writes("access", e, n) /\ n.durable = b /\ n.val = action
    BY <1>3, <1>4, <1>6, <1>8, <2>1 DEF Writes
  <2>3. /\ BoardTypes' /\ Chained' /\ OneOutput' /\ OneFirm' /\ RememberedAreFirm'
        /\ RiskTypes' /\ RisksAreCurrent'
        /\ \A x \in Analysts : \A w, o : Has(x, w, o) => Has(x, w, o)'
        /\ \A x \in Analysts : x # "access" => Outputs(x)' = Outputs(x)
        /\ \A r \in board' : r.kind = "risk" => \A a \in board' :
              (a.kind = "action" /\ a.window = r.window /\ a.entity = r.entity
                 /\ a.val.by = Worker) => a.val.action = Policy(r.val)
        /\ \A x \in Analysts : x # "access" => Has(x, window, e)
    BY <1>5, <2>2, OutputWritten
  <2>4. LoopInv'
    <3>1. CASE b
      BY <1>3, <1>8, <3>1 DEF LoopInv, LoopTypes, AgentsInOrder, Started, CompletedRanAll
    <3>2. CASE ~ b
      BY <1>3, <1>8, <3>2 DEF LoopInv, LoopTypes, AgentsInOrder, Started, CompletedRanAll, Failed
    <3> QED BY <3>1, <3>2
  <2>5. FindingsAreHeld'
    BY <1>3, <1>8 DEF EvidenceInv, FindingsAreHeld, Failed
  <2>6. call \in [Callers -> Running \cup {Idle}] /\ running \in Running
    BY <1>4 DEF LedgerInv, LedgerTypes, Running
  <2>7. /\ call' \in [Callers -> Running \cup {Idle}]
        /\ \A c \in Callers \ {Worker} : call'[c] = call[c]
        /\ b => call'[Worker] = running
        /\ ~ b => call'[Worker] = call[Worker]
    BY <1>5, <1>8, <2>6
  <2>8. LedgerTypes'
    BY <1>3, <2>7 DEF LedgerInv, LedgerTypes
  <2>9. CallsChained'
    <3> SUFFICES ASSUME NEW c \in Callers, (call[c].pc # "idle")', NEW x \in Analysts
                 PROVE  Has(x, call[c].window, call[c].entity)'
      BY DEF CallsChained
    <3>1. CASE c = Worker
      <4>1. b /\ call'[c].window = window /\ call'[c].entity = e
        BY <1>3, <2>7, <3>1
      <4>2. PICK w : w = window
        OBVIOUS
      <4>3. Has(x, w, e)'
        <5>1. CASE x = "access"
          BY <1>8, <2>1, <2>2, <4>1, <4>2, <5>1 DEF Has, Writes
        <5>2. CASE x # "access"
          BY <2>3, <4>2, <5>2
        <5> QED BY <5>1, <5>2
      <4> QED BY <4>1, <4>2, <4>3 DEF Has
    <3>2. CASE c # Worker
      <4>1. call'[c] = call[c]
        BY <2>7, <3>2
      <4>2. Has(x, call[c].window, call[c].entity)
        BY <4>1 DEF BoardInv, CallsChained
      <4>3. PICK w, o : w = call[c].window /\ o = call[c].entity
        OBVIOUS
      <4>4. Has(x, w, o)'
        BY <2>3, <4>2, <4>3
      <4> QED BY <4>1, <4>3, <4>4 DEF Has
    <3> QED BY <3>1, <3>2
  <2>10. NotYetWritten'
    <3>1. CASE b
      <4>1. call'[Worker].pc # "idle" /\ call'[Worker].entity = e
        BY <2>7, <3>1
      <4>2. /\ UNCHANGED <<window, completed, agent, todo, pc>>
            /\ pc = "run" /\ agent = "access" /\ call[Worker].pc = "idle"
            /\ n.kind = "access" /\ n.entity = e /\ board' = board \cup {n}
        BY <1>3, <1>8, <2>1, <2>2, <3>1 DEF Writes
      <4>3. ASSUME NEW r \in board', r.window = window, r.kind \in Analysts,
                   r.kind \notin completed
            PROVE  agent = r.kind /\ (r.entity \in todo => r.entity = e)
        <5>1. CASE r = n
          BY <4>2, <5>1
        <5>2. CASE r \in board
          BY <4>2, <4>3, <5>2 DEF BoardInv, NotYetWritten
        <5> QED BY <4>2, <5>1, <5>2
      <4> QED BY <4>1, <4>2, <4>3 DEF NotYetWritten
    <3>2. CASE ~ b
      BY <1>8, <3>2 DEF NotYetWritten, Failed
    <3> QED BY <3>1, <3>2
  <2>11. WorkerCommits'
    <3>1. CASE b
      BY <1>3, <1>4, <1>8, <2>7, <3>1 DEF WorkerCommits
    <3>2. CASE ~ b
      BY <1>3, <2>7, <3>2 DEF WorkerCommits
    <3> QED BY <3>1, <3>2
  <2>12. WorkerFollowsPolicy'
    <3>1. \A r \in board' : r.kind = "risk" => r \in board
      BY <1>8, <2>1, <2>2 DEF Writes
    <3>2. \A r \in board : (r.kind = "risk" /\ r.window = window /\ r.entity = e)
             => action = Policy(r.val)
      BY <1>2, <2>3, RiskOfIsTheRisk DEF Analysts
    <3>3. \A r \in board' : r.kind = "risk" =>
            ((call'[Worker].pc # "idle" /\ call'[Worker].window = r.window
                /\ call'[Worker].entity = r.entity) => call'[Worker].action = Policy(r.val))
      BY <1>3, <2>7, <3>1, <3>2
    <3> QED BY <2>3, <3>3 DEF WorkerFollowsPolicy
  <2>13. WorkIsAccounted'
    <3>0. /\ Outputs("threat")' = Outputs("threat") /\ Outputs("risk")' = Outputs("risk")
          /\ ReturnedHere' = ReturnedHere
      BY <1>3, <2>3 DEF Analysts, ReturnedHere
    <3>1. CASE b
      BY <1>3, <1>8, <3>0, <3>1 DEF WorkIsAccounted, Started, Left
    <3>2. CASE ~ b
      <4>1. pc' = "idle"
        BY <1>8, <3>2 DEF Failed
      <4>2. \A a : Left(a)' = {} /\ (Started(a)' => a \in completed)
        BY <1>3, <4>1 DEF Left, Started
      <4>3. \A a : a \in completed => Left(a) = {} /\ Started(a)
        BY DEF LoopInv, AgentsInOrder, Left, Started
      <4> QED BY <1>3, <3>0, <4>1, <4>2, <4>3 DEF WorkIsAccounted
    <3> QED BY <3>1, <3>2
  <2> QED BY <2>3, <2>4, <2>5, <2>8, <2>9, <2>10, <2>11, <2>12, <2>13
             DEF EvidenceInv, BoardInv, LedgerInv
<1>9. \/ Failed /\ UNCHANGED <<board, call>>
      \/ /\ board' = board \cup {Record("access", e, action, TRUE)}
         /\ call' = [call EXCEPT ![Worker] = running] /\ UNCHANGED <<status, pc>>
      \/ /\ board' = board \cup {Record("access", e, action, FALSE)}
         /\ Failed /\ UNCHANGED call
  BY <1>1, <1>2 DEF Decide, Fail, Accepted
<1> QED BY <1>7, <1>8, <1>9

-----------------------------------------------------------------------------
(* The theorems. *)

LEMMA StutterKeeps == WorkflowInv /\ UNCHANGED workflowVars => WorkflowInv'
<1> SUFFICES ASSUME WorkflowInv, UNCHANGED workflowVars PROVE WorkflowInv'
  OBVIOUS
<1> USE DEF WorkflowInv, workflowVars
<1>1. LoopInv'
  BY DEF LoopInv, LoopTypes, AgentsInOrder, Started, CompletedRanAll
<1>2. EvidenceInv'
  BY DEF EvidenceInv, RiskTypes, FindingsAreHeld, RisksAreCurrent
<1>3. BoardTypes' /\ NotYetWritten'
  BY DEF BoardInv, BoardTypes, NotYetWritten
<1>4. WorkerCommits'
  BY DEF LedgerInv, WorkerCommits
<1>5. WorkIsAccounted'
  BY DEF WorkIsAccounted, Started, Left, Outputs, ReturnedHere
<1>6. LoopFrame
  BY DEF LoopFrame
<1> QED BY <1>1, <1>2, <1>3, <1>4, <1>5, <1>6, LoopKeepsTheLedger DEF BoardInv, LedgerInv

\* The invariant of the workflow: execute_window, the gateway's writes, the
\* ledger's calls and the feedback keep it, in whatever order they come.
THEOREM WorkflowInvariant == WorkflowSpec => []WorkflowInv
<1>1. WorkflowInv /\ [WorkflowNext]_workflowVars => WorkflowInv'
  <2> SUFFICES ASSUME WorkflowInv, [WorkflowNext]_workflowVars PROVE WorkflowInv'
    OBVIOUS
  <2>1. CASE StartWindow \/ Dispatch \/ CompleteWindow
    BY <2>1, StartWindowKeeps, DispatchKeeps, CompleteWindowKeeps
  <2>2. CASE RunNetwork \/ RunBehavior \/ DetectorRaises
    BY <2>2, RunNetworkKeeps, RunBehaviorKeeps, DetectorRaisesKeeps
  <2>3. CASE Correlate \/ Analyze \/ Decide \/ AgentDone
    BY <2>3, CorrelateKeeps, AnalyzeKeeps, DecideKeeps, AgentDoneKeeps
  <2>4. ASSUME NEW c \in Callers, Look(c) \/ Put(c) \/ CommitRaises(c) PROVE WorkflowInv'
    BY <2>4, LookKeeps, PutKeeps, CommitRaisesKeeps
  <2>5. ASSUME NEW c \in Retriers, NEW a \in {"MONITOR", "BLOCK"}, Retry(c, a)
        PROVE  WorkflowInv'
    BY <2>5, RetryKeeps DEF AccessActions
  <2>6. ASSUME NEW a \in Known, NEW w \in Windows, NEW e \in Devices, SubmitFeedback(a, w, e)
        PROVE  WorkflowInv'
    BY <2>6, FeedbackKeeps
  <2>7. CASE UNCHANGED workflowVars
    BY <2>7, StutterKeeps
  <2> QED BY <2>1, <2>2, <2>3, <2>4, <2>5, <2>6, <2>7 DEF WorkflowNext
<1> QED BY <1>1, WorkflowStarts, PTL DEF WorkflowSpec

\* No enforcement decision without COMMITTED correlation, recommendation of the
\* risk and recommendation of the access of its window and entity, and the
\* worker's is the policy's (ActionCommitter.commit, trust_access_controller).
THEOREM EvidenceChain == WorkflowSpec => []ActionsHaveTheirChain
<1>1. WorkflowInv => ActionsHaveTheirChain
  <2> SUFFICES ASSUME WorkflowInv, NEW a \in board, a.kind = "action"
               PROVE  /\ \A k \in {"threat", "risk", "access"} : \E r \in board :
                            r.kind = k /\ r.window = a.window /\ r.entity = a.entity /\ r.durable
                      /\ a.val.by = Worker => a.val.action = Policy(RiskOf(a.window, a.entity))
    BY DEF ActionsHaveTheirChain
  <2>1. \A k \in Analysts : Has(k, a.window, a.entity)
    BY DEF WorkflowInv, BoardInv, Chained, Analysts
  <2>2. PICK r \in board : r.kind = "risk" /\ r.window = a.window /\ r.entity = a.entity
    BY <2>1 DEF Has, Analysts
  <2>3. RiskOf(a.window, a.entity) = r.val
    BY <2>1, <2>2, RiskOfIsTheRisk DEF Analysts
  <2>4. a.val.by = Worker => a.val.action = Policy(r.val)
    BY <2>2 DEF WorkflowInv, LedgerInv, WorkerFollowsPolicy
  <2> QED BY <2>1, <2>3, <2>4 DEF Has, Analysts
<1> QED BY <1>1, WorkflowInvariant, PTL

\* The scores of a window reach its decisions: a finding of 0.7 or more on a
\* device makes the worker's decision about that device a BLOCK, through the
\* device model's fusion (systemic_risk) and the policy (decide).
THEOREM AlarmsBlock == WorkflowSpec => []AlarmsAreBlocked
<1>1. WorkflowInv => AlarmsAreBlocked
  <2> SUFFICES ASSUME WorkflowInv, NEW f \in findings, NEW a \in board, a.kind = "action",
                      a.window = window, a.entity = f.entity, a.val.by = Worker,
                      10 * f.score >= 7 * Unit
               PROVE  a.val.action = "BLOCK"
    BY DEF AlarmsAreBlocked
  <2>1. PICK r \in board : r.kind = "risk" /\ r.window = a.window /\ r.entity = a.entity
    BY DEF WorkflowInv, BoardInv, Chained, Has
  <2>2. a.val.action = Policy(r.val)
    BY <2>1 DEF WorkflowInv, LedgerInv, WorkerFollowsPolicy
  <2>3. r.val.risk = Systemic(netRisk, behRisk, f.entity)
    BY <2>1 DEF WorkflowInv, EvidenceInv, RisksAreCurrent
  <2>4. /\ f.kind \in Detectors /\ f.entity \in Devices /\ f.score \in 0 .. Unit
        /\ netRisk \in [Devices -> 0 .. Unit \cup {None}]
        /\ behRisk \in [Devices -> 0 .. Unit \cup {None}]
    BY DEF WorkflowInv, EvidenceInv, RiskTypes
  <2>5. f.score = OrZero(netRisk[f.entity]) \/ f.score = OrZero(behRisk[f.entity])
    <3>1. f.score # None
      BY <2>4, WorkflowAssumption
    <3>2. netRisk[f.entity] = f.score \/ behRisk[f.entity] = f.score
      BY <2>4 DEF WorkflowInv, EvidenceInv, FindingsAreHeld, Detectors
    <3> QED BY <3>1, <3>2 DEF OrZero
  <2>6. /\ Systemic(netRisk, behRisk, f.entity) \in 0 .. Unit
        /\ Direct(netRisk, behRisk, f.entity) <= Systemic(netRisk, behRisk, f.entity)
        /\ OrZero(netRisk[f.entity]) <= Direct(netRisk, behRisk, f.entity)
        /\ OrZero(behRisk[f.entity]) <= Direct(netRisk, behRisk, f.entity)
    BY <2>4, SystemicRisk
  <2>7. /\ OrZero(netRisk[f.entity]) \in 0 .. Unit /\ OrZero(behRisk[f.entity]) \in 0 .. Unit
        /\ Direct(netRisk, behRisk, f.entity) \in 0 .. Unit
    <3>1. 0 \in 0 .. Unit
      BY WorkflowAssumption
    <3>2. OrZero(netRisk[f.entity]) \in 0 .. Unit /\ OrZero(behRisk[f.entity]) \in 0 .. Unit
      BY <2>4, <3>1 DEF OrZero
    <3> QED BY <3>2 DEF Direct
  <2>8. r.val.risk \in Nat /\ r.val.risk >= f.score
    BY <2>3, <2>4, <2>5, <2>6, <2>7
  <2>9. 10 * r.val.risk >= 7 * Unit
    BY <2>4, <2>8, WorkflowAssumption
  <2> QED BY <2>2, <2>9 DEF Policy
<1> QED BY <1>1, WorkflowInvariant, PTL

\* Whoever calls commit for a window and entity, through whichever ledger and
\* after whatever failures, gets the one decision.
THEOREM OneDecision == WorkflowSpec => []OneDecisionPerEntity
<1>1. WorkflowInv => OneDecisionPerEntity
  <2> SUFFICES ASSUME WorkflowInv,
                      NEW x \in returned \cup UNION {Range(cache[c]) : c \in Callers},
                      NEW y \in returned \cup UNION {Range(cache[c]) : c \in Callers},
                      x.window = y.window, x.entity = y.entity
               PROVE  x.val = y.val
    BY DEF OneDecisionPerEntity
  <2>1. IsFirm(x.window, x.entity, x.val)
    BY DEF WorkflowInv, LedgerInv, RememberedAreFirm
  <2>2. IsFirm(y.window, y.entity, y.val)
    BY DEF WorkflowInv, LedgerInv, RememberedAreFirm
  <2> QED BY <2>1, <2>2 DEF IsFirm, WorkflowInv, LedgerInv, OneFirm
<1> QED BY <1>1, WorkflowInvariant, PTL

\* A COMPLETED window ran all five agents, and the commit of an action returned
\* for every protected device with findings (execute_window).
THEOREM CompletedIsWhole == WorkflowSpec => []CompletedWindowsAreWhole
<1>1. WorkflowInv => CompletedWindowsAreWhole
  <2> SUFFICES ASSUME WorkflowInv, pc = "idle", window > 0, status[window] = "COMPLETED"
               PROVE  /\ completed = Agents
                      /\ \A f \in findings : f.entity \in Protected =>
                            \E r \in returned : r.window = window /\ r.entity = f.entity
    BY DEF CompletedWindowsAreWhole
  <2>1. completed = Agents
    BY DEF WorkflowInv, LoopInv, CompletedRanAll
  <2>2. \A a \in Agents : Started(a) /\ Left(a) = {}
    BY <2>1 DEF Started, Left
  <2>3. {f.entity : f \in findings} \cap Protected \subseteq Outputs("threat")
    BY <2>2 DEF WorkflowInv, WorkIsAccounted, Agents
  <2>4. Outputs("threat") \subseteq Outputs("risk")
    BY <2>2 DEF WorkflowInv, WorkIsAccounted, Agents
  <2>5. Outputs("risk") \subseteq ReturnedHere
    BY <2>2 DEF WorkflowInv, WorkIsAccounted, Agents
  <2> QED BY <2>1, <2>3, <2>4, <2>5 DEF ReturnedHere
<1> QED BY <1>1, WorkflowInvariant, PTL

\* Recorded feedback is about a decision of its window and entity that is on a
\* majority of the replicas (submit_feedback, get_action).
THEOREM FeedbackBound == WorkflowSpec => []FeedbackIsBound
<1>1. WorkflowInv => FeedbackIsBound
  BY DEF FeedbackIsBound, WorkflowInv, LedgerInv, RememberedAreFirm, IsFirm
<1> QED BY <1>1, WorkflowInvariant, PTL
=============================================================================
