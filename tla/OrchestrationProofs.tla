------------------------ MODULE OrchestrationProofs -------------------------
(***************************************************************************)
(* Theorems about the adjudication of requests, for any orchestrators,     *)
(* quorum, requests and number of adjudications.                           *)
(***************************************************************************)
EXTENDS Orchestration, FiniteSetTheorems, SequenceTheorems, TLAPS

InRound == pc # "idle"

\* The thread works on a request until the close of the round, on behalf of
\* service or workflow, and outside of a round it holds no future and no answer.
RoundIsOpen ==
    /\ InRound => request \in Requests
    /\ caller = "nobody" <=> ~ InRound
    /\ preflighted # None => gen < MaxAdjudications
    /\ ~ InRound => /\ held = [o \in Orchestrators |-> "none"]
                    /\ prop = [o \in Orchestrators |-> None]
                    /\ vote = [o \in Orchestrators |-> None]
                    /\ out = Nobody
    /\ InRound => gen >= 1

\* An orchestrator has one call at most, finished or not; a finished one is
\* held; one that this round made is held as what it is.
CallsOwned ==
    /\ \A c, d \in calls : c.orc = d.orc => c = d
    /\ \A c \in calls :
          /\ c.gen <= gen
          /\ c.phase \in {"done", "cancelled"} => IsHeld(c)
          /\ InRound /\ c.gen = gen => held[c.orc] = c.kind

\* The orchestrators that are still to be asked have no standing yet.
AskedOnce ==
    /\ \A i, j \in DOMAIN todo : todo[i] = todo[j] => i = j
    /\ \A i \in DOMAIN todo : /\ held[todo[i]] = "none"
                              /\ vote[todo[i]] = None
                              /\ \A c \in Classes : todo[i] \notin out[c]

\* Waiting, having voted and being in a class exclude one another, and nobody
\* is called late or delayed before the round ends.
OneStandingSoFar ==
    /\ \A o \in Orchestrators :
          /\ vote[o] # None => held[o] = "none"
          /\ held[o] = "vote" => prop[o] # None
          /\ \A c \in Classes : o \in out[c] => held[o] = "none" /\ vote[o] = None
    /\ \A c, d \in Classes : c # d => out[c] \cap out[d] = {}
    /\ out["timed_out"] = {} /\ out["delayed"] = {}

\* The loop ends when nobody is waited for, a quorum agrees or time is up.
LoopEnded ==
    pc \in {"collect", "classify"} => Waiting = {} \/ QuorumRoutes # {} \/ expired

\* The history has one round for an identity, and the one that is adjudicated
\* is in it, with its own content and not terminal.
RoundsAreDistinct ==
    /\ \A i, j \in 1 .. Len(rounds) : rounds[i].id = rounds[j].id => i = j
    /\ InRound => \A i \in 1 .. Len(rounds) : rounds[i].id = request.id => ~ rounds[i].terminal
    /\ InRound => \E i \in 1 .. Len(rounds) : /\ rounds[i].id = request.id
                                               /\ rounds[i].digest = request.digest

\* The inductive invariant.
OrchInv ==
    /\ OrchTypeOK
    /\ RoundIsOpen
    /\ CallsOwned
    /\ AskedOnce
    /\ OneStandingSoFar
    /\ AnswersAreOfThisRound
    /\ LoopEnded
    /\ RoundsAreDistinct
    /\ OneStandingEach

-----------------------------------------------------------------------------
(* Facts about the operators. *)

LEMMA OrchestratorsFinite == IsFiniteSet(Orchestrators)
<1> DEFINE n == Len(OrchestratorIds)
<1>1. OrchestratorIds \in [1 .. n -> Orchestrators] /\ n \in Nat
  BY OrchestrationAssumption
<1>2. IsFiniteSet(1 .. n)
  BY <1>1, FS_Interval
<1>3. OrchestratorIds \in Surjection(1 .. n, Orchestrators)
  BY <1>1 DEF Orchestrators, Surjection
<1> QED  BY <1>2, <1>3, FS_Surjection

LEMMA NewCallIsCall ==
    ASSUME NEW o \in Orchestrators, NEW g \in 1 .. MaxAdjudications,
           NEW kind \in {"proposal", "vote"}
    PROVE  /\ NewCall(o, g, kind) \in Calls
           /\ NewCall(o, g, kind).orc = o /\ NewCall(o, g, kind).gen = g
           /\ NewCall(o, g, kind).kind = kind /\ NewCall(o, g, kind).phase = "queued"
BY DEF NewCall, Calls

\* IsHeld without its CASE, before and after a step.
LEMMA HeldIs ==
    ASSUME NEW c, held[c.orc] \in {"none", "lookup", "busy", "proposal", "vote"}
    PROVE  IsHeld(c) <=> \/ held[c.orc] = "busy" /\ c.gen # gen
                         \/ held[c.orc] \in {"proposal", "vote"} /\ c.gen = gen
                                                                 /\ c.kind = held[c.orc]
BY DEF IsHeld

LEMMA HeldIsNext ==
    ASSUME NEW CONSTANT c, held'[c.orc] \in {"none", "lookup", "busy", "proposal", "vote"}
    PROVE  IsHeld(c)' <=> \/ held'[c.orc] = "busy" /\ c.gen # gen'
                          \/ held'[c.orc] \in {"proposal", "vote"} /\ c.gen = gen'
                                                                   /\ c.kind = held'[c.orc]
BY DEF IsHeld

-----------------------------------------------------------------------------
LEMMA OrchInitInv == OrchInit => OrchInv
<1> SUFFICES ASSUME OrchInit PROVE OrchInv
  OBVIOUS
<1> USE DEF OrchInit
<1>1. OrchTypeOK
  <2>1. switches \in 0 .. MaxSwitches /\ gen \in 0 .. MaxAdjudications
    BY OrchestrationAssumption
  <2>2. /\ rounds \in Seq(Rounds) /\ decisions \in Seq({r.id : r \in Requests})
        /\ todo \in Seq(Orchestrators)
        /\ Len(rounds) = 0 /\ Len(decisions) = 0
    OBVIOUS
  <2>3. /\ available \in [Orchestrators -> BOOLEAN] /\ expired \in BOOLEAN /\ closed \in BOOLEAN
        /\ prop \in [Orchestrators -> Calls \cup {None}]
        /\ vote \in [Orchestrators -> Calls \cup {None}]
        /\ held \in [Orchestrators -> {"none", "lookup", "busy", "proposal", "vote"}]
        /\ out \in [Classes -> SUBSET Orchestrators]
    BY DEF Nobody
  <2> QED  BY <2>1, <2>2, <2>3, OrchestrationAssumption DEF OrchTypeOK
<1>2. RoundIsOpen /\ CallsOwned /\ AskedOnce /\ AnswersAreOfThisRound /\ LoopEnded
      /\ RoundsAreDistinct /\ OneStandingEach
  BY DEF RoundIsOpen, CallsOwned, AskedOnce, AnswersAreOfThisRound, LoopEnded,
         RoundsAreDistinct, OneStandingEach, InRound
<1>3. OneStandingSoFar
  BY DEF OneStandingSoFar, Nobody, Classes
<1> QED  BY <1>1, <1>2, <1>3 DEF OrchInv

\* The loop of new_round stops at the limit or at the active round, whichever
\* comes first.
LEMMA DroppedStops ==
    ASSUME NEW rs \in Seq(Rounds), Len(rs) > HistoryLimit,
           \A i, j \in 1 .. Len(rs) : rs[i].id = rs[j].id => i = j
    PROVE  /\ Dropped(rs) \in 0 .. Len(rs) - HistoryLimit
           /\ \A i \in 1 .. Dropped(rs) : ~ Active(rs[i].id)
           /\ Dropped(rs) = Len(rs) - HistoryLimit \/ Active(rs[Dropped(rs) + 1].id)
<1> DEFINE k == Len(rs) - HistoryLimit
           Stops(n) == /\ \A i \in 1 .. n : ~ Active(rs[i].id)
                       /\ n = k \/ Active(rs[n + 1].id)
<1>1. HistoryLimit \in Nat \ {0} /\ Len(rs) \in Nat /\ k \in Nat /\ k < Len(rs)
  BY OrchestrationAssumption
<1>2. Dropped(rs) = CHOOSE n \in 0 .. k : Stops(n)
  BY DEF Dropped
<1>3. \E n \in 0 .. k : Stops(n)
  <2>1. CASE \E p \in 1 .. k : Active(rs[p].id)
    <3>1. PICK p \in 1 .. k : Active(rs[p].id)
      BY <2>1
    <3> HIDE DEF k
    <3>2. p - 1 \in 0 .. k /\ (p - 1) + 1 = p /\ p \in 1 .. Len(rs)
      BY <1>1, <3>1
    <3>3. \A i \in 1 .. p - 1 : i \in 1 .. Len(rs) /\ i # p
      BY <1>1, <3>1
    <3>4. \A i \in 1 .. p - 1 : ~ Active(rs[i].id)
      BY <3>1, <3>2, <3>3 DEF Active
    <3> QED  BY <3>1, <3>2, <3>4
  <2>2. CASE ~ \E p \in 1 .. k : Active(rs[p].id)
    <3>1. k \in 0 .. k
      BY <1>1
    <3> QED  BY <2>2, <3>1
  <2> QED  BY <2>1, <2>2
<1> HIDE DEF Stops, k
<1>4. Dropped(rs) \in 0 .. k /\ Stops(Dropped(rs))
  BY <1>2, <1>3
<1> QED  BY <1>4 DEF Stops, k

\* The end of a sequence.
LEMMA SuffixIs ==
    ASSUME NEW S, NEW s \in Seq(S), NEW d \in Nat, d < Len(s)
    PROVE  /\ SubSeq(s, d + 1, Len(s)) \in Seq(S)
           /\ Len(SubSeq(s, d + 1, Len(s))) = Len(s) - d
           /\ \A i \in 1 .. Len(s) - d : SubSeq(s, d + 1, Len(s))[i] = s[i + d]
<1>1. Len(s) \in Nat /\ \A i \in d + 1 .. Len(s) : i \in 1 .. Len(s)
  OBVIOUS
<1>2. \A i \in d + 1 .. Len(s) : s[i] \in S
  BY <1>1
<1>3. /\ SubSeq(s, d + 1, Len(s)) \in Seq(S)
      /\ Len(SubSeq(s, d + 1, Len(s))) = IF d + 1 <= Len(s) THEN Len(s) - (d + 1) + 1 ELSE 0
      /\ \A i \in 1 .. Len(s) - (d + 1) + 1 :
            SubSeq(s, d + 1, Len(s))[i] = s[(d + 1) + i - 1]
  <2>1. d + 1 \in Int /\ Len(s) \in Int
    BY <1>1
  <2> QED  BY <1>2, <2>1, SubSeqProperties
<1>4. /\ d + 1 <= Len(s) /\ Len(s) - (d + 1) + 1 = Len(s) - d
      /\ \A i \in 1 .. Len(s) - d : (d + 1) + i - 1 = i + d
  BY <1>1
<1> QED  BY <1>3, <1>4

\* new_round adds a round or keeps the one there is, and drops what is neither
\* new nor active.
LEMMA RegisterKeeps ==
    ASSUME OrchTypeOK, RoundsAreDistinct, NEW r \in Requests, Register(r)
    PROVE  /\ rounds' \in Seq(Rounds)
           /\ \A i, j \in 1 .. Len(rounds') : rounds'[i].id = rounds'[j].id => i = j
           /\ \A i \in 1 .. Len(rounds'), j \in 1 .. Len(rounds) :
                 rounds'[i].id = rounds[j].id => rounds'[i] = rounds[j]
           /\ \A i \in 1 .. Len(rounds') :
                 \/ \E j \in 1 .. Len(rounds) : rounds'[i] = rounds[j]
                 \/ /\ Known(r.id) = {}
                    /\ rounds'[i] = [id |-> r.id, digest |-> r.digest, terminal |-> FALSE]
           /\ InRound => \E i \in 1 .. Len(rounds') : /\ rounds'[i].id = request.id
                                                      /\ rounds'[i].digest = request.digest
           /\ \E i \in 1 .. Len(rounds') :
                 /\ rounds'[i].id = r.id
                 /\ Reusable(r) => rounds'[i].digest = r.digest /\ ~ rounds'[i].terminal
           /\ Len(rounds') <= Len(rounds) + 1
           /\ Known(r.id) # {} => rounds' = rounds
           /\ Known(r.id) = {} /\ ~ InRound => Len(rounds') <= HistoryLimit
<1> DEFINE new == [id |-> r.id, digest |-> r.digest, terminal |-> FALSE]
           longer == Append(rounds, new)
           n == Len(rounds)
<1>1. rounds \in Seq(Rounds) /\ n \in Nat /\ HistoryLimit \in Nat \ {0}
  BY OrchestrationAssumption DEF OrchTypeOK
<1>2. CASE Known(r.id) # {}
  <2>1. rounds' = rounds
    BY <1>2 DEF Register
  <2>2. PICK k \in 1 .. n : rounds[k].id = r.id
    BY <1>2 DEF Known
  <2>3. Reusable(r) => rounds[k].digest = r.digest /\ ~ rounds[k].terminal
    BY <2>2 DEF Reusable, Known
  <2>4. n <= n + 1
    BY <1>1
  <2> QED  BY <1>1, <1>2, <2>1, <2>2, <2>3, <2>4 DEF RoundsAreDistinct
<1>3. CASE Known(r.id) = {}
  <2>1. new \in Rounds /\ new.id = r.id /\ new.digest = r.digest /\ ~ new.terminal
    BY DEF Rounds
  <2>2. /\ longer \in Seq(Rounds) /\ Len(longer) = n + 1
        /\ \A i \in 1 .. n : longer[i] = rounds[i]
        /\ longer[n + 1] = new
    BY <1>1, <2>1
  <2>3. \A i \in 1 .. n : rounds[i].id # new.id
    BY <1>3, <2>1 DEF Known
  <2>4. rounds' = IF Len(longer) > HistoryLimit
                  THEN SubSeq(longer, Dropped(longer) + 1, Len(longer)) ELSE longer
    BY <1>3 DEF Register
  <2>5. new = [id |-> r.id, digest |-> r.digest, terminal |-> FALSE]
    OBVIOUS
  <2> HIDE DEF longer, new, n
  <2>6. \A i \in 1 .. n + 1 : i \in 1 .. n \/ i = n + 1
    BY <1>1
  <2>7. /\ \A i, j \in 1 .. n + 1 : longer[i].id = longer[j].id => i = j
        /\ \A i \in 1 .. n + 1, j \in 1 .. n :
              longer[i].id = rounds[j].id => longer[i] = rounds[j]
        /\ \A i \in 1 .. n + 1 : longer[i] = new \/ \E j \in 1 .. n : longer[i] = rounds[j]
    BY <1>1, <2>2, <2>3, <2>6 DEF RoundsAreDistinct, n
  \* What stays is an end of the longer sequence that holds the active round.
  <2>8. PICK d \in Nat :
            /\ d <= n
            /\ rounds' \in Seq(Rounds) /\ Len(rounds') = n + 1 - d
            /\ \A i \in 1 .. n + 1 - d : rounds'[i] = longer[i + d]
            /\ \A i \in 1 .. d : ~ Active(longer[i].id)
            /\ n + 1 - d <= HistoryLimit \/ Active(longer[d + 1].id)
    <3>1. CASE Len(longer) > HistoryLimit
      <4>0. /\ Dropped(longer) \in 0 .. Len(longer) - HistoryLimit
            /\ \A i \in 1 .. Dropped(longer) : ~ Active(longer[i].id)
            /\ \/ Dropped(longer) = Len(longer) - HistoryLimit
               \/ Active(longer[Dropped(longer) + 1].id)
        <5>1. \A i, j \in 1 .. Len(longer) : longer[i].id = longer[j].id => i = j
          BY <2>2, <2>7
        <5> QED  BY <2>2, <3>1, <5>1, DroppedStops
      <4> PICK d : d = Dropped(longer)
        OBVIOUS
      <4>1. /\ d \in 0 .. n + 1 - HistoryLimit
            /\ \A i \in 1 .. d : ~ Active(longer[i].id)
            /\ d = n + 1 - HistoryLimit \/ Active(longer[d + 1].id)
        <5>1. Len(longer) - HistoryLimit = n + 1 - HistoryLimit
          BY <1>1, <2>2
        <5> QED  BY <4>0, <5>1
      <4>2. rounds' = SubSeq(longer, d + 1, Len(longer))
        BY <2>2, <2>4, <3>1
      <4>3. d \in Nat /\ d <= n
        BY <1>1, <4>1
      <4>5. /\ rounds' \in Seq(Rounds) /\ Len(rounds') = n + 1 - d
            /\ \A i \in 1 .. n + 1 - d : rounds'[i] = longer[i + d]
        <5>1. Len(longer) = n + 1 /\ d < Len(longer)
          BY <1>1, <2>2, <4>3
        <5>2. longer \in Seq(Rounds)
          BY <2>2
        <5>3. /\ rounds' \in Seq(Rounds) /\ Len(rounds') = Len(longer) - d
              /\ \A i \in 1 .. Len(longer) - d : rounds'[i] = longer[i + d]
          BY <4>2, <4>3, <5>1, <5>2, SuffixIs, Zenon
        <5>4. Len(longer) - d = n + 1 - d
          BY <1>1, <4>3, <5>1
        <5> QED  BY <5>3, <5>4
      <4>6. n + 1 - d <= HistoryLimit \/ Active(longer[d + 1].id)
        BY <1>1, <4>1, <4>3
      <4> QED  BY <4>1, <4>3, <4>5, <4>6
    <3>2. CASE ~ (Len(longer) > HistoryLimit)
      <4>1. 0 \in Nat /\ 0 <= n /\ n + 1 - 0 = n + 1 /\ n + 1 <= HistoryLimit
        BY <1>1, <2>2, <3>2
      <4>2. \A i \in 1 .. n + 1 : i + 0 = i
        BY <1>1
      <4>3. rounds' = longer /\ \A i \in 1 .. 0 : FALSE
        BY <2>4, <3>2
      <4> QED  BY <2>2, <4>1, <4>2, <4>3
    <3> QED  BY <3>1, <3>2
  <2> DEFINE m == n + 1 - d
  <2>9. /\ m \in Nat /\ m <= n + 1 /\ m >= 1 /\ m + d = n + 1
        /\ \A i \in 1 .. m : i + d \in 1 .. n + 1
        /\ \A i, j \in 1 .. m : i + d = j + d => i = j
        /\ \A i \in 1 .. n + 1 : i \in 1 .. d \/ (i - d \in 1 .. m /\ (i - d) + d = i)
    BY <1>1, <2>8
  <2>10. Len(rounds') = m /\ \A i \in 1 .. m : rounds'[i] = longer[i + d]
    BY <2>8
  <2> HIDE DEF m
  <2>11. \A i, j \in 1 .. m : rounds'[i].id = rounds'[j].id => i = j
    BY <2>7, <2>9, <2>10
  <2>12. \A i \in 1 .. m, j \in 1 .. n :
             rounds'[i].id = rounds[j].id => rounds'[i] = rounds[j]
    BY <2>7, <2>9, <2>10
  <2>13. ASSUME NEW i \in 1 .. m
         PROVE  rounds'[i] = new \/ \E j \in 1 .. n : rounds'[i] = rounds[j]
    <3>1. i + d \in 1 .. n + 1 /\ rounds'[i] = longer[i + d]
      BY <2>9, <2>10
    <3>2. \A k \in 1 .. n + 1 : longer[k] = new \/ \E j \in 1 .. n : longer[k] = rounds[j]
      BY <2>7
    <3> QED  BY <3>1, <3>2
  <2>14. InRound => \E i \in 1 .. m : /\ rounds'[i].id = request.id
                                      /\ rounds'[i].digest = request.digest
    <3> SUFFICES ASSUME InRound
                 PROVE  \E i \in 1 .. m : /\ rounds'[i].id = request.id
                                          /\ rounds'[i].digest = request.digest
      OBVIOUS
    <3>1. PICK p \in 1 .. n : rounds[p].id = request.id /\ rounds[p].digest = request.digest
      BY DEF RoundsAreDistinct, n
    <3>2. p \in 1 .. n + 1 /\ longer[p] = rounds[p]
      BY <1>1, <2>2, <3>1
    <3>3. p \notin 1 .. d
      BY <2>8, <3>1, <3>2 DEF Active, InRound
    <3>4. p - d \in 1 .. m /\ rounds'[p - d] = rounds[p]
      BY <2>9, <2>10, <3>2, <3>3
    <3> QED  BY <3>1, <3>4
  <2>15. m \in 1 .. m /\ rounds'[m] = new
    BY <2>2, <2>9, <2>10
  <2>16. ~ InRound => m <= HistoryLimit
    BY <2>8 DEF Active, InRound, m
  <2>17. /\ \A i \in 1 .. m : \/ \E j \in 1 .. n : rounds'[i] = rounds[j]
                              \/ /\ Known(r.id) = {}
                                 /\ rounds'[i] = [id |-> r.id, digest |-> r.digest,
                                                  terminal |-> FALSE]
         /\ \E i \in 1 .. m :
               /\ rounds'[i].id = r.id
               /\ Reusable(r) => rounds'[i].digest = r.digest /\ ~ rounds'[i].terminal
    BY <1>3, <2>1, <2>5, <2>13, <2>15
  <2>18. rounds' \in Seq(Rounds)
    BY <2>8
  <2> QED  BY <1>3, <2>9, <2>10, <2>11, <2>12, <2>14, <2>16, <2>17, <2>18 DEF n
<1> QED  BY <1>2, <1>3

\* preflight leaves a round that is being adjudicated as it is.
LEMMA PreflightKeepsInv ==
    ASSUME OrchInv, NEW r \in Requests, Preflight(r)
    PROVE  OrchInv'
<1> USE DEF OrchInv, workerVars, roundVars
<1>1. /\ Register(r) /\ preflighted' = r /\ preflighted = None /\ ~ Active(r.id)
      /\ UNCHANGED <<available, switches, calls, caller, pc, request, gen, todo, expired, held,
                     prop, vote, out, closed, answer, decisions>>
      /\ (InRound' <=> InRound)
  BY DEF Preflight, RequestLockFree, InRound
<1>2. /\ rounds' \in Seq(Rounds)
      /\ \A i, j \in 1 .. Len(rounds') : rounds'[i].id = rounds'[j].id => i = j
      /\ \A i \in 1 .. Len(rounds') :
            \/ \E j \in 1 .. Len(rounds) : rounds'[i] = rounds[j]
            \/ rounds'[i] = [id |-> r.id, digest |-> r.digest, terminal |-> FALSE]
      /\ InRound => \E i \in 1 .. Len(rounds') : /\ rounds'[i].id = request.id
                                                 /\ rounds'[i].digest = request.digest
  BY <1>1, RegisterKeeps
<1>3. OrchTypeOK'
  BY <1>1, <1>2 DEF OrchTypeOK
<1>4. RoundIsOpen'
  <2>1. gen < MaxAdjudications
    BY <1>1 DEF Preflight, Begun, OrchTypeOK
  <2> QED  BY <1>1, <2>1 DEF RoundIsOpen, InRound
<1>5. AskedOnce' /\ OneStandingSoFar' /\ AnswersAreOfThisRound' /\ OneStandingEach'
  BY <1>1 DEF AskedOnce, OneStandingSoFar, AnswersAreOfThisRound, OneStandingEach
<1>6. LoopEnded'
  BY <1>1 DEF LoopEnded, Waiting, QuorumRoutes, Approvers, Voters
<1>7. CallsOwned'
  BY <1>1 DEF CallsOwned, IsHeld
<1>8. InRound => \A i \in 1 .. Len(rounds') : rounds'[i].id = request.id => ~ rounds'[i].terminal
  <2> SUFFICES ASSUME InRound, NEW i \in 1 .. Len(rounds'), rounds'[i].id = request.id
               PROVE  ~ rounds'[i].terminal
    OBVIOUS
  <2>1. r.id # request.id
    BY <1>1 DEF Active, InRound
  <2>2. PICK j \in 1 .. Len(rounds) : rounds'[i] = rounds[j]
    BY <1>2, <2>1
  <2> QED  BY <2>2 DEF RoundsAreDistinct
<1>9. RoundsAreDistinct'
  BY <1>1, <1>2, <1>8 DEF RoundsAreDistinct
<1> QED  BY <1>3, <1>4, <1>5, <1>6, <1>7, <1>9

\* A new round finds no finished call and asks everyone.
LEMMA BeginKeepsInv ==
    ASSUME OrchInv, NEW r \in Requests, NEW who \in {"service", "workflow"}, Begin(r, who),
           pc = "idle",
           gen < MaxAdjudications,
           preflighted' \in Requests \cup {None},
           preflighted' # None => gen + 1 < MaxAdjudications
    PROVE  OrchInv'
<1> USE DEF OrchInv, workerVars
<1>1. /\ ~ closed /\ Reusable(r) /\ Register(r)
      /\ pc' = "submit" /\ request' = r /\ caller' = who /\ gen' = gen + 1
      /\ todo' = OrchestratorIds /\ expired' = FALSE /\ answer' = None
      /\ UNCHANGED <<available, switches, calls, held, prop, vote, out, closed, decisions>>
      /\ ~ InRound /\ InRound'
  BY DEF Begin, InRound
<1>2. /\ rounds' \in Seq(Rounds)
      /\ \A i, j \in 1 .. Len(rounds') : rounds'[i].id = rounds'[j].id => i = j
      /\ \E i \in 1 .. Len(rounds') : rounds'[i].id = r.id /\ rounds'[i].digest = r.digest
                                                           /\ ~ rounds'[i].terminal
  BY <1>1, RegisterKeeps
<1>3. OrchTypeOK'
  <2>1. gen' \in 0 .. MaxAdjudications /\ todo' \in Seq(Orchestrators)
    BY <1>1, OrchestrationAssumption DEF OrchTypeOK
  <2> QED  BY <1>1, <1>2, <2>1 DEF OrchTypeOK
<1>4. /\ held = [o \in Orchestrators |-> "none"]
      /\ prop = [o \in Orchestrators |-> None]
      /\ vote = [o \in Orchestrators |-> None]
      /\ out = Nobody
  BY <1>1 DEF RoundIsOpen
<1>5. RoundIsOpen'
  <2>1. gen' >= 1 /\ (preflighted' # None => gen' < MaxAdjudications)
    BY <1>1 DEF OrchTypeOK
  <2> QED  BY <1>1, <2>1 DEF RoundIsOpen
<1>6. OneStandingEach' /\ LoopEnded' /\ OneStandingSoFar'
  BY <1>1 DEF OneStandingEach, LoopEnded, OneStandingSoFar
<1>7. AskedOnce'
  <2>1. todo' = OrchestratorIds /\ \A i \in DOMAIN todo' : todo'[i] \in Orchestrators
    BY <1>1 DEF Orchestrators
  <2> QED  BY <1>1, <1>4, <2>1, OrchestrationAssumption DEF AskedOnce, Nobody
<1>8. CallsOwned'
  <2>1. \A c \in calls : c.phase \notin {"done", "cancelled"} /\ c \in Calls /\ c.gen <= gen
    BY <1>4 DEF CallsOwned, IsHeld, OrchTypeOK, Calls
  <2>2. \A c \in calls : c.gen # gen + 1 /\ c.gen <= gen + 1
    BY <2>1 DEF Calls, OrchTypeOK
  <2> QED  BY <1>1, <2>1, <2>2 DEF CallsOwned
<1>9. AnswersAreOfThisRound'
  BY <1>1, <1>4 DEF AnswersAreOfThisRound
<1>10. RoundsAreDistinct'
  BY <1>1, <1>2 DEF RoundsAreDistinct
<1> QED  BY <1>3, <1>5, <1>6, <1>7, <1>8, <1>9, <1>10

\* Service and workflow get the lock when no round is being adjudicated; what
\* the coordinator refuses changes nothing but the service's wait.
LEMMA BeginsKeepInv ==
    ASSUME OrchInv, ServiceBegins \/ \E r \in Dispatches : WorkflowBegins(r)
    PROVE  OrchInv'
<1> USE DEF OrchInv
<1>1. CASE ServiceBegins
  <2>1. /\ pc = "idle" /\ preflighted \in Requests /\ preflighted' = None
        /\ gen < MaxAdjudications
    BY <1>1 DEF ServiceBegins, OrchTypeOK, RoundIsOpen
  <2>2. CASE Begin(preflighted, "service")
    BY <2>1, <2>2, BeginKeepsInv
  <2>3. CASE UNCHANGED <<workerVars, calls, rounds, caller, pc, request, gen, todo, expired, held,
                         roundVars, closed, decisions>>
    <3> USE DEF workerVars, roundVars
    <3>1. OrchTypeOK'
      BY <2>1, <2>3 DEF OrchTypeOK
    <3>2. RoundIsOpen' /\ AskedOnce' /\ OneStandingSoFar' /\ AnswersAreOfThisRound'
          /\ OneStandingEach' /\ RoundsAreDistinct' /\ LoopEnded'
      BY <2>1, <2>3 DEF RoundIsOpen, AskedOnce, OneStandingSoFar, AnswersAreOfThisRound,
                        LoopEnded, OneStandingEach, InRound, RoundsAreDistinct
    <3>3. CallsOwned'
      BY <2>3 DEF CallsOwned, InRound, IsHeld
    <3> QED  BY <3>1, <3>2, <3>3
  <2> QED  BY <1>1, <2>2, <2>3 DEF ServiceBegins
<1>2. ASSUME NEW r \in Dispatches, WorkflowBegins(r) PROVE OrchInv'
  <2>1. /\ pc = "idle" /\ r \in Requests /\ Begin(r, "workflow") /\ preflighted' = preflighted
        /\ preflighted \in Requests \cup {None}
    BY <1>2 DEF WorkflowBegins, Requests, OrchTypeOK
  <2>2. gen < MaxAdjudications /\ (preflighted # None => gen + 1 < MaxAdjudications)
    BY <1>2, OrchestrationAssumption DEF WorkflowBegins, Begun, OrchTypeOK
  <2> QED  BY <2>1, <2>2, BeginKeepsInv
<1> QED  BY <1>1, <1>2

\* Steps of the thread's loop, the clock and the operator that leave calls and
\* standings alone.
LEMMA QuietStepsKeepInv ==
    ASSUME OrchInv,
           CheckLoop \/ WaitTimesOut \/ Expire \/ \E o \in Switchable : SetAvailable(o)
    PROVE  OrchInv'
<1> USE DEF OrchInv, workerVars, callerVars, roundVars
<1>1. /\ UNCHANGED <<calls, rounds, preflighted, caller, request, gen, todo, held, prop, vote,
                     out, closed, answer, decisions>>
      /\ InRound' <=> InRound
  BY DEF CheckLoop, WaitTimesOut, Expire, SetAvailable, InRound
<1>2. OrchTypeOK'
  <2>1. CASE CheckLoop \/ WaitTimesOut \/ Expire
    BY <2>1 DEF CheckLoop, WaitTimesOut, Expire, OrchTypeOK
  <2>2. ASSUME NEW o \in Switchable, SetAvailable(o) PROVE OrchTypeOK'
    <3>1. available' \in [Orchestrators -> BOOLEAN]
      BY <2>2, OrchestrationAssumption DEF SetAvailable, OrchTypeOK
    <3>2. switches' \in 0 .. MaxSwitches
      BY <2>2, OrchestrationAssumption DEF SetAvailable, OrchTypeOK
    <3> QED  BY <2>2, <3>1, <3>2 DEF SetAvailable, OrchTypeOK
  <2> QED  BY <2>1, <2>2
<1>3. RoundIsOpen' /\ AskedOnce' /\ OneStandingSoFar' /\ AnswersAreOfThisRound'
      /\ OneStandingEach' /\ RoundsAreDistinct'
  BY <1>1 DEF RoundIsOpen, AskedOnce, OneStandingSoFar, AnswersAreOfThisRound, OneStandingEach,
              RoundsAreDistinct
<1>4. CallsOwned'
  BY <1>1 DEF CallsOwned, IsHeld
<1>5. LoopEnded'
  <2>1. Waiting' = Waiting
    BY <1>1 DEF Waiting
  <2>2. QuorumRoutes' = QuorumRoutes
    BY <1>1 DEF QuorumRoutes, Approvers, Voters
  <2>3. CASE CheckLoop \/ WaitTimesOut
    BY <2>1, <2>2, <2>3 DEF CheckLoop, WaitTimesOut, LoopEnded
  <2>4. CASE Expire \/ \E o \in Switchable : SetAvailable(o)
    BY <2>1, <2>2, <2>4 DEF Expire, SetAvailable, LoopEnded
  <2> QED  BY <2>3, <2>4
<1> QED  BY <1>2, <1>3, <1>4, <1>5

\* The round is closed with nothing left of it but unfinished calls.
LEMMA LeaveKeepsInv ==
    ASSUME OrchInv, LeaveRound, InRound,
           calls' \subseteq {c \in calls : c.phase \in {"queued", "running"}},
           todo' = todo \/ todo' = <<>>,
           UNCHANGED <<available, switches, gen, closed>>,
           decisions' \in Seq({r.id : r \in Requests}) /\ Len(decisions') <= DecisionLimit,
           OneStandingEach'
    PROVE  OrchInv'
<1> USE DEF OrchInv
<1>1. /\ pc' = "idle" /\ request' = None /\ expired' = FALSE
      /\ caller' = "nobody" /\ preflighted' = preflighted
      /\ held' = [o \in Orchestrators |-> "none"]
      /\ prop' = [o \in Orchestrators |-> None]
      /\ vote' = [o \in Orchestrators |-> None]
      /\ out' = Nobody
      /\ ~ InRound'
  BY DEF LeaveRound, InRound
<1>2. /\ rounds' \in Seq(Rounds) /\ Len(rounds') = Len(rounds)
      /\ \A i \in 1 .. Len(rounds) : rounds'[i].id = rounds[i].id
  <2>1. rounds \in Seq(Rounds) /\ rounds \in [1 .. Len(rounds) -> Rounds] /\ Len(rounds) \in Nat
    BY DEF OrchTypeOK
  <2>2. \A i \in 1 .. Len(rounds) :
            LET x == [rounds[i] EXCEPT !.terminal = @ \/ rounds[i].id = request.id]
            IN  x \in Rounds /\ x.id = rounds[i].id
    BY <2>1 DEF Rounds
  <2>3. /\ rounds' \in [1 .. Len(rounds) -> Rounds]
        /\ \A i \in 1 .. Len(rounds) : rounds'[i].id = rounds[i].id
    BY <2>2 DEF LeaveRound, CloseRound
  <2> QED  BY <2>1, <2>3
<1>3. OrchTypeOK'
  <2>1. todo' \in Seq(Orchestrators)
    <3>1. todo \in Seq(Orchestrators)
      BY DEF OrchTypeOK
    <3>2. <<>> \in Seq(Orchestrators)
      OBVIOUS
    <3>3. CASE todo' = todo
      BY <3>1, <3>3
    <3>4. CASE todo' = <<>>
      BY <3>2, <3>4
    <3> QED  BY <3>3, <3>4
  <2>2. /\ prop' \in [Orchestrators -> Calls \cup {None}]
        /\ vote' \in [Orchestrators -> Calls \cup {None}]
        /\ held' \in [Orchestrators -> {"none", "lookup", "busy", "proposal", "vote"}]
        /\ out' \in [Classes -> SUBSET Orchestrators]
    BY <1>1 DEF Nobody
  <2> QED  BY <1>1, <1>2, <2>1, <2>2 DEF OrchTypeOK
<1>4. RoundIsOpen' /\ LoopEnded' /\ AnswersAreOfThisRound'
  BY <1>1 DEF RoundIsOpen, LoopEnded, AnswersAreOfThisRound
<1>5. OneStandingSoFar'
  BY <1>1 DEF OneStandingSoFar, Nobody, Classes
<1>6. AskedOnce'
  <2>1. \A i \in DOMAIN todo' : todo'[i] \in Orchestrators
    BY DEF OrchTypeOK
  <2> QED  BY <1>1, <2>1 DEF AskedOnce, Nobody
<1>7. CallsOwned'
  BY <1>1 DEF CallsOwned, OrchTypeOK, Calls
<1>8. RoundsAreDistinct'
  BY <1>1, <1>2 DEF RoundsAreDistinct
<1> QED  BY <1>3, <1>4, <1>5, <1>6, <1>7, <1>8

\* Calls move on, each for itself.
LEMMA MovesKeepInv ==
    ASSUME OrchInv,
           UNCHANGED <<available, switches, rounds, preflighted, caller, pc, request, gen, todo,
                       expired, held, prop, vote, out, answer, decisions>>,
           closed' \in BOOLEAN,
           calls' \subseteq Calls,
           \A d \in calls' : \E c \in calls :
               /\ d.orc = c.orc /\ d.gen = c.gen /\ d.kind = c.kind
               /\ d.phase \in {"done", "cancelled"} => IsHeld(c),
           \A d, e \in calls' : d.orc = e.orc => d = e
    PROVE  OrchInv'
<1> USE DEF OrchInv
<1>1. OrchTypeOK'
  BY DEF OrchTypeOK
<1>2. RoundIsOpen' /\ AskedOnce' /\ OneStandingSoFar' /\ AnswersAreOfThisRound'
      /\ OneStandingEach' /\ RoundsAreDistinct' /\ (InRound' <=> InRound)
  BY DEF RoundIsOpen, AskedOnce, OneStandingSoFar, AnswersAreOfThisRound, OneStandingEach,
         RoundsAreDistinct, InRound
<1>3. LoopEnded'
  BY DEF LoopEnded, Waiting, QuorumRoutes, Approvers, Voters
<1>4. ASSUME NEW d \in calls'
      PROVE  /\ d.gen <= gen'
             /\ d.phase \in {"done", "cancelled"} => IsHeld(d)'
             /\ InRound' /\ d.gen = gen' => held'[d.orc] = d.kind
  <2>1. PICK c \in calls : /\ d.orc = c.orc /\ d.gen = c.gen /\ d.kind = c.kind
                           /\ d.phase \in {"done", "cancelled"} => IsHeld(c)
    OBVIOUS
  <2>2. IsHeld(d)' <=> IsHeld(c)
    BY <2>1 DEF IsHeld
  <2> QED  BY <1>2, <2>1, <2>2 DEF CallsOwned
<1>5. CallsOwned'
  BY <1>4 DEF CallsOwned
<1> QED  BY <1>1, <1>2, <1>3, <1>5

\* A call of a worker starts or ends.
LEMMA WorkersKeepInv ==
    ASSUME OrchInv, NEW c \in calls, StartCall(c) \/ FinishCall(c)
    PROVE  OrchInv'
<1> USE DEF OrchInv
<1>1. /\ UNCHANGED <<available, switches, rounds, preflighted, caller, pc, request, gen, todo,
                     expired, held, prop, vote, out, closed, answer, decisions>>
      /\ closed' \in BOOLEAN
  BY DEF StartCall, FinishCall, workerVars, callerVars, roundVars, OrchTypeOK
<1>2. c \in Calls
  BY DEF OrchTypeOK
<1>3. ASSUME NEW d \in Calls, NEW S \in SUBSET {d}, calls' = (calls \ {c}) \cup S,
             d.orc = c.orc, d.gen = c.gen, d.kind = c.kind,
             S # {} /\ d.phase \in {"done", "cancelled"} => IsHeld(c)
      PROVE  OrchInv'
  <2>1. calls' \subseteq Calls
    BY <1>3 DEF OrchTypeOK
  <2>2. ASSUME NEW e \in calls'
        PROVE  \E b \in calls : /\ e.orc = b.orc /\ e.gen = b.gen /\ e.kind = b.kind
                                /\ e.phase \in {"done", "cancelled"} => IsHeld(b)
    BY <1>3 DEF CallsOwned
  <2>3. \A e, f \in calls' : e.orc = f.orc => e = f
    BY <1>3 DEF CallsOwned
  <2> QED  BY <1>1, <2>1, <2>2, <2>3, MovesKeepInv
<1>4. ASSUME NEW r \in Results, EndCall(c, r)
      PROVE  OrchInv'
  <2> DEFINE d == [c EXCEPT !.phase = "done", !.result = r]
  <2>1. d \in Calls /\ d.orc = c.orc /\ d.gen = c.gen /\ d.kind = c.kind
    BY <1>2, <1>4 DEF Calls
  <2>2. calls' = (calls \ {c}) \cup (IF IsHeld(c) THEN {d} ELSE {})
    BY <1>4 DEF EndCall
  <2> HIDE DEF d
  <2>3. CASE IsHeld(c)
    BY <1>3, <2>1, <2>2, <2>3
  <2>4. CASE ~ IsHeld(c)
    <3>1. calls' = (calls \ {c}) \cup {} /\ {} \in SUBSET {d}
      BY <2>2, <2>4
    <3> QED  BY <1>3, <2>1, <3>1, Zenon
  <2> QED  BY <2>3, <2>4
<1>5. CASE StartCall(c) /\ available[c.orc]
  <2> DEFINE d == [c EXCEPT !.phase = "running"]
  <2>1. d \in Calls /\ d.orc = c.orc /\ d.gen = c.gen /\ d.kind = c.kind /\ d.phase = "running"
    BY <1>2 DEF Calls
  <2>2. calls' = (calls \ {c}) \cup {d}
    BY <1>5 DEF StartCall
  <2> HIDE DEF d
  <2> QED  BY <1>3, <2>1, <2>2
<1>6. CASE StartCall(c) /\ ~ available[c.orc]
  BY <1>4, <1>6 DEF StartCall, Results
<1>7. CASE FinishCall(c)
  BY <1>4, <1>7 DEF FinishCall, Results
<1> QED  BY <1>5, <1>6, <1>7

LEMMA ShutdownKeepsInv ==
    ASSUME OrchInv, Shutdown
    PROVE  OrchInv'
<1> USE DEF OrchInv
<1> DEFINE Cancelled(c) == [c EXCEPT !.phase = "cancelled", !.result = "omitted"]
<1>1. /\ UNCHANGED <<available, switches, rounds, preflighted, caller, pc, request, gen, todo,
                     expired, held, prop, vote, out, answer, decisions>>
      /\ closed' \in BOOLEAN
  BY DEF Shutdown, workerVars, callerVars, roundVars
<1>2. \A c \in calls : /\ c \in Calls
                       /\ Cancelled(c) \in Calls
                       /\ Cancelled(c).orc = c.orc /\ Cancelled(c).gen = c.gen
                       /\ Cancelled(c).kind = c.kind
  BY DEF OrchTypeOK, Results, Calls
<1>3. ASSUME NEW d \in calls'
      PROVE  \/ d \in calls /\ d.phase # "queued"
             \/ \E c \in calls : d = Cancelled(c) /\ c.phase = "queued" /\ IsHeld(c)
  BY DEF Shutdown
<1> HIDE DEF Cancelled
<1>4. calls' \subseteq Calls
  BY <1>2, <1>3
<1>5. ASSUME NEW d \in calls'
      PROVE  \E c \in calls : /\ d.orc = c.orc /\ d.gen = c.gen /\ d.kind = c.kind
                              /\ d.phase \in {"done", "cancelled"} => IsHeld(c)
  BY <1>2, <1>3 DEF CallsOwned
<1>6. \A d, e \in calls' : d.orc = e.orc => d = e
  BY <1>2, <1>3 DEF CallsOwned
<1> QED  BY <1>1, <1>4, <1>5, <1>6, MovesKeepInv

\* The orchestrator that is asked leaves the list, and stands nowhere yet.
LEMMA HeadIsAsked ==
    ASSUME OrchInv, todo # <<>>
    PROVE  /\ Head(todo) \in Orchestrators
           /\ Tail(todo) \in Seq(Orchestrators)
           /\ held[Head(todo)] = "none" /\ vote[Head(todo)] = None
           /\ \A c \in Classes : Head(todo) \notin out[c]
           /\ \A i, j \in DOMAIN Tail(todo) : Tail(todo)[i] = Tail(todo)[j] => i = j
           /\ \A i \in DOMAIN Tail(todo) : /\ Tail(todo)[i] # Head(todo)
                                           /\ Tail(todo)[i] \in Orchestrators
                                           /\ held[Tail(todo)[i]] = "none"
                                           /\ vote[Tail(todo)[i]] = None
                                           /\ \A c \in Classes : Tail(todo)[i] \notin out[c]
<1> DEFINE n == Len(todo)
           t == Tail(todo)
<1>1. todo \in Seq(Orchestrators) /\ n \in Nat /\ n # 0 /\ DOMAIN todo = 1 .. n
  BY DEF OrchInv, OrchTypeOK
<1>2. /\ Head(todo) = todo[1] /\ 1 \in DOMAIN todo
      /\ t \in Seq(Orchestrators) /\ DOMAIN t = 1 .. n - 1
      /\ \A i \in 1 .. n - 1 : t[i] = todo[i + 1]
  BY <1>1
<1>3. \A i \in 1 .. n - 1 : i + 1 \in DOMAIN todo /\ i + 1 # 1
  BY <1>1
<1> HIDE DEF t, n
<1>4. \A i \in DOMAIN todo : /\ todo[i] \in Orchestrators
                             /\ held[todo[i]] = "none" /\ vote[todo[i]] = None
                             /\ \A c \in Classes : todo[i] \notin out[c]
  BY <1>1 DEF OrchInv, AskedOnce
<1>5. \A i, j \in DOMAIN todo : todo[i] = todo[j] => i = j
  BY DEF OrchInv, AskedOnce
<1>6. ASSUME NEW i \in DOMAIN t, NEW j \in DOMAIN t, t[i] = t[j]
      PROVE  i = j
  <2>1. i + 1 = j + 1
    BY <1>2, <1>3, <1>5, <1>6
  <2> QED  BY <1>1, <1>2, <2>1
<1>7. \A i \in DOMAIN t : t[i] # Head(todo)
  BY <1>2, <1>3, <1>5
<1> QED  BY <1>2, <1>3, <1>4, <1>6, <1>7 DEF t

\* One turn of the loop that asks: the orchestrator is unavailable, busy with
\* an earlier call, or gets its call.
LEMMA SubmitKeepsInv ==
    ASSUME OrchInv, NEW o \in Orchestrators, SubmitProposal(o)
    PROVE  OrchInv'
<1> USE DEF OrchInv, workerVars, callerVars
<1>1. /\ pc = "submit" /\ todo # <<>> /\ o = Head(todo) /\ InRound
      /\ UNCHANGED <<available, switches, gen, closed, answer, decisions>>
  BY DEF SubmitProposal, InRound
<1>2. /\ held[o] = "none" /\ vote[o] = None /\ \A c \in Classes : o \notin out[c]
      /\ Tail(todo) \in Seq(Orchestrators)
  BY <1>1, HeadIsAsked
<1>3. gen \in 1 .. MaxAdjudications
  BY <1>1 DEF RoundIsOpen, OrchTypeOK
<1>4. CASE /\ out' = [out EXCEPT !["unavailable"] = @ \cup {o}]
           /\ todo' = Tail(todo)
           /\ UNCHANGED <<callerVars, calls, rounds, pc, held, request, expired, prop, vote>>
  <2>1. /\ out' \in [Classes -> SUBSET Orchestrators]
        /\ out'["unavailable"] = out["unavailable"] \cup {o}
        /\ \A c \in Classes \ {"unavailable"} : out'[c] = out[c]
    BY <1>4 DEF OrchTypeOK, Classes
  <2>2. OrchTypeOK'
    BY <1>1, <1>2, <1>4, <2>1 DEF OrchTypeOK
  <2>3. RoundIsOpen' /\ AnswersAreOfThisRound' /\ OneStandingEach' /\ RoundsAreDistinct'
        /\ LoopEnded'
    BY <1>1, <1>4 DEF RoundIsOpen, AnswersAreOfThisRound, OneStandingEach, RoundsAreDistinct,
                      InRound, LoopEnded
  <2>4. CallsOwned'
    BY <1>1, <1>4 DEF CallsOwned, IsHeld, InRound
  <2>5. AskedOnce'
    BY <1>1, <1>4, <2>1, HeadIsAsked DEF AskedOnce
  <2>6. OneStandingSoFar'
    <3>1. "unavailable" \in Classes /\ {"timed_out", "delayed"} \subseteq Classes \ {"unavailable"}
      BY DEF Classes
    <3>2. \A c, d \in Classes : c # d => out'[c] \cap out'[d] = {}
      BY <1>2, <2>1, <3>1 DEF OneStandingSoFar
    <3>3. \A p \in Orchestrators : \A c \in Classes :
              p \in out'[c] => held'[p] = "none" /\ vote'[p] = None
      BY <1>2, <1>4, <2>1 DEF OneStandingSoFar
    <3> QED  BY <1>4, <2>1, <3>1, <3>2, <3>3 DEF OneStandingSoFar
  <2> QED  BY <2>2, <2>3, <2>4, <2>5, <2>6
<1>5. CASE /\ pc' = "lookup"
           /\ todo' = Tail(todo)
           /\ held' = [held EXCEPT ![o] = "lookup"]
           /\ UNCHANGED <<callerVars, calls, rounds, out, request, expired, prop, vote>>
           /\ Busy(o)
  <2>1. /\ held' \in [Orchestrators -> {"none", "lookup", "busy", "proposal", "vote"}]
        /\ held'[o] = "lookup"
        /\ \A p \in Orchestrators : p # o => held'[p] = held[p]
    BY <1>5 DEF OrchTypeOK
  <2>2. OrchTypeOK'
    BY <1>1, <1>2, <1>5, <2>1 DEF OrchTypeOK
  <2>3. RoundIsOpen' /\ AnswersAreOfThisRound' /\ OneStandingEach' /\ RoundsAreDistinct'
        /\ LoopEnded'
    BY <1>1, <1>5 DEF RoundIsOpen, AnswersAreOfThisRound, OneStandingEach, RoundsAreDistinct,
                      InRound, LoopEnded
  <2>4. CallsOwned'
    <3>1. \A c \in calls : c.orc \in Orchestrators /\ c.kind \in {"proposal", "vote"}
      BY DEF OrchTypeOK, Calls
    <3>2. \A c \in calls : c.orc = o => ~ IsHeld(c) /\ c.gen # gen
      BY <1>1, <1>2, <3>1 DEF CallsOwned, IsHeld
    <3>3. \A c \in calls : c.orc # o => (IsHeld(c)' <=> IsHeld(c))
      BY <1>1, <2>1, <3>1 DEF IsHeld
    <3> QED  BY <1>1, <1>5, <2>1, <3>1, <3>2, <3>3 DEF CallsOwned
  <2>5. AskedOnce'
    BY <1>1, <1>5, <2>1, HeadIsAsked DEF AskedOnce
  <2>6. OneStandingSoFar'
    BY <1>2, <1>5, <2>1 DEF OneStandingSoFar
  <2> QED  BY <2>2, <2>3, <2>4, <2>5, <2>6
<1>6. CASE Abort
  <2>1. OneStandingEach'
    BY <1>1 DEF OneStandingEach
  <2>2. decisions' \in Seq({r.id : r \in Requests}) /\ Len(decisions') <= DecisionLimit
    BY <1>1 DEF OrchTypeOK
  <2> QED  BY <1>1, <1>6, <2>1, <2>2, LeaveKeepsInv DEF Abort
<1>7. CASE /\ ~ Busy(o)
           /\ calls' = calls \cup {NewCall(o, gen, "proposal")}
           /\ held' = [held EXCEPT ![o] = "proposal"]
           /\ todo' = Tail(todo)
           /\ UNCHANGED <<callerVars, rounds, pc, out, request, expired, prop, vote>>
  <2>1. /\ held' \in [Orchestrators -> {"none", "lookup", "busy", "proposal", "vote"}]
        /\ held'[o] = "proposal"
        /\ \A p \in Orchestrators : p # o => held'[p] = held[p]
    BY <1>7 DEF OrchTypeOK
  <2> DEFINE new == NewCall(o, gen, "proposal")
  <2>2. new \in Calls /\ new.orc = o /\ new.gen = gen /\ new.kind = "proposal"
                      /\ new.phase = "queued"
    BY <1>3, NewCallIsCall
  <2>3. calls' = calls \cup {new}
    BY <1>7
  <2> HIDE DEF new
  <2>4. OrchTypeOK'
    BY <1>1, <1>2, <1>7, <2>1, <2>2, <2>3 DEF OrchTypeOK
  <2>5. RoundIsOpen' /\ AnswersAreOfThisRound' /\ OneStandingEach' /\ RoundsAreDistinct'
        /\ LoopEnded'
    BY <1>1, <1>7 DEF RoundIsOpen, AnswersAreOfThisRound, OneStandingEach, RoundsAreDistinct,
                      InRound, LoopEnded
  <2>6. CallsOwned'
    <3>1. \A c \in calls : c.orc \in Orchestrators /\ c.phase \in {"queued", "running", "done", "cancelled"}
      BY DEF OrchTypeOK, Calls
    <3>2. \A c \in calls : c.orc # o
      BY <1>2, <1>7, <3>1 DEF CallsOwned, IsHeld, Busy
    <3>3. \A c \in calls : IsHeld(c)' <=> IsHeld(c)
      BY <1>1, <2>1, <3>1, <3>2 DEF IsHeld
    <3>4. \A c, d \in calls' : c.orc = d.orc => c = d
      BY <2>2, <2>3, <3>2 DEF CallsOwned
    <3>5. gen <= gen
      BY <1>3
    <3> QED  BY <1>1, <1>7, <2>1, <2>2, <2>3, <3>1, <3>2, <3>3, <3>4, <3>5
             DEF CallsOwned, InRound
  <2>7. AskedOnce'
    BY <1>1, <1>7, <2>1, HeadIsAsked DEF AskedOnce
  <2>8. OneStandingSoFar'
    BY <1>2, <1>7, <2>1 DEF OneStandingSoFar
  <2> QED  BY <2>4, <2>5, <2>6, <2>7, <2>8
<1> QED  BY <1>4, <1>5, <1>6, <1>7 DEF SubmitProposal

LEMMA LookUpKeepsInv ==
    ASSUME OrchInv, LookUp
    PROVE  OrchInv'
<1> USE DEF OrchInv, workerVars, callerVars, roundVars, LookUp
<1>1. /\ held' \in [Orchestrators -> {"none", "lookup", "busy", "proposal", "vote"}]
      /\ \A p \in Orchestrators : /\ held[p] # "lookup" => held'[p] = held[p]
                                  /\ held[p] = "lookup" => held'[p] \in {"busy", "none"}
  BY DEF OrchTypeOK
<1>2. OrchTypeOK'
  BY <1>1 DEF OrchTypeOK
<1>3. RoundIsOpen' /\ AnswersAreOfThisRound' /\ OneStandingEach' /\ RoundsAreDistinct'
      /\ LoopEnded'
  BY DEF RoundIsOpen, AnswersAreOfThisRound, OneStandingEach, RoundsAreDistinct, InRound, LoopEnded
<1>4. CallsOwned'
  <2>1. \A c \in calls : c.orc \in Orchestrators /\ c.kind \in {"proposal", "vote"}
    BY DEF OrchTypeOK, Calls
  <2>2. \A c \in calls : held[c.orc] = "lookup" => ~ IsHeld(c) /\ c.gen # gen
    BY <2>1 DEF CallsOwned, IsHeld, InRound
  <2>3. \A c \in calls : held[c.orc] # "lookup" => (IsHeld(c)' <=> IsHeld(c))
    BY <1>1, <2>1 DEF IsHeld
  <2> QED  BY <1>1, <2>1, <2>2, <2>3 DEF CallsOwned, InRound
<1>5. AskedOnce'
  <2>1. \A i \in DOMAIN todo : todo[i] \in Orchestrators
    BY DEF OrchTypeOK
  <2> QED  BY <1>1, <2>1 DEF AskedOnce
<1>6. OneStandingSoFar'
  BY <1>1 DEF OneStandingSoFar
<1> QED  BY <1>2, <1>3, <1>4, <1>5, <1>6

\* What consuming finished calls of this round does, orchestrator by
\* orchestrator: their standing changes, that of no other.
LEMMA ConsumeKeeps ==
    ASSUME OrchInv, InRound, InRound',
           NEW ds \in SUBSET HeldDone, \A c \in ds : held[c.orc] # "busy",
           NEW freed \in SUBSET Orchestrators,
           \A o \in freed : /\ held[o] = "busy"
                            /\ \E c \in calls : c.orc = o /\ c.phase = "done",
           ConsumePhases(ds, freed),
           UNCHANGED <<available, switches, rounds, preflighted, caller, request, gen, todo,
                       expired, closed, answer, decisions>>,
           pc' \in {"check", "classify"}
    PROVE  /\ LoopEnded' => OrchInv'
           /\ \A r \in Routes : Approvers(r) \subseteq Approvers(r)'
           /\ Waiting = {} => Waiting' = {}
<1> USE DEF OrchInv
<1> DEFINE P == Pop(ds, "proposal")
           V == Pop(ds, "vote")
           D == {c.orc : c \in ds}
           accepted == Of(P, Routes)
           asked == IF closed THEN {} ELSE accepted
           approved == Of(V, {"approved"})
<1>1. \A c \in ds : /\ c \in calls /\ c \in Calls /\ c.orc \in Orchestrators
                    /\ held[c.orc] \in {"proposal", "vote"}
                    /\ c.gen = gen /\ c.kind = held[c.orc]
  BY DEF HeldDone, IsHeld, OrchTypeOK, Calls
<1>2. \A c, d \in calls : c.orc = d.orc => c = d
  BY DEF CallsOwned
<1>3. /\ asked \subseteq accepted
      /\ \A o \in accepted : \E c \in ds : c.orc = o /\ held[o] = "proposal" /\ c.result \in Routes
      /\ \A o \in approved : \E c \in ds : c.orc = o /\ held[o] = "vote" /\ c.result = "approved"
  BY DEF Pop, Of
<1>4. /\ D \subseteq Orchestrators /\ accepted \subseteq D /\ approved \subseteq D
      /\ \A o \in D : held[o] \in {"proposal", "vote"}
      /\ freed \cap D = {} /\ accepted \cap approved = {}
  BY <1>1, <1>3
<1>5. \A o \in Orchestrators :
          /\ o \in asked => held'[o] = "vote"
          /\ o \in freed => held'[o] = "proposal"
          /\ o \in D \ asked => held'[o] = "none"
          /\ o \notin D \cup freed => held'[o] = held[o]
  <2>1. held' = [o \in Orchestrators |->
                    CASE o \in asked -> "vote"
                      [] o \in freed -> "proposal"
                      [] o \in D \ asked -> "none"
                      [] OTHER -> held[o]]
    BY DEF ConsumePhases
  <2> HIDE DEF asked, D
  <2>2. asked \subseteq D
    BY <1>3, <1>4
  <2> QED  BY <1>4, <2>1, <2>2
<1>6. \A o \in Orchestrators :
          /\ o \in accepted => prop'[o] \in ds /\ prop'[o].orc = o
          /\ o \notin accepted => prop'[o] = prop[o]
          /\ o \in approved => vote'[o] \in ds /\ vote'[o].orc = o
          /\ o \notin approved => vote'[o] = vote[o]
  <2>1. /\ prop' = Taken(P, Routes, prop)
        /\ vote' = Taken(V, {"approved"}, vote)
    BY DEF ConsumePhases
  <2>2. /\ P \subseteq ds /\ V \subseteq ds
        /\ \A o \in accepted : \E c \in P : c.orc = o
        /\ \A o \in approved : \E c \in V : c.orc = o
    BY DEF Pop, Of
  <2> HIDE DEF P, V
  <2>3. \A o \in Orchestrators :
           /\ prop'[o] = IF o \in accepted THEN CHOOSE c \in P : c.orc = o ELSE prop[o]
           /\ vote'[o] = IF o \in approved THEN CHOOSE c \in V : c.orc = o ELSE vote[o]
    BY <2>1 DEF Taken
  <2> HIDE DEF accepted, approved
  <2>4. \A o \in accepted : (CHOOSE c \in P : c.orc = o) \in P /\ (CHOOSE c \in P : c.orc = o).orc = o
    BY <2>2
  <2>5. \A o \in approved : (CHOOSE c \in V : c.orc = o) \in V /\ (CHOOSE c \in V : c.orc = o).orc = o
    BY <2>2
  <2> QED  BY <2>2, <2>3, <2>4, <2>5
<1>7. /\ out' \in [Classes -> SUBSET Orchestrators]
      /\ out'["rejected"] = out["rejected"] \cup Of(ds, {"rejected"})
      /\ out'["unavailable"] = out["unavailable"] \cup Of(ds, {"unavailable"})
      /\ out'["omitted"] = (out["omitted"] \cup Of(ds, {"omitted"})) \cup (accepted \ asked)
      /\ out'["timed_out"] = out["timed_out"] /\ out'["delayed"] = out["delayed"]
  <2>1. \A S : Of(ds, S) \subseteq Orchestrators
    BY <1>1 DEF Of
  <2>2. out \in [Classes -> SUBSET Orchestrators]
    BY DEF OrchTypeOK
  <2>3. out' = [out EXCEPT !["rejected"] = @ \cup Of(ds, {"rejected"}),
                           !["unavailable"] = @ \cup Of(ds, {"unavailable"}),
                           !["omitted"] = @ \cup Of(ds, {"omitted"}) \cup (accepted \ asked)]
    BY DEF ConsumePhases
  <2> HIDE DEF accepted, asked
  <2> DEFINE A == Of(ds, {"rejected"})
             B == Of(ds, {"unavailable"})
             C == Of(ds, {"omitted"}) \cup (accepted \ asked)
  <2>4. A \subseteq Orchestrators /\ B \subseteq Orchestrators /\ C \subseteq Orchestrators
    BY <1>4, <2>1
  <2>5. out' = [out EXCEPT !["rejected"] = @ \cup A, !["unavailable"] = @ \cup B,
                           !["omitted"] = @ \cup C]
    BY <2>2, <2>3 DEF Classes
  <2>6. C = Of(ds, {"omitted"}) \cup (accepted \ asked)
    OBVIOUS
  <2> HIDE DEF A, B, C
  <2>7. /\ out'["rejected"] = out["rejected"] \cup A
        /\ out'["unavailable"] = out["unavailable"] \cup B
        /\ out'["omitted"] = out["omitted"] \cup C
        /\ out'["timed_out"] = out["timed_out"] /\ out'["delayed"] = out["delayed"]
    BY <2>2, <2>5 DEF Classes
  <2>8. out' \in [Classes -> SUBSET Orchestrators]
    BY <2>2, <2>4, <2>5 DEF Classes
  <2> QED  BY <2>6, <2>7, <2>8 DEF A, B
<1>8. calls' = {c \in calls : ~ (c \in ds \/ (c.orc \in freed /\ c.phase = "done"))}
                  \cup {NewCall(o, gen, "vote") : o \in asked}
                  \cup {NewCall(o, gen, "proposal") : o \in freed}
  BY DEF ConsumePhases
<1> HIDE DEF P, V, D, accepted, asked, approved
<1>9. gen \in 1 .. MaxAdjudications
  BY DEF RoundIsOpen, OrchTypeOK
<1>10. /\ \A o \in D : /\ vote[o] = None
                       /\ \A c \in Classes : o \notin out[c]
       /\ \A o \in freed : /\ vote[o] = None
                           /\ \A c \in Classes : o \notin out[c]
  BY <1>4 DEF OneStandingSoFar
\* Nobody gets two standings from his one call.
<1>11. /\ Of(ds, {"rejected"}) \subseteq D \ asked
       /\ Of(ds, {"unavailable"}) \subseteq D \ asked
       /\ Of(ds, {"omitted"}) \cup (accepted \ asked) \subseteq D \ asked
       /\ Of(ds, {"rejected"}) \cap Of(ds, {"unavailable"}) = {}
       /\ Of(ds, {"rejected"}) \cap (Of(ds, {"omitted"}) \cup (accepted \ asked)) = {}
       /\ Of(ds, {"unavailable"}) \cap (Of(ds, {"omitted"}) \cup (accepted \ asked)) = {}
       /\ approved \cap (Of(ds, {"rejected"}) \cup Of(ds, {"unavailable"})
                            \cup Of(ds, {"omitted"}) \cup accepted) = {}
  <2>1. \A S : \A o \in Of(ds, S) : o \in D /\ \E c \in ds : c.orc = o /\ c.result \in S
    BY DEF Of, D
  <2>2. \A c, d \in ds : c.orc = d.orc => c.result = d.result
    BY <1>1, <1>2
  <2>3. Routes \cap {"approved", "rejected", "omitted", "unavailable"} = {}
    BY OrchestrationAssumption
  <2>4. \A S, T : S \cap T = {} => Of(ds, S) \cap Of(ds, T) = {}
    BY <2>1, <2>2
  <2>5. accepted \subseteq Of(ds, Routes) /\ approved \subseteq Of(ds, {"approved"})
    BY <1>3 DEF Of
  <2>6. /\ Of(ds, {"rejected"}) \cap accepted = {}
        /\ Of(ds, {"unavailable"}) \cap accepted = {}
        /\ Of(ds, {"omitted"}) \cap accepted = {}
    <3>1. /\ {"rejected"} \cap Routes = {} /\ {"unavailable"} \cap Routes = {}
          /\ {"omitted"} \cap Routes = {}
      BY <2>3
    <3> QED  BY <2>4, <2>5, <3>1
  <2>7. /\ Of(ds, {"rejected"}) \cap Of(ds, {"unavailable"}) = {}
        /\ Of(ds, {"rejected"}) \cap Of(ds, {"omitted"}) = {}
        /\ Of(ds, {"unavailable"}) \cap Of(ds, {"omitted"}) = {}
    <3>1. /\ {"rejected"} \cap {"unavailable"} = {} /\ {"rejected"} \cap {"omitted"} = {}
          /\ {"unavailable"} \cap {"omitted"} = {}
      OBVIOUS
    <3> QED  BY <2>4, <3>1
  <2>8. /\ approved \cap Of(ds, {"rejected"}) = {} /\ approved \cap Of(ds, {"unavailable"}) = {}
        /\ approved \cap Of(ds, {"omitted"}) = {}
    <3>1. /\ {"approved"} \cap {"unavailable"} = {} /\ {"approved"} \cap {"omitted"} = {}
          /\ {"approved"} \cap {"rejected"} = {}
      OBVIOUS
    <3> QED  BY <2>4, <2>5, <3>1
  <2> QED  BY <1>3, <1>4, <2>1, <2>6, <2>7, <2>8
<1>12. OrchTypeOK'
  <2>1. held' \in [Orchestrators -> {"none", "lookup", "busy", "proposal", "vote"}]
    <3>1. \A o \in Orchestrators : held'[o] \in {"none", "lookup", "busy", "proposal", "vote"}
      BY <1>3, <1>4, <1>5 DEF OrchTypeOK
    <3>2. held' = [o \in Orchestrators |-> held'[o]]
      BY DEF ConsumePhases
    <3> QED  BY <3>1, <3>2
  <2>2. \A o \in Orchestrators : prop'[o] \in Calls \cup {None} /\ vote'[o] \in Calls \cup {None}
    BY <1>1, <1>6 DEF OrchTypeOK
  <2>3. /\ prop' \in [Orchestrators -> Calls \cup {None}]
        /\ vote' \in [Orchestrators -> Calls \cup {None}]
    <3>1. prop' = [o \in Orchestrators |-> prop'[o]] /\ vote' = [o \in Orchestrators |-> vote'[o]]
      BY DEF ConsumePhases, Taken
    <3> QED  BY <2>2, <3>1
  <2>4. calls' \subseteq Calls
    <3>1. \A o \in asked \cup freed : o \in Orchestrators
      BY <1>3, <1>4
    <3>2. calls \subseteq Calls
      BY DEF OrchTypeOK
    <3> QED  BY <1>8, <1>9, <3>1, <3>2, NewCallIsCall
  <2> QED  BY <1>7, <2>1, <2>3, <2>4 DEF OrchTypeOK
<1>13. RoundIsOpen' /\ RoundsAreDistinct' /\ OneStandingEach'
  BY DEF RoundIsOpen, RoundsAreDistinct, OneStandingEach, InRound
<1>14. AskedOnce'
  <2>1. \A i \in DOMAIN todo : /\ todo[i] \in Orchestrators /\ held[todo[i]] = "none"
                               /\ todo[i] \notin D \cup freed
    BY <1>4 DEF AskedOnce, OrchTypeOK
  <2>2. \A c \in Classes : out'[c] \subseteq out[c] \cup D
    BY <1>7, <1>11 DEF Classes
  <2> QED  BY <1>4, <1>5, <1>6, <2>1, <2>2 DEF AskedOnce
<1>15. AnswersAreOfThisRound'
  BY <1>1, <1>3, <1>4, <1>6, NoneIsNoCall DEF AnswersAreOfThisRound, OneStandingSoFar
<1>16. OneStandingSoFar'
  <2>1. \A o \in Orchestrators : vote'[o] # None => held'[o] = "none"
    BY <1>3, <1>4, <1>5, <1>6, <1>10 DEF OneStandingSoFar
  <2>2. \A o \in Orchestrators : held'[o] = "vote" => prop'[o] # None
    BY <1>1, <1>3, <1>4, <1>5, <1>6, NoneIsNoCall DEF OneStandingSoFar
  <2>3. ASSUME NEW o \in Orchestrators, NEW c \in Classes, o \in out'[c]
        PROVE  held'[o] = "none" /\ vote'[o] = None
    <3>1. CASE o \in out[c]
      BY <1>4, <1>5, <1>6, <1>10, <3>1 DEF OneStandingSoFar
    <3>2. CASE o \notin out[c]
      <4>1. o \in D \ asked /\ o \notin approved
        BY <1>7, <1>11, <2>3, <3>2 DEF Classes
      <4> QED  BY <1>5, <1>6, <1>10, <4>1
    <3> QED  BY <3>1, <3>2
  <2>4. ASSUME NEW c \in Classes, NEW d \in Classes, c # d
        PROVE  out'[c] \cap out'[d] = {}
    <3>1. out[c] \cap out[d] = {} /\ out[c] \cap D = {} /\ out[d] \cap D = {}
      BY <1>10, <2>4 DEF OneStandingSoFar
    <3> DEFINE A == Of(ds, {"rejected"})
               B == Of(ds, {"unavailable"})
               C == Of(ds, {"omitted"}) \cup (accepted \ asked)
               New == [x \in Classes |-> IF x = "rejected" THEN A ELSE IF x = "unavailable" THEN B
                                         ELSE IF x = "omitted" THEN C ELSE {}]
    <3>2. A \cap B = {} /\ A \cap C = {} /\ B \cap C = {}
          /\ A \subseteq D /\ B \subseteq D /\ C \subseteq D
      BY <1>11
    <3>3. /\ out'["rejected"] = out["rejected"] \cup A
          /\ out'["unavailable"] = out["unavailable"] \cup B
          /\ out'["omitted"] = out["omitted"] \cup C
      BY <1>7
    <3> HIDE DEF A, B, C
    <3>4. \A x \in Classes : out'[x] = out[x] \cup New[x] /\ New[x] \subseteq D
      BY <1>7, <3>2, <3>3 DEF Classes
    <3>5. New[c] \cap New[d] = {}
      BY <2>4, <3>2
    <3> HIDE DEF New
    <3> QED  BY <3>1, <3>4, <3>5
  <2> QED  BY <1>7, <2>1, <2>2, <2>3, <2>4 DEF OneStandingSoFar
<1>17. CallsOwned'
  <2> DEFINE kept == {c \in calls : ~ (c \in ds \/ (c.orc \in freed /\ c.phase = "done"))}
  <2>1. \A c \in kept : /\ c \in calls /\ c \in Calls /\ c.orc \in Orchestrators
                        /\ c.orc \notin D \cup freed
    BY <1>1, <1>2 DEF D, OrchTypeOK, Calls
  <2>2. \A c \in calls' : \/ c \in kept
                          \/ c = NewCall(c.orc, gen, "vote") /\ c.orc \in asked
                          \/ c = NewCall(c.orc, gen, "proposal") /\ c.orc \in freed
    BY <1>8 DEF NewCall
  <2>3. asked \subseteq D /\ D \subseteq Orchestrators /\ D \cap freed = {}
    BY <1>3, <1>4
  <2> HIDE DEF kept
  <2>4. \A c, d \in calls' : c.orc = d.orc => c = d
    BY <1>2, <2>1, <2>2, <2>3
  <2>5. ASSUME NEW c \in kept
        PROVE  /\ c.gen <= gen'
               /\ c.phase \in {"done", "cancelled"} => IsHeld(c)'
               /\ InRound' /\ c.gen = gen' => held'[c.orc] = c.kind
    <3>1. held'[c.orc] = held[c.orc]
      BY <1>5, <2>1
    <3>2. IsHeld(c)' <=> IsHeld(c)
      BY <3>1 DEF IsHeld
    <3> QED  BY <2>1, <3>1, <3>2 DEF CallsOwned
  <2>6. ASSUME NEW c \in calls', c \notin kept
        PROVE  /\ c.gen <= gen'
               /\ c.phase = "queued"
               /\ held'[c.orc] = c.kind
    <3>1. gen <= gen
      BY <1>9
    <3>2. \/ c.orc \in asked /\ c.gen = gen /\ c.kind = "vote" /\ c.phase = "queued"
          \/ c.orc \in freed /\ c.gen = gen /\ c.kind = "proposal" /\ c.phase = "queued"
      BY <2>2, <2>6 DEF NewCall
    <3> QED  BY <1>5, <2>3, <3>1, <3>2
  <2> QED  BY <2>4, <2>5, <2>6 DEF CallsOwned
<1>18. ASSUME NEW r \in Routes PROVE Approvers(r) \subseteq Approvers(r)'
  BY <1>4, <1>6, <1>10 DEF Approvers, Voters
<1>19. Waiting = {} => Waiting' = {}
  BY <1>4, <1>5 DEF Waiting
<1> QED  BY <1>12, <1>13, <1>14, <1>15, <1>16, <1>17, <1>18, <1>19

LEMMA WaitReturnsKeepsInv ==
    ASSUME OrchInv, WaitReturns
    PROVE  OrchInv'
<1> DEFINE busy == Pop(HeldNotified, "busy")
           freed == {c.orc : c \in busy}
           mine == HeldNotified \ busy
<1>1. /\ InRound
      /\ UNCHANGED <<available, switches, gen, closed, answer, decisions>>
  BY DEF WaitReturns, InRound, workerVars
<1>2. CASE Abort
  <2>1. OneStandingEach'
    BY <1>1 DEF OneStandingEach, OrchInv
  <2>2. decisions' \in Seq({r.id : r \in Requests}) /\ Len(decisions') <= DecisionLimit
    BY <1>1 DEF OrchTypeOK, OrchInv
  <2> QED  BY <1>1, <1>2, <2>1, <2>2, LeaveKeepsInv DEF Abort
<1>3. CASE /\ ConsumePhases(mine, freed)
           /\ pc' = "check"
           /\ UNCHANGED <<callerVars, rounds, todo, request, expired>>
  <2>1. mine \in SUBSET HeldDone /\ \A c \in mine : held[c.orc] # "busy"
    BY DEF HeldNotified, Pop
  <2>2. freed \in SUBSET Orchestrators
    BY DEF Pop, HeldNotified, HeldDone, OrchInv, OrchTypeOK, Calls
  <2>3. \A o \in freed : held[o] = "busy" /\ \E c \in calls : c.orc = o /\ c.phase = "done"
    BY DEF Pop, HeldNotified, HeldDone
  <2>4. InRound' /\ LoopEnded'
    BY <1>3 DEF InRound, LoopEnded
  <2> HIDE DEF mine, freed
  <2> QED  BY <1>1, <1>3, <2>1, <2>2, <2>3, <2>4, ConsumeKeeps DEF callerVars
<1> QED  BY <1>2, <1>3 DEF WaitReturns

\* More approvers keep a quorum a quorum.
LEMMA QuorumsStay ==
    ASSUME \A r \in Routes : Approvers(r) \subseteq Approvers(r)'
    PROVE  QuorumRoutes # {} => QuorumRoutes' # {}
<1> SUFFICES ASSUME NEW r \in QuorumRoutes PROVE r \in QuorumRoutes'
  OBVIOUS
<1> DEFINE A == Approvers(r)
           B == Approvers(r)'
<1>1. r \in Routes /\ Cardinality(A) >= RequiredQuorum
  BY DEF QuorumRoutes
<1>2. A \subseteq B /\ IsFiniteSet(B)
  <2>1. B \subseteq Orchestrators
    BY DEF Approvers, Voters
  <2> QED  BY <1>1, <2>1, OrchestratorsFinite, FS_Subset
<1>3. Cardinality(A) <= Cardinality(B) /\ Cardinality(A) \in Nat /\ Cardinality(B) \in Nat
  BY <1>2, FS_Subset, FS_CardinalityType
<1>4. Cardinality(B) >= RequiredQuorum
  <2> HIDE DEF A, B
  <2> QED  BY <1>1, <1>3, OrchestrationAssumption
<1> QED  BY <1>1, <1>4 DEF QuorumRoutes

LEMMA CollectKeepsInv ==
    ASSUME OrchInv, Collect
    PROVE  OrchInv'
<1> DEFINE ds == HeldDone \ Pop(HeldDone, "busy")
<1>1. /\ InRound /\ InRound' /\ pc = "collect" /\ pc' = "classify"
      /\ UNCHANGED <<available, switches, rounds, preflighted, caller, request, gen, todo, expired,
                     closed, answer, decisions>>
      /\ ConsumePhases(ds, {})
  BY DEF Collect, InRound, workerVars, callerVars
<1>2. ds \in SUBSET HeldDone /\ \A c \in ds : held[c.orc] # "busy"
  BY DEF Pop
<1> HIDE DEF ds
<1>3. /\ LoopEnded' => OrchInv'
      /\ \A r \in Routes : Approvers(r) \subseteq Approvers(r)'
      /\ Waiting = {} => Waiting' = {}
  BY <1>1, <1>2, ConsumeKeeps
<1>4. QuorumRoutes # {} => QuorumRoutes' # {}
  BY <1>3, QuorumsStay
<1>5. LoopEnded'
  BY <1>1, <1>3, <1>4 DEF LoopEnded, OrchInv
<1> QED  BY <1>3, <1>5

\* The decision says one thing of everyone: whoever is still waited for has
\* not voted and is in no class.
LEMMA ClassifyKeepsInv ==
    ASSUME OrchInv, Classify
    PROVE  OrchInv'
<1> USE DEF OrchInv
<1>1. /\ InRound /\ pc = "classify"
      /\ UNCHANGED <<available, switches, gen, closed, todo>>
      /\ LeaveRound
  BY DEF Classify, InRound, workerVars
<1>2. calls' \subseteq {c \in calls : c.phase \in {"queued", "running"}}
  BY DEF Classify
<1>3. decisions' \in Seq({r.id : r \in Requests}) /\ Len(decisions') <= DecisionLimit
  <2> DEFINE Id == {r.id : r \in Requests}
             longer == Append(decisions, request.id)
  <2>1. decisions \in Seq(Id) /\ Len(decisions) <= DecisionLimit /\ request.id \in Id
    BY <1>1 DEF OrchTypeOK, RoundIsOpen
  <2>2. \/ decisions' = decisions
        \/ decisions' = IF Len(longer) > DecisionLimit THEN Tail(longer) ELSE longer
    BY DEF Classify, Recorded
  <2> HIDE DEF Id
  <2>3. longer \in Seq(Id) /\ Len(longer) = Len(decisions) + 1 /\ Len(decisions) \in Nat
    BY <2>1
  <2> HIDE DEF longer
  <2>4. DecisionLimit \in Nat
    BY OrchestrationAssumption
  <2>5. decisions' \in Seq(Id) /\ Len(decisions') <= DecisionLimit
    BY <2>1, <2>2, <2>3, <2>4
  <2> QED  BY <2>5 DEF Id
<1>4. OneStandingEach'
  <2> DEFINE final == [out EXCEPT ![ClassOfPending] = @ \cup Waiting]
  <2>1. /\ ClassOfPending \in {"timed_out", "delayed"}
        /\ ClassOfPending = "delayed" => ~ expired
    BY DEF ClassOfPending
  <2>2. /\ final[ClassOfPending] = Waiting
        /\ \A c \in Classes : c # ClassOfPending => final[c] = out[c]
    BY <2>1 DEF OneStandingSoFar, OrchTypeOK, Classes
  <2>3. answer' = Decision(final)
    BY DEF Classify
  <2> HIDE DEF final
  <2>4. /\ answer'.voters = Voters /\ answer'.out = final
        /\ QuorumRoutes # {} => answer'.outcome = "DECIDED"
    BY <2>3 DEF Decision
  <2>5. /\ Voters \cap Waiting = {}
        /\ \A c \in Classes : out[c] \cap Voters = {} /\ out[c] \cap Waiting = {}
    BY DEF OneStandingSoFar, Voters, Waiting, OrchTypeOK
  <2>6. \A c, d \in Classes : c # d => final[c] \cap final[d] = {}
    BY <2>1, <2>2, <2>5 DEF OneStandingSoFar
  <2>7. \A c \in Classes : Voters \cap final[c] = {}
    BY <2>2, <2>5
  <2>8. final["delayed"] # {} => QuorumRoutes # {}
    <3>1. "delayed" \in Classes
      BY DEF Classes
    <3> QED  BY <1>1, <2>1, <2>2, <3>1 DEF LoopEnded, OneStandingSoFar
  <2> QED  BY <2>4, <2>6, <2>7, <2>8 DEF OneStandingEach
<1> QED  BY <1>1, <1>2, <1>3, <1>4, LeaveKeepsInv

-----------------------------------------------------------------------------
LEMMA OrchNextKeepsInv == OrchInv /\ [OrchNext]_orchVars => OrchInv'
<1> SUFFICES ASSUME OrchInv, [OrchNext]_orchVars PROVE OrchInv'
  OBVIOUS
<1>1. CASE UNCHANGED orchVars
  <2>1. closed' \in BOOLEAN /\ calls' = calls /\ calls \subseteq Calls
    BY <1>1 DEF orchVars, OrchInv, OrchTypeOK
  <2>2. UNCHANGED <<available, switches, rounds, preflighted, caller, pc, request, gen, todo,
                    expired, held, prop, vote, out, answer, decisions>>
    BY <1>1 DEF orchVars
  <2> QED  BY <2>1, <2>2, MovesKeepInv DEF OrchInv, CallsOwned
<1>2. CASE OrchNext
  <2>1. ASSUME NEW r \in ServiceRequests, Preflight(r) PROVE OrchInv'
    BY <2>1, PreflightKeepsInv DEF Requests
  <2>2. CASE ServiceBegins \/ \E r \in Dispatches : WorkflowBegins(r)
    BY <2>2, BeginsKeepInv
  <2>3. ASSUME NEW o \in Orchestrators, SubmitProposal(o) PROVE OrchInv'
    BY <2>3, SubmitKeepsInv
  <2>4. CASE LookUp
    BY <2>4, LookUpKeepsInv
  <2>5. CASE CheckLoop \/ WaitTimesOut \/ Expire \/ \E o \in Switchable : SetAvailable(o)
    BY <2>5, QuietStepsKeepInv
  <2>6. CASE WaitReturns
    BY <2>6, WaitReturnsKeepsInv
  <2>7. CASE Collect
    BY <2>7, CollectKeepsInv
  <2>8. CASE Classify
    BY <2>8, ClassifyKeepsInv
  <2>9. ASSUME NEW c \in calls, StartCall(c) \/ FinishCall(c) PROVE OrchInv'
    BY <2>9, WorkersKeepInv
  <2>10. CASE Shutdown
    BY <2>10, ShutdownKeepsInv
  <2> QED  BY <1>2, <2>1, <2>2, <2>3, <2>4, <2>5, <2>6, <2>7, <2>8, <2>9, <2>10
           DEF OrchNext, Adjudicate
<1> QED  BY <1>1, <1>2

\* Every adjudication keeps the types and the inductive invariant.
THEOREM OrchestrationInvariant == OrchSpec => []OrchInv
<1>1. OrchInit => OrchInv
  BY OrchInitInv
<1>2. OrchInv /\ [OrchNext]_orchVars => OrchInv'
  BY OrchNextKeepsInv
<1> QED  BY <1>1, <1>2, PTL DEF OrchSpec

\* A proposal or a vote that coordinator.py accepts came from a call that the
\* running adjudication made itself, however long earlier calls hang.
THEOREM AnswersBelongToTheRound == OrchSpec => []AnswersAreOfThisRound
<1>1. OrchInv => AnswersAreOfThisRound
  BY DEF OrchInv
<1> QED  BY <1>1, OrchestrationInvariant, PTL

\* The one-worker executors of coordinator.py never have a second call queued
\* behind an unfinished one.
THEOREM OneCallPerExecutor == OrchSpec => []OneUnfinishedCall
<1>1. ASSUME OrchInv, NEW o \in Orchestrators
      PROVE  Cardinality({c \in calls : c.orc = o /\ c.phase \in {"queued", "running"}}) <= 1
  <2> DEFINE S == {c \in calls : c.orc = o /\ c.phase \in {"queued", "running"}}
  <2>1. \A c, d \in S : c = d
    BY <1>1 DEF OrchInv, CallsOwned
  <2> HIDE DEF S
  <2>2. ASSUME NEW c \in S PROVE Cardinality(S) <= 1
    <3>1. S = {c}
      BY <2>1
    <3>2. Cardinality({c}) = 1
      BY FS_Singleton
    <3> QED  BY <3>1, <3>2
  <2>3. Cardinality({}) <= 1
    BY FS_EmptySet
  <2>4. Cardinality(S) <= 1
    BY <2>2, <2>3
  <2> QED  BY <2>4 DEF S
<1>2. ASSUME OrchInv PROVE OneUnfinishedCall
  BY <1>1, <1>2, Zenon DEF OneUnfinishedCall
<1> QED  BY <1>2, OrchestrationInvariant, PTL

\* A decision of build_decision says one thing of an orchestrator, and calls
\* it delayed only where a quorum decided without it.
THEOREM DecisionsAreConsistent == OrchSpec => []OneStandingEach
<1>1. OrchInv => OneStandingEach
  BY DEF OrchInv
<1> QED  BY <1>1, OrchestrationInvariant, PTL

\* A terminal round that the history of coordinator.py retains stays terminal,
\* and preflight lets no second decision through under its identity.
THEOREM DecidedRoundsStayDecided == OrchSpec => RetainedRoundsStayDecided
<1> DEFINE Step == \A i \in 1 .. Len(rounds) : rounds[i].terminal =>
                      /\ answer = None /\ answer' # None => request.id # rounds[i].id
                      /\ \A j \in 1 .. Len(rounds') :
                            rounds'[j].id = rounds[i].id => rounds'[j].terminal
<1>1. ASSUME OrchInv, [OrchNext]_orchVars
      PROVE  [Step]_orchVars
  <2> USE DEF OrchInv
  <2>1. ASSUME answer' = answer \/ answer' = None, rounds' = rounds PROVE Step
    BY <1>1, <2>1 DEF RoundsAreDistinct
  <2>2. ASSUME NEW r \in Requests, Register(r), answer' = answer \/ answer' = None PROVE Step
    <3>1. \A i \in 1 .. Len(rounds'), j \in 1 .. Len(rounds) :
              rounds'[i].id = rounds[j].id => rounds'[i] = rounds[j]
      BY <1>1, <2>2, RegisterKeeps
    <3> QED  BY <2>2, <3>1
  <2>8. ASSUME NEW r \in ServiceRequests, Preflight(r) PROVE Step
    BY <2>2, <2>8 DEF Preflight, roundVars, Requests
  <2>9. ASSUME NEW r \in Dispatches, WorkflowBegins(r) PROVE Step
    BY <2>2, <2>9 DEF WorkflowBegins, Begin, Requests
  <2>10. CASE ServiceBegins
    <3>1. preflighted \in Requests
      BY <1>1, <2>10 DEF ServiceBegins, OrchTypeOK
    <3> QED  BY <2>1, <2>2, <2>10, <3>1 DEF ServiceBegins, Begin, roundVars
  <2>3. ASSUME InRound, LeaveRound PROVE Step
    <3>1. /\ Len(rounds') = Len(rounds) /\ Len(rounds) \in Nat
          /\ \A i \in 1 .. Len(rounds) :
                rounds'[i] = [rounds[i] EXCEPT !.terminal = @ \/ rounds[i].id = request.id]
      BY <1>1, <2>3 DEF LeaveRound, CloseRound, OrchTypeOK
    <3>2. \A i \in 1 .. Len(rounds) : /\ rounds'[i].id = rounds[i].id
                                      /\ rounds[i].terminal => rounds'[i].terminal
      <4>1. \A i \in 1 .. Len(rounds) : rounds[i] \in Rounds
        BY <1>1 DEF OrchTypeOK
      <4> QED  BY <3>1, <4>1 DEF Rounds
    <3>3. \A i \in 1 .. Len(rounds) : rounds[i].terminal => rounds[i].id # request.id
      BY <1>1, <2>3 DEF RoundsAreDistinct
    <3> QED  BY <1>1, <3>1, <3>2, <3>3 DEF RoundsAreDistinct
  <2>4. ASSUME NEW o \in Orchestrators, SubmitProposal(o) PROVE Step
    BY <2>1, <2>3, <2>4 DEF SubmitProposal, Abort, InRound
  <2>5. CASE WaitReturns
    BY <2>1, <2>3, <2>5 DEF WaitReturns, Abort, InRound
  <2>6. CASE Classify
    BY <2>3, <2>6 DEF Classify, InRound
  <2>7. CASE LookUp \/ CheckLoop \/ WaitTimesOut \/ Collect \/ Expire \/ Shutdown
             \/ (\E o \in Switchable : SetAvailable(o))
             \/ (\E c \in calls : StartCall(c) \/ FinishCall(c))
    <3>1. rounds' = rounds /\ (answer' = answer \/ answer' = None)
      BY <2>7 DEF LookUp, CheckLoop, WaitTimesOut, Collect, Expire, Shutdown,
                  SetAvailable, StartCall, FinishCall, roundVars
    <3> QED  BY <2>1, <3>1
  <2> HIDE DEF Step
  <2> QED  BY <1>1, <2>4, <2>5, <2>6, <2>7, <2>8, <2>9, <2>10 DEF OrchNext, Adjudicate
<1>2. OrchInv /\ [OrchNext]_orchVars => [Step]_orchVars
  BY <1>1
<1> QED  BY <1>2, OrchestrationInvariant, PTL DEF OrchSpec, RetainedRoundsStayDecided

-----------------------------------------------------------------------------
(* The length of the history. *)

\* An open round is the active one or the one the service waits with; so when
\* the workflow begins and the service does not wait, its round is new and the
\* history is within its limit, and one preflight beside it adds one round.
HistoryInv ==
    /\ Len(rounds) <= HistoryLimit + 1
    /\ caller = "workflow" /\ preflighted = None => Len(rounds) <= HistoryLimit
    /\ ~ closed => \A i \in 1 .. Len(rounds) : rounds[i].terminal
                      \/ (InRound /\ rounds[i].id = request.id)
                      \/ (/\ preflighted # None
                          /\ rounds[i].id = preflighted.id
                          /\ rounds[i].digest = preflighted.digest)

\* Steps that neither register nor close a round.
LEMMA HistoryUntouched ==
    ASSUME HistoryInv, UNCHANGED <<rounds, preflighted, caller, request>>,
           InRound' <=> InRound, closed => closed'
    PROVE  HistoryInv'
BY DEF HistoryInv

\* The round that is closed becomes terminal.
LEMMA LeaveKeepsHistory ==
    ASSUME OrchInv, HistoryInv, LeaveRound, closed' = closed
    PROVE  HistoryInv'
<1>1. /\ rounds \in Seq(Rounds) /\ Len(rounds) \in Nat
      /\ caller' = "nobody" /\ preflighted' = preflighted
  BY DEF OrchInv, OrchTypeOK, LeaveRound
<1>2. /\ Len(rounds') = Len(rounds)
      /\ \A i \in 1 .. Len(rounds) :
            rounds'[i] = [rounds[i] EXCEPT !.terminal = @ \/ rounds[i].id = request.id]
  BY <1>1 DEF LeaveRound, CloseRound
<1>3. \A i \in 1 .. Len(rounds) :
          /\ rounds'[i].id = rounds[i].id /\ rounds'[i].digest = rounds[i].digest
          /\ rounds[i].terminal \/ rounds[i].id = request.id => rounds'[i].terminal
  <2>1. \A i \in 1 .. Len(rounds) : rounds[i] \in Rounds
    BY <1>1
  <2> QED  BY <1>2, <2>1 DEF Rounds
<1> QED  BY <1>1, <1>2, <1>3 DEF HistoryInv

\* preflight adds a round to a history within its limit, or replaces the oldest.
LEMMA PreflightKeepsHistory ==
    ASSUME OrchInv, HistoryInv, NEW r \in Requests, Preflight(r)
    PROVE  HistoryInv'
<1>1. /\ Register(r) /\ Reusable(r)
      /\ preflighted = None /\ caller # "service" /\ preflighted' = r /\ r # None
      /\ UNCHANGED <<caller, pc, request, closed>>
      /\ (InRound' <=> InRound)
      /\ HistoryLimit \in Nat /\ Len(rounds) \in Nat
  BY OrchestrationAssumption DEF Preflight, RequestLockFree, InRound, OrchInv, OrchTypeOK
<1>2. /\ \A i \in 1 .. Len(rounds') :
            \/ \E j \in 1 .. Len(rounds) : rounds'[i] = rounds[j]
            \/ rounds'[i] = [id |-> r.id, digest |-> r.digest, terminal |-> FALSE]
      /\ rounds' \in Seq(Rounds)
      /\ Len(rounds') <= Len(rounds) + 1
      /\ Known(r.id) # {} => rounds' = rounds
      /\ Known(r.id) = {} /\ ~ InRound => Len(rounds') <= HistoryLimit
  BY <1>1, RegisterKeeps DEF OrchInv
<1>3. Len(rounds') <= HistoryLimit + 1
  <2>1. Len(rounds') \in Nat
    BY <1>2
  <2>2. CASE InRound
    <3>1. caller = "workflow"
      BY <1>1, <2>2 DEF OrchInv, OrchTypeOK, RoundIsOpen
    <3>2. Len(rounds) <= HistoryLimit
      BY <1>1, <3>1 DEF HistoryInv
    <3> QED  BY <1>1, <1>2, <2>1, <3>2
  <2>3. CASE ~ InRound
    BY <1>1, <1>2, <2>1, <2>3 DEF HistoryInv
  <2> QED  BY <2>2, <2>3
<1>4. ASSUME ~ closed, NEW i \in 1 .. Len(rounds'), ~ rounds'[i].terminal
      PROVE  \/ InRound /\ rounds'[i].id = request.id
             \/ rounds'[i].id = r.id /\ rounds'[i].digest = r.digest
  <2>1. CASE rounds'[i] = [id |-> r.id, digest |-> r.digest, terminal |-> FALSE]
    BY <2>1
  <2>2. ASSUME NEW j \in 1 .. Len(rounds), rounds'[i] = rounds[j]
        PROVE  InRound /\ rounds'[i].id = request.id
    BY <1>1, <1>4, <2>2 DEF HistoryInv
  <2> QED  BY <1>2, <2>1, <2>2
<1> QED  BY <1>1, <1>3, <1>4 DEF HistoryInv

\* A round begins with the history within its limit, unless the service waits.
LEMMA BeginKeepsHistory ==
    ASSUME OrchInv, HistoryInv, NEW r \in Requests, NEW who \in {"service", "workflow"},
           Begin(r, who), pc = "idle",
           \/ who = "workflow" /\ preflighted' = preflighted
           \/ who = "service" /\ preflighted' = None /\ preflighted = r
    PROVE  HistoryInv'
<1>1. /\ Register(r) /\ Reusable(r) /\ ~ closed /\ closed' = closed
      /\ caller' = who /\ request' = r /\ ~ InRound /\ InRound'
      /\ HistoryLimit \in Nat /\ Len(rounds) \in Nat /\ r # None
  BY OrchestrationAssumption DEF Begin, InRound, OrchInv, OrchTypeOK
<1>2. /\ \A i \in 1 .. Len(rounds') :
            \/ \E j \in 1 .. Len(rounds) : rounds'[i] = rounds[j]
            \/ rounds'[i] = [id |-> r.id, digest |-> r.digest, terminal |-> FALSE]
      /\ rounds' \in Seq(Rounds)
      /\ Known(r.id) # {} => rounds' = rounds
      /\ Known(r.id) = {} => Len(rounds') <= HistoryLimit
  BY <1>1, RegisterKeeps DEF OrchInv
<1>3. Len(rounds') <= HistoryLimit + 1
  <2>1. Len(rounds') \in Nat
    BY <1>2
  <2> QED  BY <1>1, <1>2, <2>1 DEF HistoryInv
<1>4. ASSUME who = "workflow", preflighted' = None PROVE Len(rounds') <= HistoryLimit
  <2>1. preflighted = None
    BY <1>4
  <2>2. \A i \in 1 .. Len(rounds) : rounds[i].terminal
    BY <1>1, <2>1 DEF HistoryInv
  <2>3. Known(r.id) = {}
    BY <1>1, <2>2 DEF Reusable, Known
  <2> QED  BY <1>2, <2>3
<1>5. ASSUME NEW i \in 1 .. Len(rounds'), ~ rounds'[i].terminal
      PROVE  \/ rounds'[i].id = request'.id
             \/ /\ preflighted' # None /\ rounds'[i].id = preflighted'.id
                /\ rounds'[i].digest = preflighted'.digest
  <2>1. CASE rounds'[i] = [id |-> r.id, digest |-> r.digest, terminal |-> FALSE]
    BY <1>1, <2>1
  <2>2. ASSUME NEW j \in 1 .. Len(rounds), rounds'[i] = rounds[j]
        PROVE  \/ rounds'[i].id = request'.id
               \/ /\ preflighted' # None /\ rounds'[i].id = preflighted'.id
                  /\ rounds'[i].digest = preflighted'.digest
    <3>1. /\ preflighted # None
          /\ rounds'[i].id = preflighted.id /\ rounds'[i].digest = preflighted.digest
      BY <1>1, <1>5, <2>2 DEF HistoryInv
    <3> QED  BY <1>1, <3>1
  <2> QED  BY <1>2, <2>1, <2>2
<1> QED  BY <1>1, <1>3, <1>4, <1>5 DEF HistoryInv

\* A request that the coordinator refuses leaves no open round behind.
LEMMA RefusalKeepsHistory ==
    ASSUME OrchInv, HistoryInv, preflighted \in Requests, pc = "idle",
           closed \/ ~ Reusable(preflighted),
           UNCHANGED <<rounds, caller, pc, request, closed>>, preflighted' = None
    PROVE  HistoryInv'
<1>1. caller = "nobody" /\ ~ InRound /\ ~ InRound'
  BY DEF OrchInv, RoundIsOpen, InRound
<1>2. ASSUME ~ closed, NEW i \in 1 .. Len(rounds) PROVE rounds[i].terminal
  <2> SUFFICES ASSUME ~ rounds[i].terminal PROVE FALSE
    OBVIOUS
  <2>1. rounds[i].id = preflighted.id /\ rounds[i].digest = preflighted.digest
    BY <1>1, <1>2 DEF HistoryInv
  <2>2. \A j \in 1 .. Len(rounds) : rounds[j].id = preflighted.id => j = i
    BY <2>1 DEF OrchInv, RoundsAreDistinct
  <2>3. Reusable(preflighted)
    BY <2>1, <2>2 DEF Reusable, Known
  <2> QED  BY <1>2, <2>3
<1> QED  BY <1>1, <1>2 DEF HistoryInv

LEMMA OrchNextKeepsHistory == OrchInv /\ HistoryInv /\ [OrchNext]_orchVars => HistoryInv'
<1> SUFFICES ASSUME OrchInv, HistoryInv, [OrchNext]_orchVars PROVE HistoryInv'
  OBVIOUS
<1> USE DEF workerVars, callerVars
<1>1. CASE UNCHANGED orchVars
  BY <1>1, HistoryUntouched DEF orchVars, InRound
<1>2. ASSUME NEW r \in ServiceRequests, Preflight(r) PROVE HistoryInv'
  BY <1>2, PreflightKeepsHistory DEF Requests
<1>3. ASSUME NEW r \in Dispatches, WorkflowBegins(r) PROVE HistoryInv'
  BY <1>3, BeginKeepsHistory DEF WorkflowBegins, Requests
<1>4. CASE ServiceBegins
  <2>1. preflighted \in Requests /\ preflighted' = None /\ pc = "idle"
    BY <1>4 DEF ServiceBegins, OrchInv, OrchTypeOK
  <2>2. CASE Begin(preflighted, "service")
    BY <2>1, <2>2, BeginKeepsHistory
  <2>3. CASE /\ closed \/ ~ Reusable(preflighted)
             /\ UNCHANGED <<rounds, caller, pc, request, closed>>
    BY <2>1, <2>3, RefusalKeepsHistory
  <2> QED  BY <1>4, <2>2, <2>3 DEF ServiceBegins
<1>5. ASSUME NEW o \in Orchestrators, SubmitProposal(o) PROVE HistoryInv'
  BY <1>5, HistoryUntouched, LeaveKeepsHistory DEF SubmitProposal, Abort, InRound
<1>6. CASE WaitReturns
  BY <1>6, HistoryUntouched, LeaveKeepsHistory DEF WaitReturns, Abort, InRound
<1>7. CASE Classify
  BY <1>7, LeaveKeepsHistory DEF Classify
<1>8. CASE LookUp \/ CheckLoop \/ WaitTimesOut \/ Collect \/ Expire \/ Shutdown
           \/ (\E o \in Switchable : SetAvailable(o))
           \/ (\E c \in calls : StartCall(c) \/ FinishCall(c))
  <2>1. UNCHANGED <<rounds, preflighted, caller, request>> /\ (InRound' <=> InRound)
    BY <1>8 DEF LookUp, CheckLoop, WaitTimesOut, Collect, Expire, Shutdown, SetAvailable,
                StartCall, FinishCall, InRound
  <2>2. closed' = closed \/ closed' = TRUE
    BY <1>8 DEF LookUp, CheckLoop, WaitTimesOut, Collect, Expire, Shutdown, SetAvailable,
                StartCall, FinishCall
  <2> QED  BY <2>1, <2>2, HistoryUntouched
<1> QED  BY <1>1, <1>2, <1>3, <1>4, <1>5, <1>6, <1>7, <1>8 DEF OrchNext, Adjudicate

\* The round that is being adjudicated stays in _rounds of coordinator.py,
\* with the content it was registered with, whatever preflight registers and
\* drops beside it.
THEOREM ActiveRoundStaysKnown == OrchSpec => []ActiveRoundIsKept
<1>1. OrchInv => ActiveRoundIsKept
  BY DEF OrchInv, RoundsAreDistinct, ActiveRoundIsKept, InRound
<1> QED  BY <1>1, OrchestrationInvariant, PTL

\* _rounds of coordinator.py is longer than round_history_limit by one round
\* at most, though its loop stops at an active round.
THEOREM HistoryStaysBounded == OrchSpec => []HistoryBounded
<1>1. OrchInit => HistoryInv
  <2>1. 0 <= HistoryLimit /\ 0 <= HistoryLimit + 1
    BY OrchestrationAssumption
  <2>2. Len(<<>>) = 0 /\ 1 .. 0 = {}
    OBVIOUS
  <2> QED  BY <2>1, <2>2 DEF OrchInit, HistoryInv
<1>2. OrchInv /\ HistoryInv /\ [OrchNext]_orchVars => HistoryInv'
  BY OrchNextKeepsHistory
<1>3. HistoryInv => HistoryBounded
  BY DEF HistoryInv, HistoryBounded
<1> QED  BY <1>1, <1>2, <1>3, OrchestrationInvariant, PTL DEF OrchSpec
=============================================================================
