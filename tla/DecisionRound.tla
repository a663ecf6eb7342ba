--------------------------- MODULE DecisionRound ----------------------------
(***************************************************************************)
(* One adjudication round: DecisionRound and BoundedReplayCache of         *)
(* orchestration/coordinator.py, MessageVerifier of authentication.py.     *)
(*                                                                         *)
(* The round is handed signed proposals and votes, in any order, repeated, *)
(* altered, bound to another round or from a stranger, and decides for a   *)
(* proposal once RequiredQuorum senders have approved it.                  *)
(*                                                                         *)
(* A message is its content; two messages with the same content have the   *)
(* same message_hash.  A proposal's digest stands for the route it names;  *)
(* the four fields that bind a message to its request (request id,         *)
(* version, round id, request digest) are one field, round.                *)
(***************************************************************************)
EXTENDS Naturals, Sequences, FiniteSets

CONSTANTS
    Orchestrators,    \* ORCHESTRATOR_IDS
    Strangers,        \* other values of orchestrator_id
    Routes,           \* the candidate routes of the request
    OtherRoutes,      \* routes that are no candidates
    Rounds,           \* identities of rounds
    MessageIds,       \* values of message_id
    VoteValues,       \* APPROVE, REJECT, ABSTAIN
    RequiredQuorum,   \* REQUIRED_QUORUM
    CacheLimit,       \* replay_cache_limit
    NoDigest,         \* no quorum yet
    NoDecision        \* no decision built yet

\* OrchestrationDecisionV1
Decisions == [outcome : {"DECIDED", "TIMED_OUT", "INSUFFICIENT_RESPONSES", "NO_QUORUM"},
              route : Routes \cup {NoDigest},
              supporters : SUBSET Orchestrators,
              disagreeing : SUBSET Orchestrators]

\* Two of three: two sets of RequiredQuorum orchestrators have one in common.
ASSUME OrchestratorsAssumption ==
    /\ IsFiniteSet(Orchestrators)
    /\ RequiredQuorum \in Nat
    /\ Cardinality(Orchestrators) < 2 * RequiredQuorum
ASSUME SentinelsAssumption ==
    /\ NoDigest \notin Routes \cup OtherRoutes
    /\ NoDecision \notin Decisions
    /\ Orchestrators \cap Strangers = {}
    /\ Routes \cap OtherRoutes = {}
    /\ VoteValues \subseteq {"APPROVE", "REJECT", "ABSTAIN"}
    /\ CacheLimit \in Nat \ {0}

VARIABLES
    round,      \* the identity of this round
    proposals,  \* accepted proposals
    votes,      \* effective votes
    quorum,     \* quorum_digest
    terminal,   \* the round takes no more messages
    decision,   \* what build_decision returned
    cache       \* the replay cache, least recently used first; outlives rounds

roundVars == <<round, proposals, votes, quorum, terminal, decision, cache>>

\* authentic: hash and HMAC tag were made with the sender's key;
\* consistent: proposal_digest is the digest of the route.
Proposals == [sender : Orchestrators \cup Strangers, authentic : BOOLEAN,
              round : Rounds, id : MessageIds,
              route : Routes \cup OtherRoutes, consistent : BOOLEAN]
Votes == [sender : Orchestrators \cup Strangers, authentic : BOOLEAN,
          round : Rounds, id : MessageIds,
          digest : Routes \cup OtherRoutes, vote : VoteValues]

RoundInit ==
    /\ round \in Rounds
    /\ proposals = {}
    /\ votes = {}
    /\ quorum = NoDigest
    /\ terminal = FALSE
    /\ decision = NoDecision
    /\ cache = <<>>

-----------------------------------------------------------------------------
(* BoundedReplayCache. *)

Entries(m) == {i \in 1 .. Len(cache) : cache[i].sender = m.sender /\ cache[i].id = m.id}

\* observe: what the cache answers ...
Observed(m) ==
    IF Entries(m) = {} THEN "NEW"
    ELSE IF \E i \in Entries(m) : cache[i] = m THEN "DUPLICATE" ELSE "CONFLICT"

\* ... and what it holds afterwards: a known identity moves to the end with
\* its first content, a new one may push out the least recently used.
Remember(m) ==
    cache' = IF Entries(m) # {}
             THEN LET i == CHOOSE i \in Entries(m) : TRUE
                  IN  Append(SubSeq(cache, 1, i - 1) \o SubSeq(cache, i + 1, Len(cache)),
                             cache[i])
             ELSE LET longer == Append(cache, m)
                  IN  IF Len(longer) > CacheLimit THEN Tail(longer) ELSE longer

-----------------------------------------------------------------------------
(* Messages. *)

\* Mutant: the authentication tag is not verified.
AdmissibleUnsigned(m) ==
    ~ terminal /\ m.sender \in Orchestrators /\ m.round = round

\* The round is open, the sender known, the message authentic and bound to
\* this request and round.
Admissible(m) ==
    ~ terminal /\ m.sender \in Orchestrators /\ m.authentic /\ m.round = round

\* accept_proposal up to the replay cache: a candidate route and its digest.
ProposalValid(m) == Admissible(m) /\ m.route \in Routes /\ m.consistent

\* accept_vote up to the replay cache: the vote is for an accepted proposal.
VoteValid(m) == Admissible(m) /\ \E p \in proposals : p.route = m.digest

\* Mutant: a sender's later vote takes the place of its earlier one.
FirstOfSenderAlways(accepted, m) == TRUE

\* The sender has nothing in the round yet.
FirstOfSender(accepted, m) == \A p \in accepted : p.sender # m.sender

ProposalAccepted(m) ==
    ProposalValid(m) /\ Observed(m) = "NEW" /\ FirstOfSender(proposals, m)
VoteAccepted(m) ==
    VoteValid(m) /\ Observed(m) = "NEW" /\ FirstOfSender(votes, m)

\* accept_proposal.  Rejections and duplicates leave only the cache changed,
\* and only if the message got that far.
AcceptProposal(m) ==
    /\ proposals' = IF ProposalAccepted(m)
                    THEN {p \in proposals : p.sender # m.sender} \cup {m}
                    ELSE proposals
    /\ IF ProposalValid(m) THEN Remember(m) ELSE UNCHANGED cache
    /\ UNCHANGED <<round, votes, quorum, terminal, decision>>

\* The senders whose votes in vs approve the digest d; votes are kept per
\* sender, so this is what the Counter counts.
Supporters(vs, d) == {v.sender : v \in {w \in vs : w.digest = d /\ w.vote = "APPROVE"}}
Voters(vs) == {v.sender : v \in vs}

\* Mutant: one approval less is enough.
HasQuorumOneLess(vs, d) == Cardinality(Supporters(vs, d)) + 1 >= RequiredQuorum
HasQuorum(vs, d) == Cardinality(Supporters(vs, d)) >= RequiredQuorum

\* accept_vote: store the vote, count the approvals, keep the first quorum.
AcceptVote(m) ==
    /\ votes' = IF VoteAccepted(m)
                THEN {v \in votes : v.sender # m.sender} \cup {m}
                ELSE votes
    /\ IF VoteAccepted(m) /\ quorum = NoDigest
       THEN \/ \E v \in votes' : HasQuorum(votes', v.digest) /\ quorum' = v.digest
            \/ (\A v \in votes' : ~ HasQuorum(votes', v.digest)) /\ UNCHANGED quorum
       ELSE UNCHANGED quorum
    /\ IF VoteValid(m) THEN Remember(m) ELSE UNCHANGED cache
    /\ UNCHANGED <<round, proposals, terminal, decision>>

\* close
Close ==
    /\ ~ terminal
    /\ terminal' = TRUE
    /\ UNCHANGED <<round, proposals, votes, quorum, decision, cache>>

\* The outcome when no quorum has formed.
Undecided(late) ==
    IF late THEN "TIMED_OUT"
    ELSE IF Cardinality(Voters(votes)) < RequiredQuorum THEN "INSUFFICIENT_RESPONSES"
    ELSE "NO_QUORUM"

\* Mutant: an approval of another proposal is no disagreement.
DisagreesIfRejecting(v) ==
    \/ v.vote # "APPROVE"
    \/ quorum = NoDigest /\ Cardinality(Voters(votes)) > 1

\* Without a quorum two voters count as disagreeing even if both approve.
Disagrees(v) ==
    \/ v.vote # "APPROVE"
    \/ quorum # NoDigest /\ v.digest # quorum
    \/ quorum = NoDigest /\ Cardinality(Voters(votes)) > 1

\* build_decision; late says that the coordinator has put someone into
\* timed_out.  The route is that of an accepted proposal with the digest.
BuildDecision(late) ==
    /\ decision = NoDecision
    /\ terminal' = TRUE
    /\ IF quorum # NoDigest
       THEN \E p \in proposals :
              /\ p.route = quorum
              /\ decision' = [outcome |-> "DECIDED", route |-> p.route,
                              supporters |-> Supporters(votes, quorum),
                              disagreeing |-> {v.sender : v \in {w \in votes : Disagrees(w)}}]
       ELSE decision' = [outcome |-> Undecided(late), route |-> NoDigest,
                         supporters |-> {},
                         disagreeing |-> {v.sender : v \in {w \in votes : Disagrees(w)}}]
    /\ UNCHANGED <<round, proposals, votes, quorum, cache>>

\* new_round: the coordinator starts another round with the same cache.  An
\* identity may come back, once the bounded round history has forgotten it.
NextRound ==
    /\ terminal
    /\ round' \in Rounds \ {round}
    /\ proposals' = {}
    /\ votes' = {}
    /\ quorum' = NoDigest
    /\ terminal' = FALSE
    /\ decision' = NoDecision
    /\ UNCHANGED cache

RoundNext ==
    \/ \E m \in Proposals : AcceptProposal(m)
    \/ \E m \in Votes : AcceptVote(m)
    \/ Close
    \/ \E late \in BOOLEAN : BuildDecision(late)
    \/ NextRound

RoundSpec == RoundInit /\ [][RoundNext]_roundVars

-----------------------------------------------------------------------------
(* Properties. *)

RoundTypeOK ==
    /\ round \in Rounds
    /\ proposals \subseteq Proposals
    /\ votes \subseteq Votes
    /\ quorum \in Routes \cup {NoDigest}
    /\ terminal \in BOOLEAN
    /\ decision \in Decisions \cup {NoDecision}
    /\ cache \in Seq(Proposals \cup Votes)

\* The orchestrators that signed an approval of route r for this very round.
Approvers(r) ==
    {o \in Orchestrators :
        \E v \in votes : /\ v.sender = o /\ v.digest = r /\ v.vote = "APPROVE"
                         /\ v.authentic /\ v.round = round}

\* Whatever is delivered, repeated, altered, replayed from another round or
\* pushed out of the cache: accept_vote's quorum stands for RequiredQuorum
\* distinct orchestrators, each with a signed approval of that proposal for
\* this round, and for a signed proposal of a candidate route.
QuorumIsAuthentic ==
    quorum # NoDigest =>
    /\ Cardinality(Approvers(quorum)) >= RequiredQuorum
    /\ quorum \in Routes
    /\ \E p \in proposals : p.authentic /\ p.round = round /\ p.route = quorum

\* No quorum is overlooked and no two can form: the approved proposal is the
\* only one whose approvals reach RequiredQuorum, in whatever order votes came.
QuorumIsTheOnlyOne ==
    \A r \in Routes : Cardinality(Approvers(r)) >= RequiredQuorum <=> quorum = r

\* build_decision reports what the round has seen: DECIDED exactly for a route
\* with RequiredQuorum signed approvals; then those who approved it support it
\* and every other voter disagrees.
DecisionMatchesVotes ==
    decision # NoDecision =>
    /\ \A r \in Routes :
          decision.route = r <=> Cardinality(Approvers(r)) >= RequiredQuorum
    /\ decision.outcome = "DECIDED" <=> decision.route # NoDigest
    /\ decision.outcome = "DECIDED" =>
          /\ decision.supporters = Approvers(decision.route)
          /\ decision.disagreeing = Voters(votes) \ decision.supporters

\* A quorum or a decision, once there, does not change, nobody's effective
\* proposal or vote is replaced or withdrawn, and a terminal round takes no
\* message: only the next round starts afresh.
RoundsOnlyGrow ==
    [][\/ terminal /\ round' # round
       \/ /\ round' = round
          /\ proposals \subseteq proposals' /\ votes \subseteq votes'
          /\ quorum # NoDigest => quorum' = quorum
          /\ decision # NoDecision => decision' = decision
          /\ terminal => proposals' = proposals /\ votes' = votes /\ quorum' = quorum
      ]_roundVars
=============================================================================
