------------------------ MODULE DecisionRoundProofs -------------------------
(***************************************************************************)
(* DecisionRound for any number of orchestrators of which two quorums      *)
(* share one, any routes, rounds, message identities and cache size.       *)
(***************************************************************************)
EXTENDS DecisionRound, FiniteSetTheorems, TLAPS

\* What accept_proposal lets through.
ProposalsChecked ==
    \A p \in proposals : /\ p.sender \in Orchestrators
                         /\ p.authentic /\ p.round = round /\ p.route \in Routes

\* What accept_vote lets through, once per sender.
VotesChecked ==
    /\ \A v \in votes : /\ v.sender \in Orchestrators
                        /\ v.authentic /\ v.round = round
                        /\ \E p \in proposals : p.route = v.digest
    /\ \A v, w \in votes : v.sender = w.sender => v = w

\* quorum_digest is the route with enough supporters.
QuorumCounted == \A r \in Routes : HasQuorum(votes, r) <=> quorum = r

\* A decision closes the round and says what DecisionMatchesVotes asks.
DecisionFinal == decision # NoDecision => terminal

\* The inductive invariant.
RoundInv ==
    /\ RoundTypeOK
    /\ ProposalsChecked
    /\ VotesChecked
    /\ QuorumCounted
    /\ DecisionFinal
    /\ DecisionMatchesVotes

-----------------------------------------------------------------------------
(* Counting. *)

\* Quorums of the known orchestrators are finite, not empty, and no two
\* disjoint sets of orchestrators are both quorums.
LEMMA QuorumsIntersect ==
    ASSUME NEW A \in SUBSET Orchestrators, NEW B \in SUBSET Orchestrators,
           Cardinality(A) >= RequiredQuorum, Cardinality(B) >= RequiredQuorum
    PROVE  A \cap B # {}
<1>1. /\ IsFiniteSet(A) /\ IsFiniteSet(B) /\ IsFiniteSet(A \cup B)
      /\ Cardinality(A \cup B) <= Cardinality(Orchestrators)
      /\ Cardinality(A) \in Nat /\ Cardinality(B) \in Nat
      /\ Cardinality(A \cup B) \in Nat /\ Cardinality(Orchestrators) \in Nat
  <2>1. A \cup B \in SUBSET Orchestrators
    OBVIOUS
  <2> QED  BY <2>1, FS_Subset, FS_CardinalityType, OrchestratorsAssumption
<1>2. SUFFICES ASSUME A \cap B = {} PROVE FALSE
  OBVIOUS
<1>3. Cardinality(A \cup B) = Cardinality(A) + Cardinality(B) - Cardinality(A \cap B)
  BY <1>1, FS_Union
<1>4. Cardinality(A \cup B) = Cardinality(A) + Cardinality(B)
  BY <1>1, <1>2, <1>3, FS_EmptySet
<1> QED  BY <1>1, <1>4, OrchestratorsAssumption

\* A quorum has a member.
LEMMA QuorumsNonempty ==
    ASSUME NEW A \in SUBSET Orchestrators, Cardinality(A) >= RequiredQuorum
    PROVE  A # {}
BY QuorumsIntersect

\* A set with a quorum inside has one.
LEMMA QuorumsGrow ==
    ASSUME NEW A \in SUBSET Orchestrators, NEW B \in SUBSET A,
           Cardinality(B) >= RequiredQuorum
    PROVE  Cardinality(A) >= RequiredQuorum
<1>1. IsFiniteSet(A)
  BY FS_Subset, OrchestratorsAssumption
<1>2. IsFiniteSet(B) /\ Cardinality(B) <= Cardinality(A)
  BY <1>1, FS_Subset
<1> QED  BY <1>1, <1>2, FS_CardinalityType, OrchestratorsAssumption

\* Those who signed an approval are those who are counted.
LEMMA ApproversAreSupporters ==
    ASSUME VotesChecked, NEW r
    PROVE  Approvers(r) = Supporters(votes, r)
BY DEF VotesChecked, Approvers, Supporters

\* The replay cache holds messages.
LEMMA RememberType ==
    ASSUME NEW m \in Proposals \cup Votes, cache \in Seq(Proposals \cup Votes),
           Remember(m) \/ UNCHANGED cache
    PROVE  cache' \in Seq(Proposals \cup Votes)
<1>1. CASE UNCHANGED cache
  BY <1>1
<1>2. CASE Remember(m) /\ Entries(m) # {}
  <2> DEFINE i == CHOOSE i \in Entries(m) : TRUE
             M == Proposals \cup Votes
  <2>1. i \in 1 .. Len(cache)
    BY <1>2 DEF Entries
  <2> HIDE DEF i, M
  <2>2. cache \in Seq(M) /\ Len(cache) \in Nat
    BY DEF M
  <2>3. /\ SubSeq(cache, 1, i - 1) \in Seq(M)
        /\ SubSeq(cache, i + 1, Len(cache)) \in Seq(M)
        /\ cache[i] \in M
    BY <2>1, <2>2
  <2>4. cache' = Append(SubSeq(cache, 1, i - 1) \o SubSeq(cache, i + 1, Len(cache)),
                        cache[i])
    BY <1>2 DEF Remember, i
  <2> QED  BY <2>3, <2>4 DEF M
<1>3. CASE Remember(m) /\ Entries(m) = {}
  <2> DEFINE M == Proposals \cup Votes
  <2>1. m \in M /\ cache \in Seq(M)
    OBVIOUS
  <2> HIDE DEF M
  <2>2. Append(cache, m) \in Seq(M) /\ Append(cache, m) # <<>>
    BY <2>1
  <2>3. Tail(Append(cache, m)) \in Seq(M)
    BY <2>2
  <2> QED  BY <1>3, <2>2, <2>3 DEF Remember, M
<1> QED  BY <1>1, <1>2, <1>3

-----------------------------------------------------------------------------
(* The steps. *)

LEMMA RoundInitInv == RoundInit => RoundInv
<1> SUFFICES ASSUME RoundInit PROVE RoundInv
  OBVIOUS
<1>1. cache \in Seq(Proposals \cup Votes)
  BY DEF RoundInit
<1>2. RoundTypeOK
  BY <1>1 DEF RoundInit, RoundTypeOK
<1>3. ProposalsChecked /\ VotesChecked /\ DecisionFinal /\ DecisionMatchesVotes
  BY DEF RoundInit, ProposalsChecked, VotesChecked, DecisionFinal, DecisionMatchesVotes
<1>4. QuorumCounted
  <2>1. \A r \in Routes : Supporters(votes, r) = {} /\ quorum # r
    BY SentinelsAssumption DEF RoundInit, Supporters
  <2> QED  BY <2>1, QuorumsNonempty DEF QuorumCounted, HasQuorum
<1> QED  BY <1>2, <1>3, <1>4 DEF RoundInv

\* accept_proposal: at most one more checked proposal.
LEMMA ProposalKeepsInv ==
    ASSUME RoundInv, NEW m \in Proposals, AcceptProposal(m)
    PROVE  RoundInv' /\ proposals \subseteq proposals'
                     /\ (terminal => proposals' = proposals)
<1>1. /\ proposals \subseteq proposals'
      /\ proposals' \subseteq proposals \cup {m}
      /\ m \notin proposals => m \notin proposals' \/ ProposalValid(m)
      /\ terminal => proposals' = proposals
  BY DEF AcceptProposal, ProposalAccepted, ProposalValid, Admissible, FirstOfSender
<1>2. UNCHANGED <<round, votes, quorum, terminal, decision>>
  BY DEF AcceptProposal
<1>3. cache' \in Seq(Proposals \cup Votes)
  BY RememberType DEF AcceptProposal, RoundInv, RoundTypeOK
<1>4. RoundTypeOK'
  BY <1>1, <1>2, <1>3 DEF RoundInv, RoundTypeOK
<1>5. ProposalsChecked'
  BY <1>1, <1>2 DEF RoundInv, ProposalsChecked, ProposalValid, Admissible
<1>6. VotesChecked'
  BY <1>1, <1>2 DEF RoundInv, VotesChecked
<1>7. QuorumCounted' /\ DecisionFinal' /\ DecisionMatchesVotes'
  BY <1>2 DEF RoundInv, QuorumCounted, HasQuorum, Supporters, DecisionFinal,
              DecisionMatchesVotes, Approvers, Voters
<1> QED  BY <1>1, <1>4, <1>5, <1>6, <1>7 DEF RoundInv

\* accept_vote: at most one more checked vote, and the count is right again.
LEMMA VoteKeepsInv ==
    ASSUME RoundInv, NEW m \in Votes, AcceptVote(m)
    PROVE  RoundInv' /\ votes \subseteq votes'
                     /\ (quorum # NoDigest => quorum' = quorum)
                     /\ (terminal => votes' = votes /\ quorum' = quorum)
<1> USE DEF RoundInv
<1>1. UNCHANGED <<round, proposals, terminal, decision>>
  BY DEF AcceptVote
<1>2. cache' \in Seq(Proposals \cup Votes)
  BY RememberType DEF AcceptVote, RoundTypeOK
<1>3. CASE ~ VoteAccepted(m)
  <2>1. UNCHANGED <<round, proposals, votes, quorum, terminal, decision>>
    BY <1>1, <1>3 DEF AcceptVote
  <2> QED
    BY <1>2, <2>1 DEF RoundTypeOK, ProposalsChecked, VotesChecked, QuorumCounted,
          HasQuorum, Supporters, DecisionFinal, DecisionMatchesVotes, Approvers, Voters
<1>4. CASE VoteAccepted(m)
  <2>1. /\ votes' = votes \cup {m}
        /\ ~ terminal /\ m.sender \in Orchestrators /\ m.authentic /\ m.round = round
        /\ \E p \in proposals : p.route = m.digest
        /\ \A v \in votes : v.sender # m.sender
    BY <1>4 DEF AcceptVote, VoteAccepted, VoteValid, Admissible, FirstOfSender
  <2>2. VotesChecked'
    BY <1>1, <2>1 DEF VotesChecked
  <2>3. \A v \in votes' : v.digest \in Routes
    BY <1>1, <2>2 DEF VotesChecked, ProposalsChecked
  <2>4. \A r : Supporters(votes, r) \subseteq Supporters(votes', r)
    BY <2>1 DEF Supporters
  <2>5. \A r : Supporters(votes', r) \subseteq Orchestrators
    BY <2>2 DEF VotesChecked, Supporters
  <2>6. \A r, q : HasQuorum(votes', r) /\ HasQuorum(votes', q) => r = q
    <3> SUFFICES ASSUME NEW r, NEW q, HasQuorum(votes', r), HasQuorum(votes', q)
                 PROVE  r = q
      OBVIOUS
    <3>1. Supporters(votes', r) \cap Supporters(votes', q) # {}
      BY <2>5, QuorumsIntersect DEF HasQuorum
    <3> QED  BY <2>2, <3>1 DEF Supporters, VotesChecked
  <2>7. \A r : HasQuorum(votes', r) => \E v \in votes' : v.digest = r
    <3> SUFFICES ASSUME NEW r, HasQuorum(votes', r) PROVE \E v \in votes' : v.digest = r
      OBVIOUS
    <3>1. Supporters(votes', r) # {}
      BY <2>5, QuorumsNonempty DEF HasQuorum
    <3> QED  BY <3>1 DEF Supporters
  <2>8. \A r : HasQuorum(votes, r) => HasQuorum(votes', r)
    <3> SUFFICES ASSUME NEW r, HasQuorum(votes, r) PROVE HasQuorum(votes', r)
      OBVIOUS
    <3> QED  BY <2>4, <2>5, QuorumsGrow DEF HasQuorum
  <2>9. (\A r \in Routes : HasQuorum(votes', r) <=> quorum' = r)
        /\ quorum' \in Routes \cup {NoDigest}
        /\ (quorum # NoDigest => quorum' = quorum)
    <3>1. CASE quorum # NoDigest
      <4>1. quorum' = quorum /\ quorum \in Routes
        BY <1>4, <3>1 DEF AcceptVote, RoundTypeOK
      <4>2. HasQuorum(votes', quorum)
        BY <4>1, <2>8 DEF QuorumCounted
      <4> QED  BY <4>1, <4>2, <2>6
    <3>2. CASE quorum = NoDigest /\ \E v \in votes' : HasQuorum(votes', v.digest) /\ quorum' = v.digest
      BY <3>2, <2>3, <2>6
    <3>3. CASE quorum = NoDigest /\ (\A v \in votes' : ~ HasQuorum(votes', v.digest)) /\ quorum' = quorum
      BY <3>3, <2>7, SentinelsAssumption
    <3> QED  BY <1>4, <3>1, <3>2, <3>3 DEF AcceptVote
  <2>10. QuorumCounted'
    BY <2>9 DEF QuorumCounted, HasQuorum, Supporters
  <2>11. RoundTypeOK'
    BY <1>1, <1>2, <2>1, <2>9 DEF RoundTypeOK
  <2>12. ProposalsChecked' /\ DecisionFinal' /\ DecisionMatchesVotes'
    BY <1>1, <2>1 DEF ProposalsChecked, DecisionFinal, DecisionMatchesVotes
  <2> QED  BY <2>1, <2>2, <2>9, <2>10, <2>11, <2>12
<1> QED  BY <1>3, <1>4

\* build_decision: the decision says what the votes say.
LEMMA DecisionKeepsInv ==
    ASSUME RoundInv, NEW late \in BOOLEAN, BuildDecision(late)
    PROVE  RoundInv'
<1> USE DEF RoundInv
<1>1. UNCHANGED <<round, proposals, votes, quorum, cache>> /\ terminal' = TRUE
  BY DEF BuildDecision
<1>2. ProposalsChecked' /\ VotesChecked' /\ QuorumCounted' /\ DecisionFinal'
  BY <1>1 DEF ProposalsChecked, VotesChecked, QuorumCounted, HasQuorum, Supporters,
              DecisionFinal
<1> DEFINE D == {v.sender : v \in {w \in votes : Disagrees(w)}}
<1>3. D \in SUBSET Orchestrators /\ Supporters(votes, quorum) \in SUBSET Orchestrators
  BY DEF VotesChecked, Supporters
<1>4. CASE quorum # NoDigest
  <2>1. decision' = [outcome |-> "DECIDED", route |-> quorum,
                     supporters |-> Supporters(votes, quorum), disagreeing |-> D]
    BY <1>4 DEF BuildDecision
  <2>2. quorum \in Routes
    BY <1>4 DEF RoundTypeOK
  <2>3. D = Voters(votes) \ Supporters(votes, quorum)
    BY <1>4 DEF Disagrees, Voters, Supporters, VotesChecked
  <2> HIDE DEF D
  <2>4. RoundTypeOK'
    BY <1>1, <1>3, <2>1, <2>2 DEF RoundTypeOK, Decisions
  <2>5. DecisionMatchesVotes'
    <3>1. \A r : Approvers(r)' = Supporters(votes, r)
      BY <1>1, ApproversAreSupporters DEF Approvers
    <3>2. /\ decision'.route = quorum /\ decision'.outcome = "DECIDED"
          /\ decision'.supporters = Supporters(votes, quorum) /\ decision'.disagreeing = D
      BY <2>1
    <3>3. \A r \in Routes : decision'.route = r <=> Cardinality(Approvers(r)') >= RequiredQuorum
      BY <3>1, <3>2 DEF QuorumCounted, HasQuorum
    <3>4. decision'.supporters = Approvers(decision.route)'
      BY <3>1, <3>2 DEF Approvers
    <3>5. decision'.disagreeing = Voters(votes)' \ decision'.supporters
      BY <1>1, <2>3, <3>2 DEF Voters
    <3> QED  BY <1>4, <3>2, <3>3, <3>4, <3>5 DEF DecisionMatchesVotes
  <2> QED  BY <1>2, <2>4, <2>5
<1>5. CASE quorum = NoDigest
  <2> DEFINE u == Undecided(late)
  <2>1. decision' = [outcome |-> u, route |-> NoDigest, supporters |-> {}, disagreeing |-> D]
    BY <1>5 DEF BuildDecision
  <2>2. u \in {"TIMED_OUT", "INSUFFICIENT_RESPONSES", "NO_QUORUM"}
    BY DEF Undecided
  <2> HIDE DEF D, u
  <2>4. RoundTypeOK'
    BY <1>1, <1>3, <2>1, <2>2 DEF RoundTypeOK, Decisions
  <2>5. DecisionMatchesVotes'
    <3>1. \A r : Approvers(r)' = Supporters(votes, r)
      BY <1>1, ApproversAreSupporters DEF Approvers
    <3>2. decision'.route = NoDigest /\ decision'.outcome # "DECIDED"
      BY <2>1, <2>2
    <3>3. \A r \in Routes : decision'.route = r <=> Cardinality(Approvers(r)') >= RequiredQuorum
      BY <1>5, <3>1, <3>2 DEF QuorumCounted, HasQuorum
    <3> QED  BY <3>2, <3>3 DEF DecisionMatchesVotes
  <2> QED  BY <1>2, <2>4, <2>5
<1> QED  BY <1>4, <1>5

\* close and new_round.
LEMMA TurnKeepsInv ==
    ASSUME RoundInv, Close \/ NextRound
    PROVE  RoundInv'
<1> USE DEF RoundInv
<1>1. CASE Close
  BY <1>1 DEF Close, RoundTypeOK, ProposalsChecked, VotesChecked, QuorumCounted, HasQuorum,
              Supporters, DecisionFinal, DecisionMatchesVotes, Approvers, Voters
<1>2. CASE NextRound
  <2>1. RoundTypeOK' /\ ProposalsChecked' /\ VotesChecked' /\ DecisionFinal'
        /\ DecisionMatchesVotes'
    BY <1>2 DEF NextRound, RoundTypeOK, ProposalsChecked, VotesChecked, DecisionFinal,
                DecisionMatchesVotes
  <2>2. \A r : Supporters(votes', r) = {}
    BY <1>2 DEF NextRound, Supporters
  <2>3. \A r \in Routes : ~ HasQuorum(votes', r) /\ quorum' # r
    BY <1>2, <2>2, QuorumsNonempty, SentinelsAssumption DEF HasQuorum, NextRound
  <2>4. QuorumCounted'
    BY <2>3 DEF QuorumCounted, HasQuorum, Supporters
  <2> QED  BY <2>1, <2>4
<1> QED  BY <1>1, <1>2

LEMMA RoundInductive == RoundInv /\ [RoundNext]_roundVars => RoundInv'
<1> SUFFICES ASSUME RoundInv, [RoundNext]_roundVars PROVE RoundInv'
  OBVIOUS
<1>1. CASE UNCHANGED roundVars
  BY <1>1 DEF roundVars, RoundInv, RoundTypeOK, ProposalsChecked, VotesChecked,
        QuorumCounted, HasQuorum, Supporters, DecisionFinal, DecisionMatchesVotes,
        Approvers, Voters
<1> QED
  BY <1>1, ProposalKeepsInv, VoteKeepsInv, DecisionKeepsInv, TurnKeepsInv DEF RoundNext

-----------------------------------------------------------------------------
(* The theorems. *)

\* The inductive invariant holds of every round.
THEOREM RoundInvariant == RoundSpec => []RoundInv
BY RoundInitInv, RoundInductive, PTL DEF RoundSpec

\* Type correctness of rounds, decisions and the replay cache.
THEOREM RoundTypes == RoundSpec => []RoundTypeOK
<1>1. RoundInv => RoundTypeOK
  BY DEF RoundInv
<1> QED  BY <1>1, RoundInvariant, PTL

\* Whatever messages reach accept_proposal and accept_vote, in whatever order
\* and however often, a quorum is made of distinct orchestrators' signed
\* approvals of one signed proposal of this round.
THEOREM QuorumsAreAuthentic == RoundSpec => []QuorumIsAuthentic
<1>1. RoundInv => QuorumIsAuthentic
  <2> SUFFICES ASSUME RoundInv, quorum # NoDigest
               PROVE  /\ Cardinality(Approvers(quorum)) >= RequiredQuorum
                      /\ quorum \in Routes
                      /\ \E p \in proposals : p.authentic /\ p.round = round /\ p.route = quorum
    BY DEF QuorumIsAuthentic
  <2>1. quorum \in Routes
    BY DEF RoundInv, RoundTypeOK
  <2>2. HasQuorum(votes, quorum)
    BY <2>1 DEF RoundInv, QuorumCounted
  <2>3. Approvers(quorum) = Supporters(votes, quorum) /\ Approvers(quorum) \subseteq Orchestrators
    BY ApproversAreSupporters DEF RoundInv, Approvers
  <2>4. Supporters(votes, quorum) # {}
    BY <2>2, <2>3, QuorumsNonempty DEF HasQuorum
  <2>5. \E p \in proposals : p.route = quorum
    BY <2>4 DEF Supporters, RoundInv, VotesChecked
  <2> QED  BY <2>1, <2>2, <2>3, <2>5 DEF RoundInv, ProposalsChecked, HasQuorum
<1> QED  BY <1>1, RoundInvariant, PTL

\* accept_vote neither overlooks a quorum nor lets a second one form.
THEOREM QuorumsAreUnique == RoundSpec => []QuorumIsTheOnlyOne
<1>1. RoundInv => QuorumIsTheOnlyOne
  BY ApproversAreSupporters DEF RoundInv, QuorumCounted, HasQuorum, QuorumIsTheOnlyOne
<1> QED  BY <1>1, RoundInvariant, PTL

\* build_decision reports exactly the quorum of the round, its supporters and
\* everyone who voted otherwise.
THEOREM DecisionsMatchVotes == RoundSpec => []DecisionMatchesVotes
<1>1. RoundInv => DecisionMatchesVotes
  BY DEF RoundInv
<1> QED  BY <1>1, RoundInvariant, PTL

\* Proposals, votes, quorum and decision of a round are final.
THEOREM RoundsGrow == RoundSpec => RoundsOnlyGrow
<1> DEFINE A == \/ terminal /\ round' # round
                \/ /\ round' = round
                   /\ proposals \subseteq proposals' /\ votes \subseteq votes'
                   /\ quorum # NoDigest => quorum' = quorum
                   /\ decision # NoDecision => decision' = decision
                   /\ terminal => proposals' = proposals /\ votes' = votes /\ quorum' = quorum
<1>1. RoundInv /\ [RoundNext]_roundVars => [A]_roundVars
  <2> SUFFICES ASSUME RoundInv, RoundNext PROVE A
    OBVIOUS
  <2>1. CASE \E m \in Proposals : AcceptProposal(m)
    BY <2>1, ProposalKeepsInv DEF AcceptProposal
  <2>2. CASE \E m \in Votes : AcceptVote(m)
    BY <2>2, VoteKeepsInv DEF AcceptVote
  <2>3. CASE Close
    BY <2>3 DEF Close
  <2>4. CASE \E late \in BOOLEAN : BuildDecision(late)
    BY <2>4 DEF BuildDecision
  <2>5. CASE NextRound
    BY <2>5 DEF NextRound
  <2> QED  BY <2>1, <2>2, <2>3, <2>4, <2>5 DEF RoundNext
<1> QED  BY <1>1, RoundInvariant, PTL DEF RoundSpec, RoundsOnlyGrow
=============================================================================
