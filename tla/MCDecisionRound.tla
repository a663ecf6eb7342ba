-------------------------- MODULE MCDecisionRound ---------------------------
(* DecisionRound for model checking. *)
EXTENDS DecisionRound, TLC

\* Senders, routes and message identities are compared only for equality.
Symmetry == Permutations(Orchestrators) \cup Permutations(Routes)
                \cup Permutations(MessageIds) \cup Permutations(Rounds)
=============================================================================
