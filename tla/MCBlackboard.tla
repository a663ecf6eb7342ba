---------------------------- MODULE MCBlackboard ----------------------------
(* Blackboard for model checking: which constants are interchangeable. *)
EXTENDS Blackboard, TLC

\* Coordinators, records and operations are compared only for equality;
\* replicas are not symmetric, they are called in a fixed order.
Symmetry == Permutations(Coordinators) \cup Permutations(Ids)
                \cup Permutations(WriteOps)
=============================================================================
