------------------------- MODULE MCBlackboardReads --------------------------
(* BlackboardReads for model checking. *)
EXTENDS BlackboardReads, TLC

\* Coordinators, readers, records and operations are compared only for
\* equality; replicas are visited in a fixed order.
Symmetry == Permutations(Coordinators) \cup Permutations(Ids)
                \cup Permutations(WriteOps) \cup Permutations(Readers)
=============================================================================
