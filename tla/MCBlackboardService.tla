------------------------ MODULE MCBlackboardService -------------------------
(* BlackboardService for model checking: all threads in one process. *)
EXTENDS BlackboardService

MCOwner == [t \in Threads |-> CHOOSE c \in Coordinators : TRUE]
=============================================================================
