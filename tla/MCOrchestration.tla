-------------------------- MODULE MCOrchestration ---------------------------
(* Orchestration for model checking. *)
EXTENDS Orchestration, TLC
CONSTANTS Ids, DispatchIds, Digests
MCServiceRequests == [id : Ids, digest : Digests]
MCDispatches == [id : DispatchIds, digest : Digests]
Ids3 == <<"o1", "o2", "o3">>
=============================================================================
