--------------------------- MODULE CommitRegister ---------------------------
(***************************************************************************)
(* What the replicated Blackboard promises its callers, with no replica in *)
(* sight: every (key, version) slot is decided at most once and for ever,  *)
(* and nobody is told of a record that has not been decided.               *)
(***************************************************************************)
CONSTANTS Keys, Versions, Ids

VARIABLES
    chosen,   \* the decided records
    told      \* the records callers were told about

Record(k, v, id) == [key |-> k, version |-> v, id |-> id]

RegisterInit == chosen = {} /\ told = {}

\* Decide a slot that is still open.
Choose(k, v, id) ==
    /\ \A d \in chosen : ~ (d.key = k /\ d.version = v)
    /\ chosen' = chosen \cup {Record(k, v, id)}
    /\ UNCHANGED told

\* Tell a caller - the writer or a reader - about a decided record.
Tell(record) ==
    /\ record \in chosen
    /\ told' = told \cup {record}
    /\ UNCHANGED chosen

RegisterNext ==
    \/ \E k \in Keys, v \in Versions, id \in Ids : Choose(k, v, id)
    \/ \E record \in chosen : Tell(record)

RegisterSpec == RegisterInit /\ [][RegisterNext]_<<chosen, told>>
=============================================================================
