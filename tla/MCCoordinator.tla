--------------------------- MODULE MCCoordinator ---------------------------
(* Coordinator for TLC: every request has a job id of its own, as when the  *)
(* coordinator draws it with uuid4().                                       *)
EXTENDS Coordinator, TLC

MCIdOf == [c \in Calls |-> c]

(* State constraint: status() and cancel() change nothing in the coordinator, *)
(* so they are followed only as the last control request, before a restart.  *)
QueriesLast == op.kind \in {"status", "cancel"} => starts = 1 /\ sent = MaxControl

(* State constraint: the second child is not followed beyond its death.       *)
OneCrash == starts = 2 => alive \/ ~accepting

Symm == Permutations(Calls)
=============================================================================
