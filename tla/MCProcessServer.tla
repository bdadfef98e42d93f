-------------------------- MODULE MCProcessServer --------------------------
(* Instances of ProcessServer for TLC.                                      *)
EXTENDS ProcessServer, TLC

(* One permit per stage: every second job has to wait for it.               *)
MCMaxWorkers == [s \in Stages |-> 1]

(* The calls differ only in what the environment may do to them.            *)
Symm == Permutations(Cancellable \ Rejected) \union Permutations(Calls \ (Cancellable \union Rejected))
=============================================================================
