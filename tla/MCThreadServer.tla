--------------------------- MODULE MCThreadServer ---------------------------
(* Instances of ThreadServer for TLC.                                       *)
EXTENDS ThreadServer, TLC

CONSTANTS c1, c2, i1, i2

(* One worker thread per stage and start().                                 *)
MCWorkers == (1..MaxStarts) \X Stages
MCGenOf == [w \in MCWorkers |-> w[1]]
MCStageOf == [w \in MCWorkers |-> w[2]]
MCMaxWorkers == [s \in Stages |-> 1]

(* The ids get_unique_id() makes: one per call.                             *)
UniqueIds == [c \in Calls |-> IF c = c1 THEN i1 ELSE i2]

(* Renaming the calls together with their ids.                              *)
Symm == {c1 :> c2 @@ c2 :> c1 @@ i1 :> i2 @@ i2 :> i1}
=============================================================================
