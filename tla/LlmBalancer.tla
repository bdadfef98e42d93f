---------------------------- MODULE LlmBalancer ----------------------------
(***************************************************************************)
(* What the servers promise about their LLM addresses: each job gets an    *)
(* address that has been given out least often.                            *)
(***************************************************************************)
EXTENDS Integers

CONSTANT Address

VARIABLE weights   \* how often each known address has been given out

Known == DOMAIN weights

NoAddress == [a \in {} |-> 0]

Init == weights = NoAddress

Add(a) ==
  weights' = [b \in Known \union {a} |-> IF b \in Known THEN weights[b] ELSE 0]

Clear == weights' = NoAddress

Pick(a) ==
  /\ a \in Known /\ \A b \in Known : weights[a] <= weights[b]
  /\ weights' = [weights EXCEPT ![a] = @ + 1]

Next == Clear \/ \E a \in Address : Add(a) \/ Pick(a)

Spec == Init /\ [][Next]_weights

TypeOK == Known \subseteq Address /\ weights \in [Known -> Nat]

(* Load evens out: as long as two addresses stay known, one gets ahead of   *)
(* the other by more than one job only if it was that far ahead already (as *)
(* happens when add_llm_server_address() adds an address later).            *)
GapNeverWidens ==
  [][\A a, b \in Known :
       Known \subseteq DOMAIN weights' /\ weights'[a] - weights'[b] > 1
         => weights'[a] - weights'[b] <= weights[a] - weights[b]]_weights
=============================================================================
