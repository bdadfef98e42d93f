---------------------------- MODULE HeapBalancer ----------------------------
(***************************************************************************)
(* The weighted addresses of both servers: a heap of [weight, address]     *)
(* lists kept by Python's heapq, and its three operations, each of which   *)
(* runs under _address_lock.                                               *)
(***************************************************************************)
EXTENDS Integers, Sequences, SequencesExt

CONSTANTS
  Address,     \* the addresses, by their place in the order of strings
  MaxWeight    \* bound on a weight

(* Addresses are ordered, weights bounded.                                  *)
HeapAssumption == Address \subseteq Nat /\ MaxWeight \in Nat

VARIABLE weighted_addresses

(* Python compares the lists element by element.                            *)
Less(x, y) == x.weight < y.weight \/ (x.weight = y.weight /\ x.address < y.address)

(* heapq._siftdown(): an item rises past its greater parents.               *)
RECURSIVE SiftDown(_, _)
SiftDown(heap, pos) ==
  LET parent == pos \div 2
  IN  IF pos > 1 /\ Less(heap[pos], heap[parent])
      THEN SiftDown([heap EXCEPT ![pos] = heap[parent], ![parent] = heap[pos]], parent)
      ELSE heap

(* heapq._siftup(): an item sinks below its smaller children to a leaf, and *)
(* rises from there.                                                        *)
RECURSIVE SiftUp(_, _)
SiftUp(heap, pos) ==
  LET left == 2 * pos
      child == IF left + 1 <= Len(heap) /\ ~Less(heap[left], heap[left + 1])
               THEN left + 1
               ELSE left
  IN  IF left <= Len(heap)
      THEN SiftUp([heap EXCEPT ![pos] = heap[child], ![child] = heap[pos]], child)
      ELSE SiftDown(heap, pos)

HeapPush(heap, item) == SiftDown(Append(heap, item), Len(heap) + 1)

HeapReplace(heap, item) == SiftUp([heap EXCEPT ![1] = item], 1)

Init == weighted_addresses = <<>>

(* add_llm_server_address().                                                *)
Add(a) ==
  IF \E i \in DOMAIN weighted_addresses : weighted_addresses[i].address = a
  THEN UNCHANGED weighted_addresses
  ELSE weighted_addresses' = HeapPush(weighted_addresses, [weight |-> 0, address |-> a])

(* clear_llm_server_addresses().                                            *)
Clear == weighted_addresses' = <<>>

(* Mutant: the last address is given out.                                   *)
Pick_Last ==
  /\ weighted_addresses # <<>> /\ Last(weighted_addresses).weight < MaxWeight
  /\ LET n == Len(weighted_addresses)
     IN  weighted_addresses' = [weighted_addresses EXCEPT ![n].weight = @ + 1]

(* create_llm_config() and get_llm_server_addresses(): the root is given    *)
(* out, its weight raised in place, and the root replaced by itself.        *)
Pick ==
  /\ weighted_addresses # <<>> /\ weighted_addresses[1].weight < MaxWeight
  /\ LET raised == [weighted_addresses EXCEPT ![1].weight = @ + 1]
     IN  weighted_addresses' = HeapReplace(raised, raised[1])

Next == Clear \/ Pick \/ \E a \in Address : Add(a)

Spec == Init /\ [][Next]_weighted_addresses

-----------------------------------------------------------------------------
(* Properties.                                                              *)

(* The list is a list of weighted addresses, each address once.             *)
TypeOK ==
  /\ weighted_addresses \in Seq([weight : 0 .. MaxWeight, address : Address])
  /\ \A i, j \in DOMAIN weighted_addresses :
       weighted_addresses[i].address = weighted_addresses[j].address => i = j

weightsOf ==
  [a \in {weighted_addresses[i].address : i \in DOMAIN weighted_addresses} |->
     weighted_addresses[CHOOSE i \in DOMAIN weighted_addresses :
                          weighted_addresses[i].address = a].weight]

Balancer == INSTANCE LlmBalancer WITH weights <- weightsOf

(* The heap of create_llm_config() gives out an address used least often.   *)
LeastUsed == Balancer!Spec

=============================================================================
