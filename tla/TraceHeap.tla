----------------------------- MODULE TraceHeap ------------------------------
(***************************************************************************)
(* The heap of MaxHeap on its own: elements come, the smallest leaves, and  *)
(* any element is withdrawn by the place its tracer shows.                  *)
(***************************************************************************)
EXTENDS MaxHeap, FiniteSets

CONSTANTS MaxLen, Keys

Ids == 1..MaxLen

VARIABLES heap,   \* the container
          keys    \* the key of each element that is inside, 0 for the others

vars == <<heap, keys>>

Init ==
  /\ heap = [data |-> <<>>, at |-> [i \in Ids |-> 0]]
  /\ keys = [i \in Ids |-> 0]

(* Tracers are alike: a new element gets the first that is free. *)
Push(i, k) ==
  /\ keys[i] = 0 /\ \A j \in 1..(i - 1) : keys[j] # 0
  /\ heap' = push(heap, [key |-> k, id |-> i])
  /\ keys' = [keys EXCEPT ![i] = k]

Pop ==
  /\ heap.data # <<>>
  /\ heap' = pop(heap)
  /\ keys' = [keys EXCEPT ![heap.data[1].id] = 0]

Withdraw(i) ==
  /\ heap.at[i] # 0
  /\ heap' = remove_idx(heap, heap.at[i])
  /\ keys' = [keys EXCEPT ![i] = 0]

Next == Pop \/ \E i \in Ids : Withdraw(i) \/ \E k \in Keys : Push(i, k)

Spec == Init /\ [][Next]_vars

-----------------------------------------------------------------------------
(* The tracers stay exact through every swap of the two walks: removal by   *)
(* place removes the element it means.                                      *)
TracersExact == Traced(heap)

(* The heap holds the elements that were pushed and not removed, once each, *)
(* and its root is the smallest: peek shows the next deadline.              *)
HoldsSmallestFirst ==
  /\ Len(heap.data) = Cardinality({i \in Ids : keys[i] # 0})
  /\ \A j \in DOMAIN heap.data :
       /\ keys[heap.data[j].id] = heap.data[j].key
       /\ heap.data[1].key <= heap.data[j].key

(* Both walks keep the order of parents and children. *)
HeapOrder == Ordered(heap)
=============================================================================
