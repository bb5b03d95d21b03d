---------------------------- MODULE LockfreeStack ---------------------------
(***************************************************************************)
(* The lock-free stack (kernel/src/tools/container/lockfree/stack.rs) and   *)
(* the private lists that go in and out of it as a whole                    *)
(* (thread_local_linked_list.rs).  Every operation loads the head and tries *)
(* compare_exchange until it succeeds or finds the stack closed; a popped   *)
(* node goes back to the heap and may be the next one that is allocated,    *)
(* while others still hold a pointer to it.  A pointer carries an           *)
(* identifier that compare_exchange advances (marked_ptr.rs).               *)
(***************************************************************************)
EXTENDS Naturals, Sequences

CONSTANTS Threads, Nodes,
          ID_PERIOD,         \* 2^25: identifiers are 25 bits wide
          MaxOps,            \* bound on the operations
          Null, INVALID      \* no node; the head of a closed stack

VARIABLES head,              \* the head with its identifier
          next,              \* the link of each node
          free,              \* boxes of the heap
          list,              \* each thread's ThreadLocalLinkedList
          pc, h, nx, node,   \* the operation it is in, and its locals
          ops,
          stack,             \* ghost: what is on the stack
          fate               \* "panicked" in the Drop of a list; "torn" (ghost) when
                             \* a failed appand left its link behind; or "no"

vars == <<head, next, free, list, pc, h, nx, node, ops, stack, fate>>

MarkedPtr(id, ptr) == [id |-> id, ptr |-> ptr]

Init ==
  /\ head = MarkedPtr(0, Null)
  /\ next = [n \in Nodes |-> Null]
  /\ free = Nodes
  /\ list = [p \in Threads |-> Null]
  /\ pc = [p \in Threads |-> "idle"]
  /\ h = [p \in Threads |-> MarkedPtr(0, Null)]
  /\ nx = [p \in Threads |-> Null] /\ node = [p \in Threads |-> Null]
  /\ ops = 0 /\ stack = <<>> /\ fate = "no"

(* The nodes from a on. *)
Chain(a) ==
  LET R[i \in Nat] == IF i = 0 THEN a ELSE IF R[i - 1] \in Nodes THEN next[R[i - 1]] ELSE Null
      S[i \in Nat] == IF R[i] \in Nodes /\ i <= MaxOps THEN <<R[i]>> \o S[i + 1] ELSE <<>>
  IN  S[0]

(* The node with the last link. *)
tail_pointer(a) == Chain(a)[Len(Chain(a))]

(* The nodes from a to b. *)
Own(a, b) ==
  LET c == Chain(a) IN SubSeq(c, 1, CHOOSE i \in DOMAIN c : c[i] = b)

-----------------------------------------------------------------------------
(* Box::from_raw: the words keep their values, or the heap clears the first.*)
dealloc(n) ==
  /\ free' = free \cup {n}
  /\ next' \in {next, [next EXCEPT ![n] = Null]}

(* ThreadLocalLinkedList::push and pop *)
list_push(p) ==
  /\ pc[p] = "idle" /\ ops < MaxOps /\ ops' = ops + 1
  /\ \E n \in free :
       /\ free' = free \ {n}
       /\ next' = [next EXCEPT ![n] = list[p]]
       /\ list' = [list EXCEPT ![p] = n]
  /\ UNCHANGED <<head, pc, h, nx, node, stack, fate>>

list_pop(p) ==
  /\ pc[p] = "idle" /\ list[p] # Null
  /\ dealloc(list[p])
  /\ list' = [list EXCEPT ![p] = next[list[p]]]
  /\ UNCHANGED <<head, pc, h, nx, node, ops, stack, fate>>

(* The load of the head.  An answer is put into an empty list; appand of    *)
(* nothing returns at once.                                                 *)
Begin(p, op) ==
  /\ pc[p] = "idle" /\ ops < MaxOps /\ ops' = ops + 1
  /\ op \in {"take", "close"} => list[p] = Null
  /\ op = "appand" => list[p] # Null
  /\ CASE op = "push" -> \E n \in free : free' = free \ {n} /\ node' = [node EXCEPT ![p] = n]
       [] op = "appand" -> node' = [node EXCEPT ![p] = tail_pointer(list[p])] /\ UNCHANGED free
       [] OTHER -> UNCHANGED <<free, node>>
  /\ h' = [h EXCEPT ![p] = head]
  /\ pc' = [pc EXCEPT ![p] = op]
  /\ UNCHANGED <<head, next, list, nx, stack, fate>>

Return(p) ==
  /\ pc' = [pc EXCEPT ![p] = "idle"]
  /\ h' = [h EXCEPT ![p] = MarkedPtr(0, Null)]
  /\ nx' = [nx EXCEPT ![p] = Null] /\ node' = [node EXCEPT ![p] = Null]

(* valid: a closed stack ends every operation.  push does not free its      *)
(* node; appand computes the null it means to store in the last link and    *)
(* drops it, so that a list it had linked before stays linked.              *)
Closed(p) ==
  /\ pc[p] \in {"push", "pop", "take", "replace", "appand", "close"}
  /\ h[p].ptr = INVALID
  /\ fate' = IF pc[p] = "appand" /\ next[node[p]] # Null THEN "torn" ELSE fate
  /\ Return(p)
  /\ UNCHANGED <<head, next, free, list, ops, stack>>

Tries(p, op) == pc[p] = op /\ h[p].ptr # INVALID

(* Mutation: only the addresses are compared. *)
SameHead_address(p) == head.ptr = h[p].ptr

SameHead(p) == head = h[p]

(* compare_exchange stores the new pointer with the next identifier, or     *)
(* returns the head it found, and the loop goes on with that.               *)
compare_exchange(p, ptr, again) ==
  IF SameHead(p)
  THEN head' = MarkedPtr((h[p].id + 2) % ID_PERIOD, ptr) /\ Return(p)
  ELSE /\ h' = [h EXCEPT ![p] = head]
       /\ pc' = [pc EXCEPT ![p] = again]
       /\ UNCHANGED <<head, nx, node>>

(* take, replace and close put another chain in, and hand the old one out.  *)
Exchange(p, op, new) ==
  /\ Tries(p, op)
  /\ compare_exchange(p, new, op)
  /\ IF SameHead(p)
     THEN list' = [list EXCEPT ![p] = h[p].ptr] /\ stack' = Chain(new)
     ELSE UNCHANGED <<list, stack>>
  /\ UNCHANGED <<next, free, ops>>

take(p) == Exchange(p, "take", Null) /\ UNCHANGED fate

(* The list that went in is dropped on the way out, not forgotten: unless   *)
(* it is empty, the assertion in its Drop fails.                            *)
replace(p) ==
  /\ Exchange(p, "replace", list[p])
  /\ fate' = IF SameHead(p) /\ list[p] # Null THEN "panicked" ELSE fate

close(p) == Exchange(p, "close", INVALID) /\ UNCHANGED fate

(* The last link of the list is aimed at the head in every turn. *)
appand(p) ==
  /\ Tries(p, "appand")
  /\ next' = [next EXCEPT ![node[p]] = h[p].ptr]
  /\ compare_exchange(p, list[p], "appand")
  /\ IF SameHead(p)
     THEN list' = [list EXCEPT ![p] = Null] /\ stack' = Own(list[p], node[p]) \o stack
     ELSE UNCHANGED <<list, stack>>
  /\ UNCHANGED <<free, ops, fate>>

(* Mutation: the node keeps the link of the first turn. *)
push_link_once(p) == IF next[node[p]] = Null THEN h[p].ptr ELSE next[node[p]]

(* The link of the new node, of every turn. *)
push_link(p) == h[p].ptr

push(p) ==
  /\ Tries(p, "push")
  /\ next' = [next EXCEPT ![node[p]] = push_link(p)]
  /\ compare_exchange(p, node[p], "push")
  /\ stack' = IF SameHead(p) THEN <<node[p]>> \o stack ELSE stack
  /\ UNCHANGED <<free, list, ops, fate>>

(* The node may have been freed since the head was loaded. *)
pop(p) ==
  /\ Tries(p, "pop")
  /\ IF h[p].ptr = Null
     THEN Return(p)
     ELSE /\ nx' = [nx EXCEPT ![p] = next[h[p].ptr]]
          /\ pc' = [pc EXCEPT ![p] = "pop_cas"]
          /\ UNCHANGED <<h, node>>
  /\ UNCHANGED <<head, next, free, list, ops, stack, fate>>

pop_cas(p) ==
  /\ Tries(p, "pop_cas")
  /\ compare_exchange(p, nx[p], "pop")
  /\ IF SameHead(p)
     THEN dealloc(h[p].ptr) /\ stack' = SubSeq(stack, 2, Len(stack))
     ELSE UNCHANGED <<next, free, stack>>
  /\ UNCHANGED <<list, ops, fate>>

(* Nothing is left to do, the kernel is down, or a list runs on into the    *)
(* nodes of another.                                                        *)
Stopped ==
  /\ fate # "no" \/ (ops = MaxOps /\ \A p \in Threads : pc[p] = "idle")
  /\ UNCHANGED vars

Next ==
  \/ Stopped
  \/ /\ fate = "no"
     /\ \E p \in Threads :
          \/ \E op \in {"push", "pop", "take", "replace", "appand", "close"} : Begin(p, op)
          \/ list_push(p) \/ list_pop(p) \/ Closed(p)
          \/ take(p) \/ replace(p) \/ close(p) \/ appand(p)
          \/ push(p) \/ pop(p) \/ pop_cas(p)

Spec == Init /\ [][Next]_vars

-----------------------------------------------------------------------------
(* The type invariant. *)
TypeOK ==
  /\ head.id \in Nat /\ head.ptr \in Nodes \cup {Null, INVALID}
  /\ next \in [Nodes -> Nodes \cup {Null}]
  /\ free \subseteq Nodes
  /\ list \in [Threads -> Nodes \cup {Null}]
  /\ nx \in [Threads -> Nodes \cup {Null}] /\ node \in [Threads -> Nodes \cup {Null}]

(* The chain behind the head is what was put on the stack and not taken     *)
(* off, newest first.                                                       *)
StackExact == Chain(head.ptr) = stack

Elements(s) == {s[i] : i \in DOMAIN s}

Mine(p) ==
  Elements(IF pc[p] = "appand" THEN Own(list[p], node[p]) ELSE Chain(list[p]))
    \cup (IF pc[p] = "push" THEN {node[p]} ELSE {})

(* Every node has one owner: the heap, the stack or one thread, as long as  *)
(* no replace has put a list in (that panics), and no appand that had to    *)
(* try again has found the stack closed: its list still runs on into the    *)
(* nodes that close returned (fate = "torn").                               *)
OneOwner ==
  fate = "no" =>
    /\ Elements(stack) \cap free = {}
    /\ \A p \in Threads :
         /\ Mine(p) \cap (Elements(stack) \cup free) = {}
         /\ \A q \in Threads \ {p} : Mine(p) \cap Mine(q) = {}
=============================================================================
