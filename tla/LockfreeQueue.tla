--------------------------- MODULE LockfreeQueue ----------------------------
(***************************************************************************)
(* The lock-free queue (kernel/src/tools/container/lockfree/queue.rs): a    *)
(* list behind a dummy node, with a head and a tail that may lag one node   *)
(* behind.  Every load, store and compare_exchange on shared memory is a    *)
(* step.  A pointer carries an identifier that compare_exchange advances    *)
(* (marked_ptr.rs).                                                         *)
(*                                                                         *)
(* Nodes are boxes: a popped dummy goes back to the heap and may be the     *)
(* next node that is allocated, while other threads still hold pointers to  *)
(* it.  Its words keep their values, or the heap clears the first one.      *)
(*                                                                         *)
(* A link without a node is (0, null) in a new node and in a box that the   *)
(* heap has cleared, and also in the dummy of a new queue and in the first  *)
(* node pushed.  A push that has read such a link, and stalls until its     *)
(* node has left the queue, then finds what it compares with in the heap's  *)
(* box: its element goes astray.                                            *)
(***************************************************************************)
EXTENDS Naturals, Sequences

CONSTANTS Threads, Nodes,
          ID_PERIOD,         \* 2^25: identifiers are 25 bits wide
          MaxPush, MaxPop,   \* bounds on the calls
          Null

VARIABLES head, tail, next, value,
          free,              \* boxes of the heap
          pc, h, t, nx, node, val,   \* each thread's place and locals
          pushes, pops,
          fifo, saw_empty,   \* ghosts: the queue, and that it was seen empty
          stray              \* ghost: the tail's identifiers that were read by
                             \* pushes which linked their node to one outside

vars == <<head, tail, next, value, free, pc, h, t, nx, node, val, pushes, pops, fifo,
          saw_empty, stray>>

MarkedPtr(id, ptr) == [id |-> id, ptr |-> ptr]

Zero == MarkedPtr(0, Null)

(* compare_exchange stores the new pointer with the next identifier:        *)
(* PtrID::next adds one, and one more unless that makes usize::MAX.         *)
next_id_ptr(p) == [p EXCEPT !.id = (@ + 2) % ID_PERIOD]

(* A queue of which nobody uses anything but the dummy d. *)
Idle(d) ==
  /\ free = Nodes \ {d}
  /\ value = [n \in Nodes |-> 0]
  /\ pc = [p \in Threads |-> "idle"]
  /\ h = [p \in Threads |-> Zero] /\ t = [p \in Threads |-> Zero] /\ nx = [p \in Threads |-> Zero]
  /\ node = [p \in Threads |-> Null] /\ val = [p \in Threads |-> 0]
  /\ pushes = 0 /\ pops = 0
  /\ fifo = <<>> /\ saw_empty = [p \in Threads |-> FALSE] /\ stray = {}

(* LockfreeQueue::init: a dummy, and no identifier but zero. *)
Init ==
  \E d \in Nodes :
    /\ head = MarkedPtr(0, d) /\ tail = MarkedPtr(0, d)
    /\ next = [n \in Nodes |-> Zero]
    /\ Idle(d)

(* A queue after two pushes and two pops, in boxes that the heap clears. *)
Used ==
  \E d \in Nodes :
    /\ head = MarkedPtr(4, d) /\ tail = MarkedPtr(4, d)
    /\ next = [n \in Nodes |-> IF n = d THEN MarkedPtr(2, Null) ELSE Zero]
    /\ Idle(d)

Goto(p, l) == pc' = [pc EXCEPT ![p] = l]

Leave(p) ==
  /\ Goto(p, "idle")
  /\ h' = [h EXCEPT ![p] = Zero] /\ t' = [t EXCEPT ![p] = Zero] /\ nx' = [nx EXCEPT ![p] = Zero]
  /\ node' = [node EXCEPT ![p] = Null] /\ val' = [val EXCEPT ![p] = 0]
  /\ saw_empty' = [saw_empty EXCEPT ![p] = FALSE]

(* The nodes from the dummy on. *)
Reach ==
  LET R[i \in Nat] == IF i = 0 THEN head.ptr
                      ELSE IF R[i - 1] = Null THEN Null ELSE next[R[i - 1]].ptr
  IN  {i \in 0 .. MaxPush + 1 : R[i] # Null}

NodeAt(i) ==
  LET R[k \in Nat] == IF k = 0 THEN head.ptr ELSE next[R[k - 1]].ptr IN R[i]

-----------------------------------------------------------------------------
(* push: a new node, and the tail. *)
push(p) ==
  /\ pc[p] = "idle" /\ pushes < MaxPush
  /\ pushes' = pushes + 1
  /\ \E n \in free :
       /\ free' = free \ {n}
       /\ next' = [next EXCEPT ![n] = Zero]
       /\ value' = [value EXCEPT ![n] = pushes']
       /\ node' = [node EXCEPT ![p] = n]
  /\ Goto(p, "push_load")
  /\ UNCHANGED <<head, tail, h, t, nx, val, pops, fifo, saw_empty, stray>>

push_load(p) ==
  /\ pc[p] = "push_load"
  /\ t' = [t EXCEPT ![p] = tail]
  /\ Goto(p, "push_next")
  /\ UNCHANGED <<head, tail, next, value, free, h, nx, node, val, pushes, pops, fifo, saw_empty, stray>>

push_next(p) ==
  /\ pc[p] = "push_next"
  /\ nx' = [nx EXCEPT ![p] = next[t[p].ptr]]
  /\ Goto(p, "push_check")
  /\ UNCHANGED <<head, tail, next, value, free, h, t, node, val, pushes, pops, fifo, saw_empty, stray>>

push_check(p) ==
  /\ pc[p] = "push_check"
  /\ t' = [t EXCEPT ![p] = tail]
  /\ Goto(p, IF tail # t[p] THEN "push_next"
             ELSE IF nx[p].ptr # Null THEN "push_help" ELSE "push_id")
  /\ UNCHANGED <<head, tail, next, value, free, h, nx, node, val, pushes, pops, fifo, saw_empty, stray>>

(* Mutation: a new node keeps the identifier zero. *)
set_id_null_zero(p) == Zero

(* The link of the new node: no node, with the identifier of the tail. *)
set_id_null(p) == MarkedPtr(t[p].id, Null)

push_id(p) ==
  /\ pc[p] = "push_id"
  /\ next' = [next EXCEPT ![node[p]] = set_id_null(p)]
  /\ Goto(p, "push_link")
  /\ UNCHANGED <<head, tail, value, free, h, t, nx, node, val, pushes, pops, fifo, saw_empty, stray>>

(* The tail lags: it is moved on, whoever does it. *)
push_help(p) ==
  LET new == MarkedPtr(t[p].id, nx[p].ptr) IN
  /\ pc[p] = "push_help"
  /\ IF tail = t[p]
     THEN tail' = next_id_ptr(new) /\ t' = [t EXCEPT ![p] = new]
     ELSE t' = [t EXCEPT ![p] = tail] /\ UNCHANGED tail
  /\ Goto(p, "push_next")
  /\ UNCHANGED <<head, next, value, free, h, nx, node, val, pushes, pops, fifo, saw_empty, stray>>

(* The node is linked behind the last one: the element is in the queue.     *)
push_link(p) ==
  LET last == t[p].ptr IN
  /\ pc[p] = "push_link"
  /\ IF next[last] = nx[p]
     THEN /\ next' = [next EXCEPT ![last] = next_id_ptr(MarkedPtr(nx[p].id, node[p]))]
          /\ fifo' = Append(fifo, value[node[p]])
          /\ stray' = IF \E i \in Reach : NodeAt(i) = last THEN stray ELSE stray \cup {t[p].id}
          /\ Goto(p, "push_tail")
     ELSE Goto(p, "push_load") /\ UNCHANGED <<next, fifo, stray>>
  /\ UNCHANGED <<head, tail, value, free, h, t, nx, node, val, pushes, pops, saw_empty>>

push_tail(p) ==
  /\ pc[p] = "push_tail"
  /\ tail' = IF tail = t[p] THEN next_id_ptr(MarkedPtr(t[p].id, node[p])) ELSE tail
  /\ Leave(p)
  /\ UNCHANGED <<head, next, value, free, pushes, pops, fifo, stray>>

-----------------------------------------------------------------------------
pop(p) ==
  /\ pc[p] = "idle" /\ pops < MaxPop
  /\ pops' = pops + 1
  /\ h' = [h EXCEPT ![p] = head]
  /\ Goto(p, "pop_tail")
  /\ UNCHANGED <<head, tail, next, value, free, t, nx, node, val, pushes, fifo, saw_empty, stray>>

pop_tail(p) ==
  /\ pc[p] = "pop_tail"
  /\ t' = [t EXCEPT ![p] = tail]
  /\ Goto(p, "pop_next")
  /\ UNCHANGED <<head, tail, next, value, free, h, nx, node, val, pushes, pops, fifo, saw_empty, stray>>

pop_next(p) ==
  /\ pc[p] = "pop_next"
  /\ nx' = [nx EXCEPT ![p] = next[h[p].ptr]]
  /\ saw_empty' = [saw_empty EXCEPT ![p] = (fifo = <<>>)]
  /\ Goto(p, "pop_check")
  /\ UNCHANGED <<head, tail, next, value, free, h, t, node, val, pushes, pops, fifo, stray>>

(* Mutation: the head is not compared again. *)
StillHead_skipped(p) == TRUE

StillHead(p) == head = h[p]

(* With a null pointer the queue is empty; the tail is never left behind.   *)
pop_check(p) ==
  /\ pc[p] = "pop_check"
  /\ IF ~StillHead(p)
     THEN /\ h' = [h EXCEPT ![p] = head] /\ Goto(p, "pop_tail")
          /\ UNCHANGED <<t, nx, node, val, saw_empty>>
     ELSE IF nx[p].ptr = Null THEN Leave(p)
     ELSE /\ Goto(p, IF h[p].ptr = t[p].ptr THEN "pop_help" ELSE "pop_read")
          /\ UNCHANGED <<h, t, nx, node, val, saw_empty>>
  /\ UNCHANGED <<head, tail, next, value, free, pushes, pops, fifo, stray>>

pop_help(p) ==
  /\ pc[p] = "pop_help"
  /\ tail' = IF tail = t[p] THEN next_id_ptr(MarkedPtr(t[p].id, nx[p].ptr)) ELSE tail
  /\ Goto(p, "pop_again")
  /\ UNCHANGED <<head, next, value, free, h, t, nx, node, val, pushes, pops, fifo, saw_empty, stray>>

pop_again(p) ==
  /\ pc[p] = "pop_again"
  /\ h' = [h EXCEPT ![p] = head]
  /\ Goto(p, "pop_tail")
  /\ UNCHANGED <<head, tail, next, value, free, t, nx, node, val, pushes, pops, fifo, saw_empty, stray>>

(* The value is read before the head is moved: afterwards it may be gone.   *)
pop_read(p) ==
  /\ pc[p] = "pop_read"
  /\ val' = [val EXCEPT ![p] = value[nx[p].ptr]]
  /\ Goto(p, "pop_head")
  /\ UNCHANGED <<head, tail, next, value, free, h, t, nx, node, pushes, pops, fifo, saw_empty, stray>>

(* Mutation: only the addresses are compared. *)
SameHead_address(p) == head.ptr = h[p].ptr

SameHead(p) == head = h[p]

pop_head(p) ==
  /\ pc[p] = "pop_head"
  /\ IF SameHead(p)
     THEN /\ head' = next_id_ptr(MarkedPtr(h[p].id, nx[p].ptr))
          /\ fifo' = IF fifo = <<>> THEN fifo ELSE Tail(fifo)
          /\ Goto(p, "pop_free") /\ UNCHANGED h
     ELSE h' = [h EXCEPT ![p] = head] /\ Goto(p, "pop_tail") /\ UNCHANGED <<head, fifo>>
  /\ UNCHANGED <<tail, next, value, free, t, nx, node, val, pushes, pops, saw_empty, stray>>

pop_free(p) ==
  /\ pc[p] = "pop_free"
  /\ free' = free \cup {h[p].ptr}
  /\ next' \in {next, [next EXCEPT ![h[p].ptr] = Zero]}
  /\ Leave(p)
  /\ UNCHANGED <<head, tail, value, pushes, pops, fifo, stray>>

(* Nothing is left to do, or an element is lost. *)
Stopped ==
  /\ \/ stray # {}
     \/ pops = MaxPop /\ (pushes = MaxPush \/ free = {}) /\ \A p \in Threads : pc[p] = "idle"
  /\ UNCHANGED vars

Next ==
  \/ Stopped
  \/ stray = {} /\ \E p \in Threads :
    \/ push(p) \/ push_load(p) \/ push_next(p) \/ push_check(p) \/ push_help(p) \/ push_id(p)
    \/ push_link(p) \/ push_tail(p)
    \/ pop(p) \/ pop_tail(p) \/ pop_next(p) \/ pop_check(p) \/ pop_help(p) \/ pop_again(p)
    \/ pop_read(p) \/ pop_head(p) \/ pop_free(p)

Spec == Init /\ [][Next]_vars

-----------------------------------------------------------------------------
(* The type invariant. *)
TypeOK ==
  /\ {head.ptr, tail.ptr} \subseteq Nodes
  /\ \A n \in Nodes : next[n].id \in Nat /\ next[n].ptr \in Nodes \cup {Null}
  /\ free \subseteq Nodes
  /\ value \in [Nodes -> 0 .. MaxPush] /\ val \in [Threads -> 0 .. MaxPush]
  /\ node \in [Threads -> Nodes \cup {Null}]

(* The list behind the dummy holds exactly what was pushed and not popped,  *)
(* in order, none of its nodes is in the heap, and the tail is one of them. *)
(* It fails in a new queue: a push that stalls in front of its              *)
(* compare_exchange may link its node to the dummy when the heap has it.    *)
ChainExact ==
  /\ Reach = 0 .. Len(fifo)
  /\ \A i \in 1 .. Len(fifo) : value[NodeAt(i)] = fifo[i]
  /\ \A i \in Reach : NodeAt(i) \notin free
  /\ \E i \in Reach : NodeAt(i) = tail.ptr

(* A pop takes the first element, and says that the queue is empty only if  *)
(* it was while the call ran.                                               *)
PopsFirst ==
  \A p \in Threads :
    /\ pc[p] = "pop_head" /\ SameHead(p) => fifo # <<>> /\ val[p] = fifo[1]
    /\ pc[p] = "pop_check" /\ StillHead(p) /\ nx[p].ptr = Null => saw_empty[p]

(* The queue is exact until an element goes astray, and only a push that    *)
(* read the tail before it had moved twice loses its element: from then on  *)
(* set_id_null leaves no link (0, null) in the queue, until the identifier  *)
(* of the tail has gone round.                                              *)
ExactUnlessEarly ==
  /\ stray = {} => ChainExact /\ PopsFirst
  /\ stray \subseteq {0, 2}
=============================================================================
