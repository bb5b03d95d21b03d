------------------------------ MODULE MaxHeap -------------------------------
(***************************************************************************)
(* MaxHeapEx with TraceUpdater (ftl-util/src/container/max_heap.rs): a      *)
(* binary heap that tells every element its place, through a pointer kept   *)
(* beside it, so that an element can be removed from the middle.  A heap h  *)
(* is a record: h.data, the vector, and h.at, what each tracer shows; an    *)
(* element is [key, id], where id names the tracer.  As in its only use the *)
(* keys are wrapped in Reverse, so the smallest is at the root.  Places     *)
(* count from 1, and 0 stands for usize::MAX, "not in the heap".            *)
(***************************************************************************)
EXTENDS Naturals, Sequences

RECURSIVE sift_up(_, _), sift_down_to_bottom(_, _)

get_parent(pos) == pos \div 2

(* Mutation: the formula for places that count from 0 loses its + 1. *)
get_child_unshifted(pos) == 2 * pos - 1

get_child(pos) == 2 * pos

update(h, pos) == [h EXCEPT !.at[h.data[pos].id] = pos]

fast_swap(h, a, b) == [h EXCEPT !.data[a] = h.data[b], !.data[b] = h.data[a]]

(* The heap after the walk and the place the element ends at. *)
sift_up(h, pos) ==
  LET parent == get_parent(pos)
  IN  IF pos > 1 /\ h.data[pos].key < h.data[parent].key
        THEN sift_up(update(fast_swap(h, pos, parent), pos), parent)
        ELSE [heap |-> update(h, pos), pos |-> pos]

(* Mutation: the element that moves up is not told its new place. *)
sift_down_to_bottom_silent(h, pos) ==
  LET child == get_child(pos)
      two == child + 1 <= Len(h.data)
      target == IF two /\ h.data[child + 1].key < h.data[child].key THEN child + 1 ELSE child
  IN  IF child > Len(h.data) \/ h.data[pos].key <= h.data[target].key
        THEN update(h, pos)
        ELSE sift_down_to_bottom(fast_swap(h, pos, target), target)

(* The walk down to the smaller child while that one is smaller. *)
sift_down_to_bottom(h, pos) ==
  LET child == get_child(pos)
      two == child + 1 <= Len(h.data)
      target == IF two /\ h.data[child + 1].key < h.data[child].key THEN child + 1 ELSE child
  IN  IF child > Len(h.data) \/ h.data[pos].key <= h.data[target].key
        THEN update(h, pos)
        ELSE sift_down_to_bottom(update(fast_swap(h, pos, target), pos), target)

push(h, e) == sift_up([h EXCEPT !.data = Append(@, e)], Len(h.data) + 1).heap

Shorter(h) == [h EXCEPT !.data = SubSeq(@, 1, Len(@) - 1)]

Last(h) == h.data[Len(h.data)]

Forget(h, id) == [h EXCEPT !.at[id] = 0]

(* Mutation: the last element is put into the hole and only moved down. *)
remove_idx_down_only(h, idx) ==
  LET s == Shorter(h)
      w == update([s EXCEPT !.data[idx] = Last(h)], idx)
  IN  IF idx = Len(h.data)
        THEN Forget(s, Last(h).id)
        ELSE Forget(sift_down_to_bottom(w, idx), h.data[idx].id)

(* The last element takes the hole and moves up, or else down. *)
remove_idx(h, idx) ==
  LET s == Shorter(h)
      w == update([s EXCEPT !.data[idx] = Last(h)], idx)
      up == sift_up(w, idx)
  IN  IF idx = Len(h.data)
        THEN Forget(s, Last(h).id)
        ELSE Forget(IF up.pos = idx THEN sift_down_to_bottom(up.heap, idx) ELSE up.heap,
                    h.data[idx].id)

(* pop is remove_idx of the root without the walk up. *)
pop(h) ==
  LET s == Shorter(h)
      w == update([s EXCEPT !.data[1] = Last(h)], 1)
  IN  IF Len(h.data) = 1
        THEN Forget(s, Last(h).id)
        ELSE Forget(sift_down_to_bottom(w, 1), h.data[1].id)

-----------------------------------------------------------------------------
(* Every tracer shows where its element is, or that it is not there. *)
Traced(h) ==
  /\ \A i \in DOMAIN h.data : h.at[h.data[i].id] = i
  /\ \A id \in DOMAIN h.at : h.at[id] # 0 => h.at[id] \in DOMAIN h.data /\ h.data[h.at[id]].id = id

(* No element is smaller than its parent. *)
Ordered(h) == \A i \in 2..Len(h.data) : h.data[get_parent(i)].key <= h.data[i].key
=============================================================================
