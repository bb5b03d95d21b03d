------------------------------ MODULE EventBus ------------------------------
(***************************************************************************)
(* The event bus of a process, kernel/src/sync/even_bus.rs: a set of events *)
(* under a lock and the list of the nodes of the threads that wait for one. *)
(* A node lives inside the future of its thread.  A setter marks a node,    *)
(* wakes its thread and unlinks the node, in this order and one store at a  *)
(* time, while the thread may already be running, see the mark and free the *)
(* node without taking the lock when it finds the node unlinked.            *)
(*                                                                         *)
(* Threads wait; every actor may set and clear events.  The last thread to  *)
(* leave closes the bus (process/exit.rs).                                  *)
(***************************************************************************)
EXTENDS Integers, Sequences

CONSTANTS
  Threads,   \* the threads of the process: the only waiters
  Others,    \* other tasks that notify the process
  Events,
  Updates,   \* <<reset, set>> pairs given to clear_then_set
  Nobody

ASSUME BusAssumption ==
  /\ Threads \cap Others = {} /\ Nobody \notin Threads \cup Others
  /\ Updates \subseteq (SUBSET Events) \X (SUBSET Events)

VARIABLES
  event, suspend_event, closed,  \* EventBusInner
  wakers,                        \* the list of nodes: the threads they belong to
  lk,                            \* the actor inside the lock, or Nobody
  pc, notified,
  mask, suspend,                 \* EventBusFuture.mask, BusNode.suspend
  node,                          \* "none": freed, "self": prev = self, "linked"
  arg,                           \* the arguments of clear_then_set
  scan, acc                      \* pop_when_race: nodes to visit, new suspend_event

busvars  == <<event, suspend_event, closed>>
nodevars == <<mask, suspend, node>>
loopvars == <<arg, scan, acc>>
vars == <<busvars, wakers, lk, pc, notified, nodevars, loopvars>>

Actors == Threads \cup Others

Init ==
  /\ event = {} /\ suspend_event = {} /\ closed = FALSE
  /\ wakers = <<>> /\ lk = Nobody
  /\ pc = [a \in Actors |-> "idle"]
  /\ notified = [t \in Threads |-> FALSE]
  /\ mask = [t \in Threads |-> {}] /\ suspend = [t \in Threads |-> {}]
  /\ node = [t \in Threads |-> "none"]
  /\ arg = [a \in Actors |-> <<{}, {}>>]
  /\ scan = <<>> /\ acc = {}

Goto(a, l) == pc' = [pc EXCEPT ![a] = l]

(* The threads whose nodes are in a list, and a list without the node of t:  *)
(* pop_self joins the neighbours of a node that is linked.                   *)
Nodes(list) == {list[i] : i \in 1..Len(list)}

pop_self(list, t) ==
  LET at == CHOOSE i \in 1..Len(list) : list[i] = t
  IN  IF t \in Nodes(list)
      THEN [i \in 1..(Len(list) - 1) |-> list[IF i < at THEN i ELSE i + 1]]
      ELSE list

(* Waker::wake of thread t by actor a, which goes on at l. *)
WakeAnd(t, a, l) ==
  LET pcs == [pc EXCEPT ![a] = l] IN
  /\ pc' = IF pcs[t] = "parked" THEN [pcs EXCEPT ![t] = "poll"] ELSE pcs
  /\ notified' = [notified EXCEPT ![t] = @ \/ pcs[t] # "parked"]

-----------------------------------------------------------------------------
(* set, clear and clear_then_set: the closed flag and the "nothing changes" *)
(* test are read without the lock.                                          *)
Updated(u) == (event \ u[1]) \cup u[2]

clear_then_set(a, u) ==
  /\ pc[a] = "idle"
  /\ ~closed /\ Updated(u) # event
  /\ arg' = [arg EXCEPT ![a] = u]
  /\ Goto(a, "update")
  /\ UNCHANGED <<busvars, wakers, lk, notified, nodevars, scan, acc>>

(* Under the lock: EventBusInner::clear_then_set, up to the test of         *)
(* suspend().  The lock is kept only when there are nodes to visit.         *)
should_suspend(e) == e \cap suspend_event # {}

update(a) ==
  /\ pc[a] = "update" /\ lk = Nobody
  /\ arg' = [arg EXCEPT ![a] = <<{}, {}>>]
  /\ IF closed
     THEN Goto(a, "idle") /\ UNCHANGED <<event, lk, scan, acc>>
     ELSE /\ event' = Updated(arg[a])
          /\ IF should_suspend(event')
             THEN /\ lk' = a /\ scan' = wakers /\ acc' = {}
                  /\ Goto(a, "scan")
             ELSE Goto(a, "idle") /\ UNCHANGED <<lk, scan, acc>>
  /\ UNCHANGED <<suspend_event, closed, wakers, notified, nodevars>>

(* pop_when_race: one node of the list.  A node that waits for nothing of   *)
(* the current event is kept; another one is marked, woken, unlinked.       *)
keep(a) ==
  /\ pc[a] = "scan" /\ scan # <<>>
  /\ mask[Head(scan)] \cap event = {}
  /\ acc' = acc \cup mask[Head(scan)]
  /\ scan' = Tail(scan)
  /\ UNCHANGED <<busvars, wakers, lk, pc, notified, nodevars, arg>>

(* Mutation: the node is unlinked before its thread is woken. *)
mark_popped(a) ==
  /\ pc[a] = "scan" /\ scan # <<>>
  /\ mask[Head(scan)] \cap event # {}
  /\ suspend' = [suspend EXCEPT ![Head(scan)] = event]
  /\ wakers' = pop_self(wakers, Head(scan))
  /\ node' = [node EXCEPT ![Head(scan)] = "self"]
  /\ Goto(a, "wake")
  /\ UNCHANGED <<busvars, lk, notified, mask, loopvars>>

mark(a) ==
  /\ pc[a] = "scan" /\ scan # <<>>
  /\ mask[Head(scan)] \cap event # {}
  /\ suspend' = [suspend EXCEPT ![Head(scan)] = event]
  /\ Goto(a, "wake")
  /\ UNCHANGED <<busvars, wakers, lk, notified, mask, node, loopvars>>

(* Mutation: the marked thread is not woken. *)
wake_forgotten(a) ==
  /\ pc[a] = "wake"
  /\ Goto(a, "unlink")
  /\ UNCHANGED <<busvars, wakers, lk, notified, nodevars, loopvars>>

wake(a) ==
  /\ pc[a] = "wake"
  /\ WakeAnd(Head(scan), a, "unlink")
  /\ UNCHANGED <<busvars, wakers, lk, nodevars, loopvars>>

(* pop_self: the neighbours are joined and init() stores prev, then next.   *)
(* Storing prev lets the thread free the node.                              *)
unlink(a) ==
  /\ pc[a] = "unlink"
  /\ wakers' = pop_self(wakers, Head(scan))
  /\ node' = [node EXCEPT ![Head(scan)] = "self"]
  /\ Goto(a, "store_next")
  /\ UNCHANGED <<busvars, lk, notified, mask, suspend, loopvars>>

store_next(a) ==
  /\ pc[a] = "store_next"
  /\ scan' = Tail(scan)
  /\ Goto(a, "scan")
  /\ UNCHANGED <<busvars, wakers, lk, notified, nodevars, arg, acc>>

(* Mutation: the summary of the masks of the nodes that stay is lost. *)
finish_forgetful(a) ==
  /\ pc[a] = "scan" /\ scan = <<>>
  /\ suspend_event' = {}
  /\ lk' = Nobody /\ acc' = {}
  /\ Goto(a, "idle")
  /\ UNCHANGED <<event, closed, wakers, notified, nodevars, arg, scan>>

finish(a) ==
  /\ pc[a] = "scan" /\ scan = <<>>
  /\ suspend_event' = acc
  /\ lk' = Nobody /\ acc' = {}
  /\ Goto(a, "idle")
  /\ UNCHANGED <<event, closed, wakers, notified, nodevars, arg, scan>>

-----------------------------------------------------------------------------
(* wait_for_event: the first poll looks at the events without the lock.     *)
wait_for_event(t, m) ==
  /\ pc[t] = "idle" /\ event \cap m = {}
  /\ mask' = [mask EXCEPT ![t] = m]
  /\ Goto(t, "register")
  /\ UNCHANGED <<busvars, wakers, lk, notified, suspend, node, loopvars>>

(* Mutation: the events are not looked at again under the lock. *)
register_unchecked(t) ==
  /\ pc[t] = "register" /\ lk = Nobody
  /\ suspend_event' = suspend_event \cup mask[t]
  /\ wakers' = Append(wakers, t)
  /\ node' = [node EXCEPT ![t] = "linked"]
  /\ Goto(t, "park")
  /\ UNCHANGED <<event, closed, lk, notified, mask, suspend, loopvars>>

(* Mutation: the node is linked without the lock. *)
register_lockless(t) ==
  /\ pc[t] = "register" /\ event \cap mask[t] = {}
  /\ suspend_event' = suspend_event \cup mask[t]
  /\ wakers' = Append(wakers, t)
  /\ node' = [node EXCEPT ![t] = "linked"]
  /\ Goto(t, "park")
  /\ UNCHANGED <<event, closed, lk, notified, mask, suspend, loopvars>>

(* ... and registers a new node under the lock: an event that came since    *)
(* marks the node at once and makes the thread run again.                   *)
register(t) ==
  /\ pc[t] = "register" /\ lk = Nobody
  /\ IF event \cap mask[t] # {}
     THEN /\ suspend' = [suspend EXCEPT ![t] = event]
          /\ node' = [node EXCEPT ![t] = "self"]
          /\ WakeAnd(t, t, "park")
          /\ UNCHANGED <<suspend_event, wakers>>
     ELSE /\ suspend_event' = suspend_event \cup mask[t]
          /\ wakers' = Append(wakers, t)
          /\ node' = [node EXCEPT ![t] = "linked"]
          /\ Goto(t, "park")
          /\ UNCHANGED <<suspend, notified>>
  /\ UNCHANGED <<event, closed, lk, mask, loopvars>>

park(t) ==
  /\ pc[t] = "park"
  /\ Goto(t, IF notified[t] THEN "poll" ELSE "parked")
  /\ notified' = [notified EXCEPT ![t] = FALSE]
  /\ UNCHANGED <<busvars, wakers, lk, nodevars, loopvars>>

(* The task is woken by something else: a timer, a pipe, another event. *)
spurious(t) ==
  /\ pc[t] = "parked"
  /\ Goto(t, "poll")
  /\ UNCHANGED <<busvars, wakers, lk, notified, nodevars, loopvars>>

poll(t) ==
  /\ pc[t] = "poll"
  /\ Goto(t, IF suspend[t] # {} THEN "remove" ELSE "park")
  /\ UNCHANGED <<busvars, wakers, lk, notified, nodevars, loopvars>>

(* The other branch of Join2Future or TimeoutFuture is ready: the future is *)
(* dropped and Drop removes the node.                                       *)
cancel(t) ==
  /\ pc[t] = "poll"
  /\ Goto(t, "remove")
  /\ UNCHANGED <<busvars, wakers, lk, notified, nodevars, loopvars>>

(* EventBus::remove: an unlinked node is not looked at under the lock. *)
Free(t) ==
  /\ node' = [node EXCEPT ![t] = "none"]
  /\ suspend' = [suspend EXCEPT ![t] = {}] /\ mask' = [mask EXCEPT ![t] = {}]
  /\ Goto(t, "idle")

remove(t) ==
  /\ pc[t] = "remove"
  /\ IF node[t] = "self" THEN Free(t) ELSE Goto(t, "remove_locked") /\ UNCHANGED nodevars
  /\ UNCHANGED <<busvars, wakers, lk, notified, loopvars>>

(* Mutation: the node is freed but stays in the list. *)
remove_leaky(t) ==
  /\ pc[t] = "remove_locked" /\ lk = Nobody
  /\ Free(t)
  /\ UNCHANGED <<busvars, wakers, lk, notified, loopvars>>

remove_locked(t) ==
  /\ pc[t] = "remove_locked" /\ lk = Nobody
  /\ wakers' = pop_self(wakers, t)
  /\ Free(t)
  /\ UNCHANGED <<busvars, lk, notified, loopvars>>

(* Mutation: every thread that leaves closes the bus. *)
exit_early(t) ==
  /\ pc[t] = "idle" /\ lk = Nobody
  /\ closed' = TRUE /\ wakers' = <<>>
  /\ Goto(t, "dead")
  /\ UNCHANGED <<event, suspend_event, lk, notified, nodevars, loopvars>>

(* exit_impl: the last thread of the process closes the bus, which unlinks  *)
(* and wakes whoever still waits.                                           *)
exit(t) ==
  /\ pc[t] = "idle"
  /\ IF \A u \in Threads \ {t} : pc[u] = "dead"
     THEN lk = Nobody /\ closed' = TRUE /\ wakers' = <<>>
     ELSE UNCHANGED <<closed, wakers>>
  /\ Goto(t, "dead")
  /\ UNCHANGED <<event, suspend_event, lk, notified, nodevars, loopvars>>

Terminated == closed /\ (\A a \in Actors : pc[a] \in {"idle", "dead"}) /\ UNCHANGED vars

BusStep(a) == update(a) \/ keep(a) \/ mark(a) \/ wake(a) \/ unlink(a) \/ store_next(a) \/ finish(a)
WaitStep(t) == register(t) \/ park(t) \/ poll(t) \/ remove(t) \/ remove_locked(t)

Next ==
  \/ \E a \in Actors : BusStep(a) \/ \E u \in Updates : clear_then_set(a, u)
  \/ \E t \in Threads :
       WaitStep(t) \/ spurious(t) \/ cancel(t) \/ exit(t) \/ \E m \in (SUBSET Events) \ {{}} : wait_for_event(t, m)
  \/ Terminated

Spec == Init /\ [][Next]_vars

(* The executor keeps running scheduled tasks and a critical section ends:  *)
(* an actor takes the step its pc stands for.                               *)
Fairness == \A a \in Actors : WF_vars(BusStep(a) \/ (a \in Threads /\ WaitStep(a)))

FairSpec == Spec /\ Fairness

-----------------------------------------------------------------------------
Walking == {"scan", "wake", "unlink", "store_next"}
PCs == {"idle", "update", "scan", "wake", "unlink", "store_next",
        "register", "park", "parked", "poll", "remove", "remove_locked", "dead"}

Once(list) == \A i, j \in 1..Len(list) : list[i] = list[j] => i = j

(* Every variable has its type, and the list holds a node once. *)
TypeOK ==
  /\ event \in SUBSET Events /\ suspend_event \in SUBSET Events /\ closed \in BOOLEAN
  /\ wakers \in Seq(Threads) /\ Once(wakers)
  /\ scan \in Seq(Threads) /\ acc \in SUBSET Events
  /\ lk \in Actors \cup {Nobody}
  /\ pc \in [Actors -> PCs] /\ notified \in [Threads -> BOOLEAN]
  /\ mask \in [Threads -> SUBSET Events] /\ suspend \in [Threads -> SUBSET Events]
  /\ node \in [Threads -> {"none", "self", "linked"}]
  /\ arg \in [Actors -> (SUBSET Events) \X (SUBSET Events)]

(* suspend() wakes only a node that exists: until the setter has unlinked a *)
(* node, its thread can free it only under the lock the setter holds        *)
(* (comment in EventBusInner::suspend).                                     *)
WakeValid ==
  \A a \in Actors : pc[a] \in {"wake", "unlink"} => node[Head(scan)] = "linked"

(* The store of next that ends pop_self may follow the freeing of the node, *)
(* but never lands in a node its thread has registered anew.                *)
LateStoreHarmless ==
  \A a \in Actors : pc[a] = "store_next" => node[Head(scan)] # "linked"

(* While the lock is free no registered node waits for an event that is     *)
(* set, and suspend_event, which decides whether set() visits the list at   *)
(* all, covers the masks of the registered nodes and no event that is set   *)
(* (assertions in EventBusInner::close and EventBusInner::drop).            *)
SuspendCovers ==
  lk = Nobody =>
    /\ event \cap suspend_event = {}
    /\ \A t \in Nodes(wakers) : mask[t] \subseteq suspend_event

(* A thread sleeps only with a node in the list.  If an event of its mask is *)
(* set, the setter is still on its way to the node; if the node is marked,  *)
(* the setter is about to wake its thread.                                  *)
NoLostEvent ==
  \A t \in Threads : pc[t] = "parked" =>
    /\ node[t] = "linked"
    /\ mask[t] \cap event # {} => lk # Nobody /\ pc[lk] \in Walking /\ t \in Nodes(scan)
    /\ suspend[t] # {} => lk # Nobody /\ pc[lk] = "wake" /\ Head(scan) = t

(* Once the bus is closed no thread of the process waits on it, so poll's   *)
(* debug_assert!(close_check().is_ok()) holds.                              *)
ClosedMeansQuiet ==
  closed => wakers = <<>> /\ \A t \in Threads : pc[t] = "dead"

(* The setter wakes only nodes that exist, and its last store to a node      *)
(* never lands in one that is registered anew.                               *)
NodesSafe == WakeValid /\ LateStoreHarmless

(* suspend_event covers every registered mask, a sleeper's event is never    *)
(* set without a setter on its way, and a closed bus has no waiter.          *)
EventsKept == SuspendCovers /\ NoLostEvent /\ ClosedMeansQuiet

(* A thread asleep while an event it waits for is set eventually runs. *)
EventDelivered ==
  \A t \in Threads : pc[t] = "parked" /\ mask[t] \cap event # {} ~> pc[t] # "parked"
=============================================================================
