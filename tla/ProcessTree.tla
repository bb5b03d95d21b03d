---------------------------- MODULE ProcessTree -----------------------------
(***************************************************************************)
(* Processes that fork, exit and wait for children: ChildrenSet, exit_impl *)
(* and sys_wait4, with the CHILD_PROCESS_QUIT event of each process's bus  *)
(* (the bus itself is modelled in EventBus; its operations are steps here).*)
(*                                                                         *)
(* A body under a process's alive lock is one step; become_zomble holds    *)
(* the parent's lock over two steps.                                       *)
(***************************************************************************)
EXTENDS FiniteSets, ProcessShape

VARIABLES
  life,      \* each process: unborn, alive (AliveProcess is Some), exited, or reaped
  parent,    \* AliveProcess.parent
  children,  \* AliveProcess.children
  quit,      \* CHILD_PROCESS_QUIT in EventBusInner.event
  wakers,    \* the threads registered in the bus of each process
  fired,     \* BusNode.suspend of each thread is not empty
  pc,        \* where each thread is
  target,    \* what each thread waits for, or whom it notifies of its exit
  taken      \* the children an exiting thread took out of its process

vars == <<life, parent, children, quit, wakers, fired, pc, target, taken>>

Empty == [alive |-> {}, zombie |-> {}, pending |-> {}]
AnyChild == Procs      \* wait4(-1); wait4(pid) is a set of one process

Members(c) == c.alive \cup c.zombie
IsEmpty(c) == Members(c) \cup c.pending = {}

ThreadsOf(p) == {t \in Tids : process[t] = p}

Init ==
  /\ life = [p \in Procs |-> IF p = initproc THEN "alive" ELSE "unborn"]
  /\ parent = [p \in Procs |-> p]
  /\ children = [p \in Procs |-> Empty]
  /\ quit = [p \in Procs |-> FALSE]
  /\ wakers = [p \in Procs |-> {}]
  /\ fired = [t \in Tids |-> FALSE]
  /\ pc = [t \in Tids |-> IF process[t] = initproc THEN "user" ELSE "unborn"]
  /\ target = [t \in Tids |-> {}]
  /\ taken = [t \in Tids |-> Empty]

Goto(t, l) == pc' = [pc EXCEPT ![t] = l]

(* The alive lock of p is held over two steps by the thread that reports to it. *)
Locked(p) == \E t \in Tids : pc[t] = "notify" /\ target[t] = {p}

-----------------------------------------------------------------------------
(* ChildrenSet *)

push_child(c, p) ==
  IF p \in c.pending
  THEN [c EXCEPT !.pending = @ \ {p}, !.zombie = @ \cup {p}]
  ELSE [c EXCEPT !.alive = @ \cup {p}]

(* Mutation: the zombie stays among the living. *)
become_zombie_kept(c, p) ==
  IF p \in c.alive
  THEN [c EXCEPT !.zombie = @ \cup {p}]
  ELSE [c EXCEPT !.pending = @ \cup {p}]

become_zombie(c, p) ==
  IF p \in c.alive
  THEN [c EXCEPT !.alive = @ \ {p}, !.zombie = @ \cup {p}]
  ELSE [c EXCEPT !.pending = @ \cup {p}]

(* Mutation: the pending sets are merged but not applied to the new children. *)
append_unresolved(c, src) ==
  [alive |-> c.alive \cup src.alive,
   zombie |-> c.zombie \cup src.zombie,
   pending |-> c.pending \cup src.pending]

(* Every pending process of either set is put through become_zombie. *)
append(c, src) ==
  LET alive == c.alive \cup src.alive
      pending == c.pending \cup src.pending
  IN  [alive |-> alive \ pending,
       zombie |-> c.zombie \cup src.zombie \cup (alive \cap pending),
       pending |-> pending \ alive]

(* Mutation: the nodes that are woken stay linked. *)
set_no_pop(p) ==
  IF life[p] = "alive"
  THEN /\ quit' = [quit EXCEPT ![p] = TRUE]
       /\ fired' = [t \in Tids |-> fired[t] \/ t \in wakers[p]]
       /\ UNCHANGED wakers
  ELSE UNCHANGED <<quit, fired, wakers>>

(* EventBus::set(CHILD_PROCESS_QUIT) on the bus of p: nothing if it is closed;
   else every registered thread is popped and woken. *)
set(p) ==
  IF life[p] = "alive"
  THEN /\ quit' = [quit EXCEPT ![p] = TRUE]
       /\ fired' = [t \in Tids |-> fired[t] \/ t \in wakers[p]]
       /\ wakers' = [wakers EXCEPT ![p] = {}]
  ELSE UNCHANGED <<quit, fired, wakers>>

-----------------------------------------------------------------------------
(* Process::fork, called by a thread of p: the child starts with its threads. *)
fork(t, c) ==
  LET p == process[t] IN
  /\ pc[t] = "user" /\ ~Locked(p)
  /\ life[c] = "unborn"
  /\ life' = [life EXCEPT ![c] = "alive"]
  /\ parent' = [parent EXCEPT ![c] = p]
  /\ children' = [children EXCEPT ![p] = push_child(@, c)]
  /\ pc' = [s \in Tids |-> IF process[s] = c THEN "user" ELSE pc[s]]
  /\ UNCHANGED <<quit, wakers, fired, target, taken>>

(* sys_wait4 is entered for the children in w: wait4(-1), or by a process other
   than initproc the pid of one of its children. *)
sys_wait4(t, w) ==
  /\ pc[t] = "user"
  /\ w # AnyChild => process[t] # initproc /\ w \subseteq Members(children[process[t]])
  /\ target' = [target EXCEPT ![t] = w]
  /\ Goto(t, "check")
  /\ UNCHANGED <<life, parent, children, quit, wakers, fired, taken>>

(* The locked body of its loop: a zombie is removed and returned, or there is no
   child at all (ECHILD), or the thread goes to wait. *)
check(t) ==
  LET p == process[t]
      found == children[p].zombie \cap target[t]
  IN  /\ pc[t] = "check" /\ ~Locked(p)
      /\ \/ \E c \in found :
              /\ children' = [children EXCEPT ![p].zombie = @ \ {c}]
              /\ life' = [life EXCEPT ![c] = "reaped"]
              /\ Goto(t, "user")
              /\ target' = [target EXCEPT ![t] = {}]
         \/ /\ found = {} /\ IsEmpty(children[p])
            /\ Goto(t, "user")
            /\ target' = [target EXCEPT ![t] = {}]
            /\ UNCHANGED <<life, children>>
         \/ /\ found = {} /\ ~IsEmpty(children[p])
            /\ Goto(t, "poll")
            /\ UNCHANGED <<life, children, target>>
      /\ UNCHANGED <<parent, quit, wakers, fired, taken>>

(* The first poll of EventBusFuture reads the event without the lock. *)
poll(t) ==
  /\ pc[t] = "poll"
  /\ Goto(t, IF quit[process[t]] THEN "clear" ELSE "register")
  /\ UNCHANGED <<life, parent, children, quit, wakers, fired, target, taken>>

(* Mutation: register does not look at the event again under the lock. *)
register_blind(t) ==
  /\ pc[t] = "register"
  /\ wakers' = [wakers EXCEPT ![process[t]] = @ \cup {t}]
  /\ Goto(t, "wait")
  /\ UNCHANGED <<life, parent, children, quit, fired, target, taken>>

(* EventBusInner::register *)
register(t) ==
  /\ pc[t] = "register"
  /\ IF quit[process[t]]
     THEN fired' = [fired EXCEPT ![t] = TRUE] /\ UNCHANGED wakers
     ELSE wakers' = [wakers EXCEPT ![process[t]] = @ \cup {t}] /\ UNCHANGED fired
  /\ Goto(t, "wait")
  /\ UNCHANGED <<life, parent, children, quit, target, taken>>

(* The poll that finds the node suspended. *)
ready(t) ==
  /\ pc[t] = "wait" /\ fired[t]
  /\ fired' = [fired EXCEPT ![t] = FALSE]
  /\ Goto(t, "clear")
  /\ UNCHANGED <<life, parent, children, quit, wakers, target, taken>>

(* event_bus.clear(CHILD_PROCESS_QUIT) *)
clear(t) ==
  /\ pc[t] = "clear"
  /\ quit' = [quit EXCEPT ![process[t]] = FALSE]
  /\ Goto(t, "check")
  /\ UNCHANGED <<life, parent, children, wakers, fired, target, taken>>

-----------------------------------------------------------------------------
(* exit_impl under the process's lock: the last thread closes the bus and takes
   the parent and the children; the process is a corpse from here on. *)
exit_impl(t) ==
  LET p == process[t] IN
  /\ pc[t] = "user" /\ p # initproc /\ ~Locked(p)
  /\ IF \A s \in ThreadsOf(p) \ {t} : pc[s] = "dead"
     THEN /\ life' = [life EXCEPT ![p] = "exited"]
          /\ quit' = [quit EXCEPT ![p] = FALSE]
          /\ target' = [target EXCEPT ![t] = {parent[p]}]
          /\ taken' = [taken EXCEPT ![t] = children[p]]
          /\ children' = [children EXCEPT ![p] = Empty]
          /\ Goto(t, "report")
     ELSE /\ Goto(t, "dead")
          /\ UNCHANGED <<life, quit, target, taken, children>>
  /\ UNCHANGED <<parent, wakers, fired>>

(* Mutation: a parent that has exited is still told of the zombie. *)
Heir_parent(t) == CHOOSE p \in target[t] : TRUE

(* The parent if it is alive, else initproc. *)
Heir(t) ==
  LET p == CHOOSE q \in target[t] : TRUE
  IN  IF life[p] = "alive" THEN p ELSE initproc

(* become_zomble: the zombie is registered, under the heir's lock... *)
report(t) ==
  LET q == Heir(t) IN
  /\ pc[t] = "report" /\ ~Locked(q)
  /\ children' = [children EXCEPT ![q] = become_zombie(@, process[t])]
  /\ target' = [target EXCEPT ![t] = {q}]
  /\ Goto(t, "notify")
  /\ UNCHANGED <<life, parent, quit, wakers, fired, taken>>

(* ... and the event is set before the lock is released. *)
notify(t) ==
  /\ pc[t] = "notify"
  /\ \E q \in target[t] : set(q)
  /\ target' = [target EXCEPT ![t] = {}]
  /\ Goto(t, IF IsEmpty(taken[t]) THEN "dead" ELSE "throw")
  /\ UNCHANGED <<life, parent, children, taken>>

(* throw_children under the lock of initproc *)
throw_children(t) ==
  /\ pc[t] = "throw" /\ ~Locked(initproc)
  /\ children' = [children EXCEPT ![initproc] = append(@, taken[t])]
  /\ taken' = [taken EXCEPT ![t] = Empty]
  /\ Goto(t, IF children'[initproc].zombie # {} THEN "throw_set" ELSE "dead")
  /\ UNCHANGED <<life, parent, quit, wakers, fired, target>>

(* Mutation: initproc is not told of the zombies it inherits. *)
throw_set_forgotten(t) ==
  /\ pc[t] = "throw_set"
  /\ Goto(t, "dead")
  /\ UNCHANGED <<life, parent, children, quit, wakers, fired, target, taken>>

(* Its event, set after the lock is released. *)
throw_set(t) ==
  /\ pc[t] = "throw_set"
  /\ set(initproc)
  /\ Goto(t, "dead")
  /\ UNCHANGED <<life, parent, children, target, taken>>

-----------------------------------------------------------------------------
(* The steps of a wait4 and of an exit that are under way. *)
Waits(t) == check(t) \/ poll(t) \/ register(t) \/ ready(t) \/ clear(t)
Exits(t) == report(t) \/ notify(t) \/ throw_children(t) \/ throw_set(t)

Next == \E t \in Tids :
  \/ \E c \in Procs : fork(t, c) \/ sys_wait4(t, {c})
  \/ sys_wait4(t, AnyChild)
  \/ Waits(t) \/ exit_impl(t) \/ Exits(t)

(* System calls that have begun go on, and initproc calls wait4(-1) for ever: *)
(* at every pc at most one of the disjuncts is enabled.                     *)
GoesOn(t) == Waits(t) \/ Exits(t) \/ (process[t] = initproc /\ sys_wait4(t, AnyChild))

Fairness == \A t \in Tids : WF_vars(GoesOn(t))

Spec == Init /\ [][Next]_vars /\ Fairness

-----------------------------------------------------------------------------
PCs == {"unborn", "user", "check", "poll", "register", "wait", "clear",
        "report", "notify", "throw", "throw_set", "dead"}
Sets == [alive : SUBSET Procs, zombie : SUBSET Procs, pending : SUBSET Procs]

(* Types, and a node linked in a bus belongs to a thread that waits unsuspended. *)
TypeOK ==
  /\ life \in [Procs -> {"unborn", "alive", "exited", "reaped"}]
  /\ parent \in [Procs -> Procs]
  /\ children \in [Procs -> Sets]
  /\ quit \in [Procs -> BOOLEAN]
  /\ wakers \in [Procs -> SUBSET Tids]
  /\ \A p \in Procs : \A t \in wakers[p] : process[t] = p /\ pc[t] = "wait" /\ ~fired[t]
  /\ fired \in [Tids -> BOOLEAN]
  /\ pc \in [Tids -> PCs]
  /\ target \in [Tids -> SUBSET Procs]
  /\ taken \in [Tids -> Sets]

(* The children sets that exist: those of processes and those on their way to
   initproc. *)
Homes == {<<"p", p>> : p \in Procs} \cup {<<"t", t>> : t \in Tids}
Home(h) == IF h[1] = "p" THEN children[h[2]] ELSE taken[h[2]]

(* Every process that was forked and not reaped is in exactly one children set,
   in one of its two maps; a reaped one is in none.  So no child is lost or
   reaped twice however exits of parent and child interleave, and the panics of
   push_alive_child and push_zombie_child cannot fire. *)
OneHome ==
  \A p \in Procs \ {initproc} :
    /\ Cardinality({h \in Homes : p \in Members(Home(h))}) =
         IF life[p] \in {"alive", "exited"} THEN 1 ELSE 0
    /\ \A h \in Homes : p \notin Home(h).alive \cap Home(h).zombie

(* A zombie that its heir does not know yet is on its way to it, in the hands of an
   exiting parent: zombie_pending is always resolved, and "double insert zombie"
   cannot fire. *)
PendingOnItsWay ==
  \A p, q \in Procs : q \in children[p].pending =>
    /\ p = initproc /\ life[q] = "exited"
    /\ \E t \in Tids : q \in taken[t].alive

(* A process is listed as a zombie only when it has exited, and the ChildrenSet of
   a process that is dropped is empty, as its Drop asserts. *)
ZombiesAreDead ==
  \A h \in Homes : /\ \A q \in Home(h).zombie : life[q] = "exited"
                   /\ h[1] = "p" /\ life[h[2]] # "alive" => IsEmpty(Home(h))

(* No child is lost, listed twice or reaped twice, a report that comes before the
   child is resolved, and what is dropped is empty. *)
ChildrenSafe == OneHome /\ PendingOnItsWay /\ ZombiesAreDead

(* Every orphan that exits is reaped by initproc. *)
OrphansReaped ==
  \A p \in Procs : life[p] = "exited" /\ life[parent[p]] # "alive" ~> life[p] = "reaped"

(* A thread does not sleep in wait4 beside a zombie it waits for, unless somebody is
   about to set the event of its process or another thread of the process is awake
   in wait4: wait_for_event, clear and the check of the children lose no
   CHILD_PROCESS_QUIT. *)
NoSleepBesideZombie ==
  \A t \in Tids :
    LET p == process[t] IN
    pc[t] = "wait" /\ ~fired[t] /\ children[p].zombie \cap target[t] # {} =>
      \E s \in Tids :
        \/ pc[s] = "notify" /\ target[s] = {p}
        \/ pc[s] = "throw_set" /\ p = initproc
        \/ process[s] = p /\ (fired[s] \/ pc[s] \in {"check", "poll", "register", "clear"})
=============================================================================
