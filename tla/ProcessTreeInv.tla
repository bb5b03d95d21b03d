-------------------------- MODULE ProcessTreeInv ----------------------------
(***************************************************************************)
(* The inductive invariant of ProcessTree, and the proof that it is one, for *)
(* every set of processes and threads.                                      *)
(***************************************************************************)
EXTENDS ProcessTree, TLAPS

Serving == {"user", "check", "poll", "register", "wait", "clear"}
Exiting == {"report", "notify", "throw", "throw_set"}
Carrying == {"report", "notify", "throw"}

(* The last thread of p has told p's heir. *)
Reported(p) == \A t \in Tids : process[t] = p => pc[t] # "report"

(* What the place of a thread says about its process: calls are made by      *)
(* living processes, and an exit is the work of the one thread that is left. *)
ThreadInv ==
  /\ life[initproc] = "alive"
  /\ \A p \in Procs : life[p] # "unborn" => life[parent[p]] # "unborn"
  /\ \A t \in Tids :
       /\ pc[t] = "unborn" <=> life[process[t]] = "unborn"
       /\ pc[t] \in Serving => life[process[t]] = "alive"
       /\ pc[t] \in Exiting =>
            /\ life[process[t]] \in {"exited", "reaped"}
            /\ \A s \in Tids : process[s] = process[t] /\ s # t => pc[s] = "dead"
       /\ pc[t] = "report" => life[process[t]] = "exited" /\ target[t] = {parent[process[t]]}
       /\ pc[t] \notin Carrying => taken[t] = Empty
       /\ fired[t] => pc[t] = "wait"

(* The children of a process are its own; initproc also has those of         *)
(* processes that are gone.                                                  *)
ChildInv ==
  \A q \in Procs : \A p \in Members(children[q]) :
    /\ p # initproc /\ life[p] \in {"alive", "exited"} /\ life[q] = "alive"
    /\ q = parent[p] \/ (q = initproc /\ life[parent[p]] # "alive")
    /\ \A t \in Tids : p \notin Members(taken[t])

(* What an exiting thread has taken with it are the children of its process. *)
TakenInv ==
  \A t \in Tids :
    /\ taken[t].pending = {}
    /\ \A p \in Members(taken[t]) :
         p # initproc /\ life[p] \in {"alive", "exited"} /\ process[t] = parent[p]

(* Nobody who is forked and not reaped is forgotten. *)
KnownInv ==
  \A p \in Procs \ {initproc} : life[p] \in {"alive", "exited"} =>
    \/ \E q \in Procs : p \in Members(children[q])
    \/ \E t \in Tids : p \in Members(taken[t])

(* The zombies of a set have reported, and are not among its living. *)
SplitInv(c) ==
  /\ c.alive \cap c.zombie = {}
  /\ \A p \in c.zombie : life[p] = "exited" /\ Reported(p)

(* A process that is listed as living and has exited is about to report, or  *)
(* its report waits at initproc for the set it is in.                        *)
AliveInv ==
  /\ \A q \in Procs : \A p \in children[q].alive : life[p] = "exited" => ~Reported(p)
  /\ \A t \in Tids : \A p \in taken[t].alive :
       life[p] = "exited" => ~Reported(p) \/ p \in children[initproc].pending

PendingInv ==
  \A q \in Procs : \A p \in children[q].pending :
    /\ q = initproc /\ life[p] = "exited" /\ Reported(p)
    /\ \E t \in Tids : p \in taken[t].alive

ListInv ==
  /\ ChildInv /\ TakenInv /\ KnownInv /\ AliveInv /\ PendingInv
  /\ \A q \in Procs : SplitInv(children[q])
  /\ \A t \in Tids : SplitInv(taken[t])

IInv == TypeOK /\ ThreadInv /\ ListInv

-----------------------------------------------------------------------------
(* The operations of a ChildrenSet, field by field. *)
LEMMA SetsFields ==
  ASSUME NEW c \in Sets
  PROVE  c.alive \in SUBSET Procs /\ c.zombie \in SUBSET Procs /\ c.pending \in SUBSET Procs
  BY Zenon DEF Sets

(* A fork adds a living child. *)
LEMMA PushChild ==
  ASSUME NEW c \in Sets, NEW p \in Procs, p \notin c.pending
  PROVE  /\ push_child(c, p) \in Sets
         /\ push_child(c, p).alive = c.alive \cup {p}
         /\ push_child(c, p).zombie = c.zombie
         /\ push_child(c, p).pending = c.pending
  BY Zenon DEF push_child, Sets

(* A report moves a living child, or waits for a child that comes later. *)
LEMMA BecomeZombie ==
  ASSUME NEW c \in Sets, NEW p \in Procs
  PROVE  /\ become_zombie(c, p) \in Sets
         /\ become_zombie(c, p).alive = c.alive \ {p}
         /\ become_zombie(c, p).zombie = IF p \in c.alive THEN c.zombie \cup {p} ELSE c.zombie
         /\ become_zombie(c, p).pending = IF p \in c.alive THEN c.pending ELSE c.pending \cup {p}
<1>1. CASE p \in c.alive
  BY <1>1, Zenon DEF become_zombie, Sets
<1>2. CASE p \notin c.alive
  BY <1>2, Zenon DEF become_zombie, Sets
<1> QED
  BY <1>1, <1>2, Zenon

(* Inherited children: what waited is resolved against what came. *)
LEMMA AppendSets ==
  ASSUME NEW c \in Sets, NEW d \in Sets
  PROVE  /\ append(c, d) \in Sets
         /\ append(c, d).alive = (c.alive \cup d.alive) \ (c.pending \cup d.pending)
         /\ append(c, d).zombie = c.zombie \cup d.zombie \cup ((c.alive \cup d.alive) \cap (c.pending \cup d.pending))
         /\ append(c, d).pending = (c.pending \cup d.pending) \ (c.alive \cup d.alive)
  BY Zenon DEF append, Sets

(* A process starts, and a dead one is left, with no children. *)
LEMMA EmptySets ==
  /\ Empty \in Sets /\ Empty.alive = {} /\ Empty.zombie = {} /\ Empty.pending = {}
  /\ Members(Empty) = {}
  BY Zenon DEF Empty, Sets, Members

(* The start of the kernel satisfies the invariant. *)
LEMMA InitInv == Init => IInv
<1> SUFFICES ASSUME Init PROVE IInv
  BY Zenon
<1> USE ShapeOK, EmptySets
<1>1. TypeOK
  BY Zenon DEF Init, TypeOK, PCs
<1>2. ThreadInv
  BY Zenon DEF Init, ThreadInv, Serving, Exiting, Carrying
<1>3. ListInv
  BY Zenon DEF Init, ListInv, ChildInv, TakenInv, KnownInv, AliveInv, PendingInv, SplitInv
<1> QED
  BY <1>1, <1>2, <1>3, Zenon DEF IInv

-----------------------------------------------------------------------------
(* wait4 of a thread of p removes the zombie c. *)
Reaps(p, c) ==
  /\ children' = [children EXCEPT ![p] = [children[p] EXCEPT !.zombie = children[p].zombie \ {c}]]
  /\ life' = [life EXCEPT ![c] = "reaped"]

(* Reaping takes one zombie and nothing else. *)
LEMMA ReapedSet ==
  ASSUME NEW c \in Sets, NEW p \in Procs
  PROVE  LET d == [c EXCEPT !.zombie = c.zombie \ {p}]
         IN  d \in Sets /\ d.alive = c.alive /\ d.zombie = c.zombie \ {p} /\ d.pending = c.pending
  BY Zenon DEF Sets

(* The outcomes of the locked body of wait4. *)
LEMMA CheckCases ==
  ASSUME TypeOK, NEW t \in Tids, check(t)
  PROVE  /\ pc[t] = "check" /\ UNCHANGED <<parent, quit, wakers, fired, taken>>
         /\ \/ \E c \in Procs : /\ c \in children[process[t]].zombie /\ c \in target[t]
                                /\ Reaps(process[t], c) /\ Goto(t, "user")
            \/ Goto(t, "user") /\ UNCHANGED <<life, children>>
            \/ Goto(t, "poll") /\ UNCHANGED <<life, children, target>> /\ children[process[t]].zombie \cap target[t] = {}
<1>1. target[t] \in SUBSET Procs
  BY Zenon DEF TypeOK
<1> QED
  BY <1>1, Zenon DEF check, Reaps

-----------------------------------------------------------------------------
(* The event of a process is set: its nodes are unlinked and marked. *)
LEMMA SetType ==
  ASSUME TypeOK, NEW p \in Procs, set(p)
  PROVE  /\ quit' \in [Procs -> BOOLEAN] /\ fired' \in [Tids -> BOOLEAN]
         /\ wakers' \in [Procs -> SUBSET Tids]
         /\ \A q \in Procs : \A t \in wakers'[q] : t \in wakers[q] /\ ~fired'[t]
<1>1. CASE life[p] = "alive"
  <2>1. \A q \in Procs : \A t \in wakers[q] : t \in Tids /\ process[t] = q
    BY Zenon DEF TypeOK
  <2>2. wakers' \in [Procs -> SUBSET Tids]
    BY <1>1, Zenon DEF set, TypeOK
  <2>3. \A q \in Procs : \A t \in wakers'[q] : t \in wakers[q] /\ q # p
    BY <1>1, Zenon DEF set, TypeOK
  <2>4. fired' \in [Tids -> BOOLEAN] /\ quit' \in [Procs -> BOOLEAN]
    <3>1. \A t \in Tids : (fired[t] \/ t \in wakers[p]) \in BOOLEAN
      BY Zenon DEF TypeOK
    <3>2. fired' \in [Tids -> BOOLEAN]
      BY <1>1, <3>1, Zenon DEF set
    <3>3. quit' \in [Procs -> BOOLEAN]
      BY <1>1, Zenon DEF set, TypeOK
    <3> QED
      BY <3>2, <3>3, Zenon
  <2>5. \A q \in Procs : \A t \in wakers'[q] : ~fired[t] /\ t \notin wakers[p]
    BY <2>1, <2>3 DEF TypeOK
  <2>6. \A q \in Procs : \A t \in wakers'[q] : ~fired'[t]
    BY <1>1, <2>1, <2>3, <2>5, Zenon DEF set
  <2> QED
    BY <2>2, <2>3, <2>4, <2>6, Zenon
<1>2. CASE life[p] # "alive"
  BY <1>2 DEF set, TypeOK
<1> QED
  BY <1>1, <1>2, Zenon

(* Every step keeps the types. *)
LEMMA TypeStep ==
  ASSUME TypeOK, ThreadInv, ListInv, Next
  PROVE  TypeOK'
<1> USE ShapeOK
<1>0. PICK t \in Tids :
         \/ \E c \in Procs : fork(t, c) \/ sys_wait4(t, {c})
         \/ sys_wait4(t, AnyChild)
         \/ Waits(t) \/ exit_impl(t) \/ Exits(t)
  BY Zenon DEF Next
<1> DEFINE p == process[t]
<1>p. p \in Procs
  BY Zenon
<1>w. \A q \in Procs : \A s \in wakers[q] : s \in Tids
  BY Zenon DEF TypeOK
<1>1. ASSUME NEW c \in Procs, fork(t, c) PROVE TypeOK'
  <2>1. c \notin children[p].pending
    BY <1>1, <1>p, Zenon DEF fork, ListInv, PendingInv
  <2>2. push_child(children[p], c) \in Sets
    BY <2>1, <1>p, PushChild DEF TypeOK
  <2>3. children' \in [Procs -> Sets]
    BY <1>1, <2>2, <1>p, Zenon DEF fork, TypeOK
  <2>4. pc' \in [Tids -> PCs]
    BY <1>1, Zenon DEF fork, TypeOK, PCs
  <2>5. \A q \in Procs : \A s \in wakers'[q] : process[s] = q /\ pc'[s] = "wait" /\ ~fired'[s]
    BY <1>1, <1>w DEF fork, TypeOK, ThreadInv, Serving
  <2> QED
    BY <1>1, <1>p, <2>3, <2>4, <2>5, Zenon DEF fork, TypeOK
<1>2. ASSUME NEW w \in SUBSET Procs, sys_wait4(t, w) PROVE TypeOK'
  BY <1>2, <1>w DEF sys_wait4, Goto, TypeOK, PCs
<1>3. CASE check(t)
  <2>1. pc[t] = "check" /\ UNCHANGED <<parent, quit, wakers, fired, taken>>
    BY <1>3, Zenon DEF check
  <2>2. children' \in [Procs -> Sets]
    <3>1. ASSUME NEW c \in Procs, Reaps(p, c) PROVE children' \in [Procs -> Sets]
      <4>1. children[p] \in Sets
        BY <1>p, Zenon DEF TypeOK
      <4>2. [children[p] EXCEPT !.zombie = children[p].zombie \ {c}] \in Sets
        BY <4>1, ReapedSet, Zenon
      <4> QED
        BY <3>1, <4>2, Zenon DEF TypeOK, Reaps
    <3> QED
      BY <3>1, <1>3, CheckCases DEF TypeOK
  <2>3. life' \in [Procs -> {"unborn", "alive", "exited", "reaped"}]
    <3>1. life' = life \/ \E c \in Procs : life' = [life EXCEPT ![c] = "reaped"]
      BY <1>3, CheckCases, Zenon DEF Reaps
    <3> QED
      BY <3>1 DEF TypeOK
  <2>4. target' \in [Tids -> SUBSET Procs]
    BY <1>3, Zenon DEF check, TypeOK
  <2>5. pc' \in [Tids -> PCs] /\ \A s \in Tids \ {t} : pc'[s] = pc[s]
    BY <1>3, CheckCases DEF Goto, TypeOK, PCs
  <2> QED
    BY <2>1, <2>2, <2>3, <2>4, <2>5, <1>w DEF TypeOK
<1>4. CASE poll(t)
  BY <1>4, <1>w DEF poll, Goto, TypeOK, PCs
<1>5. CASE register(t)
  <2>1. CASE quit[p]
    <3>0. pc' = [pc EXCEPT ![t] = "wait"] /\ fired' = [fired EXCEPT ![t] = TRUE] /\ wakers' = wakers
      BY <1>5, <2>1, Zenon DEF register, Goto
    <3>1. pc' \in [Tids -> PCs] /\ fired' \in [Tids -> BOOLEAN]
      BY <3>0, Zenon DEF TypeOK, PCs
    <3>2. \A q \in Procs : \A s \in wakers[q] : s \in Tids \ {t} /\ process[s] = q /\ pc[s] = "wait" /\ ~fired[s]
      BY <1>5, <1>w, Zenon DEF register, TypeOK
    <3>3. \A q \in Procs : \A s \in wakers'[q] : process[s] = q /\ pc'[s] = "wait" /\ ~fired'[s]
      BY <3>0, <3>2 DEF TypeOK
    <3> QED
      BY <1>5, <3>0, <3>1, <3>3, Zenon DEF register, TypeOK
  <2>2. CASE ~quit[p]
    <3>0. pc' = [pc EXCEPT ![t] = "wait"] /\ fired' = fired /\ wakers' = [wakers EXCEPT ![p] = wakers[p] \cup {t}]
      BY <1>5, <2>2, Zenon DEF register, Goto
    <3>1. pc' \in [Tids -> PCs] /\ wakers' \in [Procs -> SUBSET Tids]
      BY <3>0, <1>p DEF TypeOK, PCs
    <3>2. \A q \in Procs : \A s \in wakers[q] : s \in Tids /\ process[s] = q /\ pc[s] = "wait" /\ ~fired[s]
      BY <1>w, Zenon DEF TypeOK
    <3>3. ~fired[t]
      BY <1>5, Zenon DEF register, ThreadInv
    <3>4. \A q \in Procs : \A s \in wakers'[q] : s \in wakers[q] \/ (s = t /\ q = p)
      BY <3>0, <1>p DEF TypeOK
    <3>5. \A s \in Tids : s = t \/ pc[s] = "wait" => pc'[s] = "wait"
      BY <3>0, Zenon DEF TypeOK
    <3>6. \A q \in Procs : \A s \in wakers'[q] : process[s] = q /\ pc'[s] = "wait" /\ ~fired'[s]
      BY <3>0, <3>2, <3>3, <3>4, <3>5
    <3> QED
      BY <1>5, <3>0, <3>1, <3>6, Zenon DEF register, TypeOK
  <2> QED
    BY <2>1, <2>2, Zenon
<1>6. CASE ready(t)
  BY <1>6, <1>w DEF ready, Goto, TypeOK, PCs
<1>7. CASE clear(t)
  BY <1>7, <1>w, <1>p DEF clear, Goto, TypeOK, PCs
<1>8. CASE exit_impl(t)
  <2>1. CASE \A s \in ThreadsOf(p) \ {t} : pc[s] = "dead"
    <3>1. /\ life' = [life EXCEPT ![p] = "exited"] /\ quit' = [quit EXCEPT ![p] = FALSE]
          /\ target' = [target EXCEPT ![t] = {parent[p]}] /\ taken' = [taken EXCEPT ![t] = children[p]]
          /\ children' = [children EXCEPT ![p] = Empty] /\ pc' = [pc EXCEPT ![t] = "report"]
          /\ UNCHANGED <<parent, wakers, fired>> /\ pc[t] = "user"
      BY <1>8, <2>1, Zenon DEF exit_impl, Goto
    <3>2. \A q \in Procs : \A s \in wakers'[q] : process[s] = q /\ pc'[s] = "wait" /\ ~fired'[s]
      BY <3>1, <1>w DEF TypeOK
    <3> QED
      BY <3>1, <3>2, <1>p, EmptySets DEF TypeOK, PCs
  <2>2. CASE ~\A s \in ThreadsOf(p) \ {t} : pc[s] = "dead"
    BY <1>8, <2>2, <1>w DEF exit_impl, Goto, TypeOK, PCs
  <2> QED
    BY <2>1, <2>2, Zenon
<1>9. CASE report(t)
  <2>1. Heir(t) \in Procs
    <3>1. target[t] = {parent[p]} /\ parent[p] \in Procs
      BY <1>9, <1>p DEF report, ThreadInv, TypeOK
    <3> QED
      BY <3>1, Zenon DEF Heir
  <2>2. become_zombie(children[Heir(t)], p) \in Sets
    <3>1. children[Heir(t)] \in Sets
      BY <2>1, Zenon DEF TypeOK
    <3> QED
      BY <3>1, <1>p, BecomeZombie, Zenon
  <2> QED
    BY <1>9, <1>w, <2>1, <2>2 DEF report, Goto, TypeOK, PCs
<1>10. CASE notify(t)
  <2>1. PICK q \in target[t] : set(q)
    BY <1>10, Zenon DEF notify
  <2>2. q \in Procs
    BY <2>1, Zenon DEF TypeOK
  <2> QED
    BY <1>10, <1>w, <2>1, <2>2, SetType, Zenon DEF notify, Goto, TypeOK, PCs
<1>11. CASE throw_children(t)
  <2>1. append(children[initproc], taken[t]) \in Sets
    BY AppendSets DEF TypeOK
  <2> QED
    BY <1>11, <1>w, <2>1, EmptySets DEF throw_children, Goto, TypeOK, PCs
<1>12. CASE throw_set(t)
  BY <1>12, <1>w, SetType, Zenon DEF throw_set, Goto, TypeOK, PCs
<1> QED
  <2>1. AnyChild \in SUBSET Procs /\ \A c \in Procs : {c} \in SUBSET Procs
    BY Zenon DEF AnyChild
  <2> QED
    BY <1>0, <1>1, <1>2, <1>3, <1>4, <1>5, <1>6, <1>7, <1>8, <1>9, <1>10, <1>11, <1>12, <2>1, Zenon
       DEF Waits, Exits

-----------------------------------------------------------------------------
(* A thread moves from k to l without starting to run or to exit. *)
MayMove(k, l) ==
  /\ k \notin {"unborn", "dead"} /\ l \notin {"unborn", "report"}
  /\ l \in Serving => k \in Serving
  /\ l \in Exiting => k \in Exiting

(* The places a thread goes to within its calls and within its exit. *)
LEMMA Moves ==
  /\ \A k \in Serving : \A l \in Serving \cup {"dead"} : MayMove(k, l) /\ k \notin Carrying /\ l \notin Carrying
  /\ \A k \in Exiting : \A l \in {"notify", "throw", "throw_set", "dead"} : MayMove(k, l)
  BY DEF MayMove, Serving, Exiting, Carrying

(* A step that leaves the processes alone, but for one that is reaped, and   *)
(* moves one thread t, which neither starts to run nor to exit.              *)
LEMMA ThreadMove ==
  ASSUME TypeOK, ThreadInv, NEW t \in Tids, NEW l, pc' = [pc EXCEPT ![t] = l],
         UNCHANGED parent,
         \A s \in Tids \ {t} : target'[s] = target[s] /\ taken'[s] = taken[s],
         \A p \in Procs : life'[p] = life[p] \/ (life[p] = "exited" /\ life'[p] = "reaped" /\ Reported(p)),
         MayMove(pc[t], l), l \notin Carrying => taken'[t] = Empty,
         \A s \in Tids : fired'[s] => pc'[s] = "wait"
  PROVE  ThreadInv'
<1> USE ShapeOK DEF MayMove
<1>1. life'[initproc] = "alive"
  BY Zenon DEF ThreadInv
<1>2. \A p \in Procs : life'[p] # "unborn" => life'[parent'[p]] # "unborn"
  BY DEF ThreadInv, TypeOK
<1>3. \A s \in Tids : pc'[s] = (IF s = t THEN l ELSE pc[s])
  BY DEF TypeOK
<1> SUFFICES ASSUME NEW s \in Tids
    PROVE  /\ pc'[s] = "unborn" <=> life'[process[s]] = "unborn"
           /\ pc'[s] \in Serving => life'[process[s]] = "alive"
           /\ pc'[s] \in Exiting =>
                /\ life'[process[s]] \in {"exited", "reaped"}
                /\ \A u \in Tids : process[u] = process[s] /\ u # s => pc'[u] = "dead"
           /\ pc'[s] = "report" => life'[process[s]] = "exited" /\ target'[s] = {parent'[process[s]]}
           /\ pc'[s] \notin Carrying => taken'[s] = Empty
           /\ fired'[s] => pc'[s] = "wait"
  BY <1>1, <1>2, Zenon DEF ThreadInv
<1>4. pc'[s] = "unborn" <=> life'[process[s]] = "unborn"
  BY <1>3 DEF ThreadInv
<1>5. pc'[s] \in Serving => life'[process[s]] = "alive"
  BY <1>3 DEF ThreadInv
<1>6. pc'[s] \in Exiting => life'[process[s]] \in {"exited", "reaped"}
  BY <1>3 DEF ThreadInv
<1>7. ASSUME pc'[s] \in Exiting, NEW u \in Tids, process[u] = process[s], u # s PROVE pc'[u] = "dead"
  <2>1. pc[s] \in Exiting
    BY <1>3, <1>7
  <2>2. pc[u] = "dead"
    BY <1>7, <2>1 DEF ThreadInv
  <2>3. CASE u = t
    BY <2>2, <2>3, Zenon
  <2> QED
    BY <1>3, <2>2, <2>3
<1>8. pc'[s] = "report" => life'[process[s]] = "exited" /\ target'[s] = {parent'[process[s]]}
  BY <1>3 DEF ThreadInv, Reported
<1>9. pc'[s] \notin Carrying => taken'[s] = Empty
  BY <1>3 DEF ThreadInv
<1> QED
  BY <1>4, <1>5, <1>6, <1>7, <1>8, <1>9, Zenon

(* The event is set on threads that wait. *)
LEMMA SetFired ==
  ASSUME TypeOK, ThreadInv, NEW p \in Procs, set(p), NEW s \in Tids, fired'[s]
  PROVE  pc[s] = "wait"
<1>1. fired[s] \/ s \in wakers[p]
  BY Zenon DEF set
<1> QED
  BY <1>1, Zenon DEF TypeOK, ThreadInv

(* Every step keeps what is known of the threads. *)
LEMMA ThreadStep ==
  ASSUME TypeOK, ThreadInv, ListInv, Next
  PROVE  ThreadInv'
<1> USE ShapeOK
<1>0. PICK t \in Tids :
         \/ \E c \in Procs : fork(t, c) \/ sys_wait4(t, {c})
         \/ sys_wait4(t, AnyChild)
         \/ Waits(t) \/ exit_impl(t) \/ Exits(t)
  BY Zenon DEF Next
<1> DEFINE p == process[t]
<1>p. p \in Procs
  BY Zenon
<1>f. \A s \in Tids : fired[s] => pc[s] = "wait"
  BY Zenon DEF ThreadInv
<1>e. pc[t] \notin Carrying => taken[t] = Empty
  BY Zenon DEF ThreadInv
<1>1. ASSUME NEW c \in Procs, fork(t, c) PROVE ThreadInv'
  <2>1. /\ pc[t] = "user" /\ life[c] = "unborn" /\ life' = [life EXCEPT ![c] = "alive"]
        /\ parent' = [parent EXCEPT ![c] = p]
        /\ pc' = [s \in Tids |-> IF process[s] = c THEN "user" ELSE pc[s]]
        /\ UNCHANGED <<fired, target, taken>>
    BY <1>1, Zenon DEF fork
  <2>2. life[p] = "alive" /\ \A s \in Tids : process[s] = c => pc[s] = "unborn"
    BY <2>1 DEF ThreadInv, Serving
  <2>3. \A q \in Procs : life'[q] = (IF q = c THEN "alive" ELSE life[q])
    BY <2>1 DEF TypeOK
  <2>4. \A q \in Procs : life'[q] # "unborn" => life'[parent'[q]] # "unborn"
    BY <2>1, <2>2, <2>3, <1>p DEF TypeOK, ThreadInv
  <2>5. life'[initproc] = "alive"
    BY <2>3, Zenon DEF ThreadInv
  <2>6. \A s \in Tids : pc'[s] = (IF process[s] = c THEN "user" ELSE pc[s])
    BY <2>1, Zenon
  <2>7. ASSUME NEW s \in Tids
        PROVE  /\ pc'[s] = "unborn" <=> life'[process[s]] = "unborn"
               /\ pc'[s] \in Serving => life'[process[s]] = "alive"
               /\ pc'[s] \in Exiting => life'[process[s]] \in {"exited", "reaped"}
               /\ pc'[s] = "report" => life'[process[s]] = "exited" /\ target'[s] = {parent'[process[s]]}
               /\ pc'[s] \notin Carrying => taken'[s] = Empty
               /\ fired'[s] => pc'[s] = "wait"
    <3>1. CASE process[s] = c
      BY <2>1, <2>2, <2>3, <2>6, <3>1, <1>f DEF ThreadInv, Serving, Exiting, Carrying
    <3>2. CASE process[s] # c
      <4>1. pc'[s] = pc[s] /\ life'[process[s]] = life[process[s]] /\ parent'[process[s]] = parent[process[s]]
        BY <2>1, <2>3, <2>6, <3>2 DEF TypeOK
      <4> QED
        BY <2>1, <4>1 DEF ThreadInv
    <3> QED
      BY <3>1, <3>2, Zenon
  <2>8. ASSUME NEW s \in Tids, pc'[s] \in Exiting, NEW u \in Tids, process[u] = process[s], u # s
        PROVE  pc'[u] = "dead"
    BY <2>6, <2>8 DEF ThreadInv, Exiting
  <2> QED
    BY <2>4, <2>5, <2>7, <2>8 DEF ThreadInv
<1>2. ASSUME NEW w \in SUBSET Procs, sys_wait4(t, w) PROVE ThreadInv'
  <2>1. /\ pc[t] = "user" /\ pc' = [pc EXCEPT ![t] = "check"] /\ target' = [target EXCEPT ![t] = w]
        /\ UNCHANGED <<life, parent, fired, taken>>
    BY <1>2, Zenon DEF sys_wait4, Goto
  <2>2. \A s \in Tids : fired'[s] => pc'[s] = "wait"
    BY <2>1, <1>f, Zenon DEF TypeOK
  <2>3. \A s \in Tids \ {t} : target'[s] = target[s] /\ taken'[s] = taken[s]
    BY <2>1 DEF TypeOK
  <2> QED
    <3>1. MayMove(pc[t], "check") /\ taken'[t] = Empty
      BY <2>1, <1>e, Moves, Zenon DEF Serving
    <3> QED
      BY <2>1, <2>2, <2>3, <3>1, ThreadMove, Zenon
<1>3. CASE check(t)
  <2>1. pc[t] = "check" /\ UNCHANGED <<parent, fired, taken>>
    BY <1>3, CheckCases, Zenon
  <2>2. \A q \in Procs : life'[q] = life[q] \/ (life[q] = "exited" /\ life'[q] = "reaped" /\ Reported(q))
    <3>1. life' = life \/ \E c \in children[p].zombie : life' = [life EXCEPT ![c] = "reaped"]
      BY <1>3, CheckCases, Zenon DEF Reaps
    <3>2. \A c \in children[p].zombie : life[c] = "exited" /\ Reported(c)
      BY <1>p, Zenon DEF ListInv, SplitInv
    <3> QED
      BY <3>1, <3>2 DEF TypeOK
  <2>3. PICK l \in {"user", "poll"} : pc' = [pc EXCEPT ![t] = l]
    BY <1>3, CheckCases, Zenon DEF Goto
  <2>4. \A s \in Tids : fired'[s] => pc'[s] = "wait"
    BY <2>1, <2>3, <1>f DEF TypeOK
  <2>5. \A s \in Tids \ {t} : target'[s] = target[s] /\ taken'[s] = taken[s]
    <3>1. target' = target \/ target' = [target EXCEPT ![t] = {}]
      BY <1>3, Zenon DEF check
    <3> QED
      BY <2>1, <3>1 DEF TypeOK
  <2> QED
    <3>1. MayMove(pc[t], l) /\ taken'[t] = Empty
      BY <2>1, <1>e, Moves, Zenon DEF Serving
    <3> QED
      BY <2>1, <2>2, <2>3, <2>4, <2>5, <3>1, ThreadMove, Zenon
<1>4. CASE poll(t) \/ clear(t)
  <2>1. /\ pc[t] \in {"poll", "clear"}
        /\ \E l \in {"clear", "register", "check"} : pc' = [pc EXCEPT ![t] = l]
        /\ UNCHANGED <<life, parent, fired, taken, target>>
    BY <1>4, Zenon DEF poll, clear, Goto
  <2>2. PICK l \in {"clear", "register", "check"} : pc' = [pc EXCEPT ![t] = l]
    BY <2>1, Zenon
  <2>3. \A s \in Tids : fired'[s] => pc'[s] = "wait"
    BY <2>1, <2>2, <1>f DEF TypeOK
  <2> QED
    <3>1. MayMove(pc[t], l) /\ taken'[t] = Empty
      BY <2>1, <1>e, Moves DEF Serving
    <3> QED
      BY <2>1, <2>2, <2>3, <3>1, ThreadMove, Zenon
<1>5. CASE register(t)
  <2>1. /\ pc[t] = "register" /\ pc' = [pc EXCEPT ![t] = "wait"]
        /\ UNCHANGED <<life, parent, taken, target>>
        /\ \A s \in Tids \ {t} : fired'[s] => fired[s]
    <3>1. fired' = [fired EXCEPT ![t] = TRUE] \/ fired' = fired
      BY <1>5, Zenon DEF register
    <3>2. \A s \in Tids \ {t} : fired'[s] => fired[s]
      BY <3>1, Zenon DEF TypeOK
    <3> QED
      BY <1>5, <3>2, Zenon DEF register, Goto
  <2>2. \A s \in Tids : fired'[s] => pc'[s] = "wait"
    BY <2>1, <1>f DEF TypeOK
  <2> QED
    <3>1. MayMove(pc[t], "wait") /\ taken'[t] = Empty
      BY <2>1, <1>e, Moves, Zenon DEF Serving
    <3> QED
      BY <2>1, <2>2, <3>1, ThreadMove, Zenon
<1>6. CASE ready(t)
  <2>1. /\ pc[t] = "wait" /\ pc' = [pc EXCEPT ![t] = "clear"] /\ fired' = [fired EXCEPT ![t] = FALSE]
        /\ UNCHANGED <<life, parent, taken, target>>
    BY <1>6, Zenon DEF ready, Goto
  <2>2. \A s \in Tids : fired'[s] => pc'[s] = "wait"
    BY <2>1, <1>f, Zenon DEF TypeOK
  <2> QED
    <3>1. MayMove(pc[t], "clear") /\ taken'[t] = Empty
      BY <2>1, <1>e, Moves, Zenon DEF Serving
    <3> QED
      BY <2>1, <2>2, <3>1, ThreadMove, Zenon
<1>7. CASE exit_impl(t)
  <2>0. pc[t] = "user" /\ p # initproc /\ UNCHANGED <<parent, fired>>
    BY <1>7, Zenon DEF exit_impl
  <2>1. CASE \A s \in ThreadsOf(p) \ {t} : pc[s] = "dead"
    <3>1. /\ life' = [life EXCEPT ![p] = "exited"] /\ target' = [target EXCEPT ![t] = {parent[p]}]
          /\ taken' = [taken EXCEPT ![t] = children[p]] /\ pc' = [pc EXCEPT ![t] = "report"]
      BY <1>7, <2>1, Zenon DEF exit_impl, Goto
    <3>2. \A s \in Tids : process[s] = p /\ s # t => pc[s] = "dead"
      BY <2>1, Zenon DEF ThreadsOf
    <3>3. \A q \in Procs : life'[q] = (IF q = p THEN "exited" ELSE life[q])
      BY <3>1 DEF TypeOK
    <3>4. \A s \in Tids : pc'[s] = (IF s = t THEN "report" ELSE pc[s])
      BY <3>1, Zenon DEF TypeOK
    <3>5. life'[initproc] = "alive" /\ \A q \in Procs : life'[q] # "unborn" => life'[parent'[q]] # "unborn"
      BY <2>0, <3>3 DEF ThreadInv, TypeOK, Serving
    <3>6. ASSUME NEW s \in Tids
          PROVE  /\ pc'[s] = "unborn" <=> life'[process[s]] = "unborn"
                 /\ pc'[s] \in Serving => life'[process[s]] = "alive"
                 /\ pc'[s] \in Exiting => life'[process[s]] \in {"exited", "reaped"}
                 /\ pc'[s] = "report" => life'[process[s]] = "exited" /\ target'[s] = {parent'[process[s]]}
                 /\ pc'[s] \notin Carrying => taken'[s] = Empty
                 /\ fired'[s] => pc'[s] = "wait"
      <4>1. CASE s = t
        BY <2>0, <3>1, <3>3, <3>4, <4>1, <1>f DEF TypeOK, Serving, Exiting, Carrying
      <4>2. CASE s # t /\ process[s] = p
        <5>1. pc'[s] = "dead" /\ life'[process[s]] = "exited" /\ taken'[s] = taken[s]
          BY <3>1, <3>2, <3>3, <3>4, <4>2 DEF TypeOK
        <5> QED
          BY <2>0, <3>2, <4>2, <5>1, <1>f, Zenon DEF ThreadInv, Serving, Exiting, Carrying
      <4>3. CASE process[s] # p
        <5>1. pc'[s] = pc[s] /\ life'[process[s]] = life[process[s]] /\ taken'[s] = taken[s] /\ target'[s] = target[s]
          BY <3>1, <3>3, <3>4, <4>3 DEF TypeOK
        <5> QED
          BY <2>0, <5>1 DEF ThreadInv
      <4> QED
        BY <4>1, <4>2, <4>3, Zenon
    <3>7. ASSUME NEW s \in Tids, pc'[s] \in Exiting, NEW u \in Tids, process[u] = process[s], u # s
          PROVE  pc'[u] = "dead"
      <4>1. CASE s = t
        BY <3>2, <3>4, <3>7, <4>1, Zenon
      <4>2. CASE s # t
        <5>1. pc[s] \in Exiting /\ process[s] # p
          BY <3>2, <3>4, <3>7, <4>2, Zenon DEF Exiting
        <5> QED
          BY <3>4, <3>7, <5>1 DEF ThreadInv
      <4> QED
        BY <4>1, <4>2, Zenon
    <3> QED
      BY <3>5, <3>6, <3>7 DEF ThreadInv
  <2>2. CASE ~\A s \in ThreadsOf(p) \ {t} : pc[s] = "dead"
    <3>1. pc' = [pc EXCEPT ![t] = "dead"] /\ UNCHANGED <<life, target, taken>>
      BY <1>7, <2>2, Zenon DEF exit_impl, Goto
    <3>2. \A s \in Tids : fired'[s] => pc'[s] = "wait"
      BY <2>0, <3>1, <1>f, Zenon DEF TypeOK
    <3> QED
      <4>1. MayMove(pc[t], "dead") /\ taken'[t] = Empty
        BY <2>0, <3>1, <1>e, Moves, Zenon DEF Serving
      <4> QED
        BY <2>0, <3>1, <3>2, <4>1, ThreadMove, Zenon
  <2> QED
    BY <2>1, <2>2, Zenon
<1>8. CASE report(t)
  <2>1. /\ pc[t] = "report" /\ pc' = [pc EXCEPT ![t] = "notify"] /\ target' = [target EXCEPT ![t] = {Heir(t)}]
        /\ UNCHANGED <<life, parent, fired, taken>>
    BY <1>8, Zenon DEF report, Goto
  <2>2. \A s \in Tids : fired'[s] => pc'[s] = "wait"
    BY <2>1, <1>f, Zenon DEF TypeOK
  <2>3. \A s \in Tids \ {t} : target'[s] = target[s] /\ taken'[s] = taken[s]
    BY <2>1 DEF TypeOK
  <2> QED
    <3>1. MayMove(pc[t], "notify") /\ "notify" \in Carrying
      BY <2>1, Moves, Zenon DEF Exiting, Carrying
    <3> QED
      BY <2>1, <2>2, <2>3, <3>1, ThreadMove, Zenon
<1>9. CASE notify(t) \/ throw_set(t)
  <2>1. /\ pc[t] \in {"notify", "throw_set"} /\ UNCHANGED <<life, parent, taken>>
        /\ target' = target \/ target' = [target EXCEPT ![t] = {}]
        /\ \E q \in Procs : set(q)
        /\ \E l \in {"dead", "throw"} : pc' = [pc EXCEPT ![t] = l] /\ (l = "dead" => pc[t] = "throw_set" \/ IsEmpty(taken[t]))
                                        /\ (l = "throw" => pc[t] = "notify")
    <3>1. target[t] \in SUBSET Procs
      BY Zenon DEF TypeOK
    <3>2. CASE throw_set(t)
      BY <3>2, Zenon DEF throw_set, Goto
    <3>3. CASE notify(t) /\ IsEmpty(taken[t])
      BY <3>1, <3>3, Zenon DEF notify, Goto
    <3>4. CASE notify(t) /\ ~IsEmpty(taken[t])
      BY <3>1, <3>4, Zenon DEF notify, Goto
    <3> QED
      BY <1>9, <3>2, <3>3, <3>4, Zenon
  <2>2. PICK l \in {"dead", "throw"} : /\ pc' = [pc EXCEPT ![t] = l] /\ (l = "dead" => pc[t] = "throw_set" \/ IsEmpty(taken[t]))
                                       /\ (l = "throw" => pc[t] = "notify")
    BY <2>1, Zenon
  <2>3. \A s \in Tids : fired'[s] => pc'[s] = "wait"
    <3>1. \A s \in Tids : fired'[s] => pc[s] = "wait"
      BY <2>1, SetFired, Zenon
    <3> QED
      BY <3>1, <2>1, <2>2 DEF TypeOK
  <2>4. \A s \in Tids \ {t} : target'[s] = target[s] /\ taken'[s] = taken[s]
    BY <2>1 DEF TypeOK
  <2>5. IsEmpty(taken[t]) => taken[t] = Empty
    BY DEF IsEmpty, Members, Empty, TypeOK, Sets
  <2>6. l \notin Carrying => taken'[t] = Empty
    BY <2>1, <2>2, <2>5, <1>e, Zenon DEF Carrying
  <2> QED
    <3>1. MayMove(pc[t], l)
      BY <2>1, Moves, Zenon DEF Exiting
    <3> QED
      BY <2>1, <2>2, <2>3, <2>4, <2>6, <3>1, ThreadMove, Zenon
<1>10. CASE throw_children(t)
  <2>1. /\ pc[t] = "throw" /\ UNCHANGED <<life, parent, fired, target>> /\ taken' = [taken EXCEPT ![t] = Empty]
        /\ \E l \in {"dead", "throw_set"} : pc' = [pc EXCEPT ![t] = l]
    BY <1>10, Zenon DEF throw_children, Goto
  <2>2. PICK l \in {"dead", "throw_set"} : pc' = [pc EXCEPT ![t] = l]
    BY <2>1, Zenon
  <2>3. \A s \in Tids : fired'[s] => pc'[s] = "wait"
    BY <2>1, <2>2, <1>f DEF TypeOK
  <2>4. taken'[t] = Empty /\ \A s \in Tids \ {t} : target'[s] = target[s] /\ taken'[s] = taken[s]
    BY <2>1 DEF TypeOK
  <2> QED
    <3>1. MayMove(pc[t], l)
      BY <2>1, Moves, Zenon DEF Exiting
    <3> QED
      BY <2>1, <2>2, <2>3, <2>4, <3>1, ThreadMove, Zenon
<1> QED
  <2>1. AnyChild \in SUBSET Procs /\ \A c \in Procs : {c} \in SUBSET Procs
    BY Zenon DEF AnyChild
  <2> QED
    BY <1>0, <1>1, <1>2, <1>3, <1>4, <1>5, <1>6, <1>7, <1>8, <1>9, <1>10, <2>1, Zenon
       DEF Waits, Exits

-----------------------------------------------------------------------------
(* A step that changes no list, no process and nobody's report. *)
LEMMA ListQuiet ==
  ASSUME TypeOK, ListInv, UNCHANGED <<life, parent, children, taken>>,
         \A t \in Tids : pc'[t] = "report" <=> pc[t] = "report"
  PROVE  ListInv'
<1>1. \A p \in Procs : Reported(p)' <=> Reported(p)
  BY Zenon DEF Reported
<1>2. ChildInv' /\ TakenInv' /\ KnownInv'
  BY DEF ListInv, ChildInv, TakenInv, KnownInv
<1>3. AliveInv' /\ PendingInv'
  <2>1. \A q \in Procs : children[q].alive \in SUBSET Procs /\ children[q].pending \in SUBSET Procs
    BY SetsFields, Zenon DEF TypeOK
  <2>2. \A t \in Tids : taken[t].alive \in SUBSET Procs
    BY SetsFields, Zenon DEF TypeOK
  <2> QED
    BY <1>1, <2>1, <2>2, Zenon DEF ListInv, AliveInv, PendingInv
<1>4. ASSUME NEW c, SplitInv(c) PROVE SplitInv(c)'
  BY <1>4, Zenon DEF SplitInv, Reported
<1> QED
  BY <1>2, <1>3, <1>4, Zenon DEF ListInv

(* Nobody is in the children of two processes. *)
LEMMA OneChildSet ==
  ASSUME ListInv, NEW p, NEW q \in Procs, NEW r \in Procs, p \in Members(children[q]), p \in Members(children[r])
  PROVE  q = r
<1>1. life[q] = "alive" /\ (q = parent[p] \/ (q = initproc /\ life[parent[p]] # "alive"))
  BY Zenon DEF ListInv, ChildInv
<1>2. life[r] = "alive" /\ (r = parent[p] \/ (r = initproc /\ life[parent[p]] # "alive"))
  BY Zenon DEF ListInv, ChildInv
<1> QED
  BY <1>1, <1>2

(* Nobody is carried by two threads. *)
LEMMA OneTakenSet ==
  ASSUME ThreadInv, ListInv, NEW p, NEW t \in Tids, NEW s \in Tids,
         p \in Members(taken[t]), p \in Members(taken[s])
  PROVE  t = s
<1>1. pc[t] \in Carrying /\ pc[s] \in Carrying
  BY EmptySets, Zenon DEF ThreadInv
<1>2. process[t] = process[s]
  BY Zenon DEF ListInv, TakenInv
<1> QED
  BY <1>1, <1>2, Zenon DEF ThreadInv, Carrying, Exiting

(* fork *)
LEMMA ListFork ==
  ASSUME TypeOK, TypeOK', ThreadInv, ListInv, NEW t \in Tids, NEW c \in Procs, fork(t, c)
  PROVE  ListInv'
<1> DEFINE p == process[t]
<1>p. p \in Procs
  BY ShapeOK, Zenon
<1>0. /\ pc[t] = "user" /\ life[c] = "unborn" /\ life' = [life EXCEPT ![c] = "alive"]
      /\ parent' = [parent EXCEPT ![c] = p] /\ children' = [children EXCEPT ![p] = push_child(children[p], c)]
      /\ pc' = [s \in Tids |-> IF process[s] = c THEN "user" ELSE pc[s]] /\ UNCHANGED taken
  BY Zenon DEF fork
<1>1. life[p] = "alive" /\ life[initproc] = "alive" /\ c # initproc /\ c # p
  BY <1>0, Zenon DEF ThreadInv, Serving
<1>2. \A q \in Procs : life'[q] = (IF q = c THEN "alive" ELSE life[q])
                    /\ parent'[q] = (IF q = c THEN p ELSE parent[q])
  BY <1>0, <1>p DEF TypeOK
<1>3. \A q \in Procs : Reported(q)' <=> Reported(q)
  <2>1. \A s \in Tids : pc'[s] = "report" <=> pc[s] = "report"
    BY <1>0, Zenon DEF ThreadInv
  <2> QED
    BY <2>1, Zenon DEF Reported
<1>4. \A q \in Procs : c \notin children[q].alive /\ c \notin children[q].zombie /\ c \notin children[q].pending
  BY <1>0, Zenon DEF ListInv, ChildInv, PendingInv, Members
<1>5. \A s \in Tids : c \notin taken[s].alive /\ c \notin taken[s].zombie
  BY <1>0, Zenon DEF ListInv, TakenInv, Members
<1>6. \A q \in Procs : \A x :
        /\ x \in children'[q].alive <=> x \in children[q].alive \/ (q = p /\ x = c)
        /\ x \in children'[q].zombie <=> x \in children[q].zombie
        /\ x \in children'[q].pending <=> x \in children[q].pending
  <2>1. children[p] \in Sets /\ c \notin children[p].pending
    BY <1>4, <1>p, Zenon DEF TypeOK
  <2>2. \A q \in Procs : children'[q] = (IF q = p THEN push_child(children[p], c) ELSE children[q])
    BY <1>0, <1>p DEF TypeOK
  <2>3. /\ push_child(children[p], c).alive = children[p].alive \cup {c}
        /\ push_child(children[p], c).zombie = children[p].zombie
        /\ push_child(children[p], c).pending = children[p].pending
    BY <2>1, PushChild, Zenon
  <2>4. ASSUME NEW q \in Procs, q = p, NEW x
        PROVE  /\ x \in children'[q].alive <=> x \in children[q].alive \/ (q = p /\ x = c)
               /\ x \in children'[q].zombie <=> x \in children[q].zombie
               /\ x \in children'[q].pending <=> x \in children[q].pending
    BY <2>2, <2>3, <2>4, Zenon
  <2>5. ASSUME NEW q \in Procs, q # p PROVE children'[q] = children[q]
    BY <2>2, <2>5, Zenon
  <2> QED
    BY <2>4, <2>5, Zenon
<1>7. \A q \in Procs : \A x : x \in children[q].alive \/ x \in children[q].zombie \/ x \in children[q].pending => x \in Procs
  BY SetsFields, Zenon DEF TypeOK
<1>8. \A s \in Tids : \A x : x \in taken[s].alive \/ x \in taken[s].zombie => x \in Procs
  BY SetsFields, Zenon DEF TypeOK
<1>9. ChildInv'
  <2> SUFFICES ASSUME NEW q \in Procs, NEW x, x \in children'[q].alive \/ x \in children'[q].zombie
      PROVE  /\ x # initproc /\ life'[x] \in {"alive", "exited"} /\ life'[q] = "alive"
             /\ q = parent'[x] \/ (q = initproc /\ life'[parent'[x]] # "alive")
             /\ \A s \in Tids : x \notin taken[s].alive /\ x \notin taken[s].zombie
    BY <1>0 DEF ChildInv, Members
  <2>1. CASE x = c
    <3>1. q = p
      BY <1>4, <1>6, <2>1, Zenon
    <3> QED
      BY <1>1, <1>2, <1>5, <1>p, <2>1, <3>1, Zenon
  <2>2. CASE x # c
    <3>1. x \in Procs /\ x \in Members(children[q])
      BY <1>6, <1>7, <2>2, Zenon DEF Members
    <3>2. /\ x # initproc /\ life[x] \in {"alive", "exited"} /\ life[q] = "alive"
          /\ q = parent[x] \/ (q = initproc /\ life[parent[x]] # "alive")
          /\ \A s \in Tids : x \notin taken[s].alive /\ x \notin taken[s].zombie
      BY <3>1 DEF ListInv, ChildInv, Members
    <3>3. parent[x] # c /\ parent[x] \in Procs /\ q # c
      BY <1>0, <3>1, <3>2 DEF ThreadInv, TypeOK
    <3> QED
      BY <1>2, <2>2, <3>1, <3>2, <3>3, Zenon
  <2> QED
    BY <2>1, <2>2, Zenon
<1>10. TakenInv'
  <2>1. \A s \in Tids : \A x \in Members(taken[s]) : x \in Procs /\ x # c
    BY <1>5, <1>8, Zenon DEF Members
  <2> QED
    BY <1>0, <1>2, <2>1 DEF ListInv, TakenInv
<1>11. KnownInv'
  BY <1>0, <1>1, <1>2, <1>6, <1>p DEF ListInv, KnownInv, Members
<1>12. AliveInv'
  <2>1. ASSUME NEW q \in Procs, NEW x, x \in children'[q].alive, life'[x] = "exited" PROVE ~Reported(x)'
    BY <1>2, <1>3, <1>6, <1>7, <2>1, Zenon DEF ListInv, AliveInv
  <2>2. ASSUME NEW s \in Tids, NEW x, x \in taken[s].alive, life'[x] = "exited"
        PROVE  ~Reported(x)' \/ x \in children'[initproc].pending
    BY <1>2, <1>3, <1>6, <1>8, <2>2, ShapeOK DEF ListInv, AliveInv
  <2> QED
    BY <1>0, <2>1, <2>2, Zenon DEF AliveInv
<1>13. PendingInv'
  BY <1>0, <1>2, <1>3, <1>4, <1>6, SetsFields DEF ListInv, PendingInv, TypeOK
<1>14. \A q \in Procs : SplitInv(children[q])'
  BY <1>2, <1>3, <1>4, <1>6, <1>7 DEF ListInv, SplitInv
<1>15. \A s \in Tids : SplitInv(taken[s])'
  BY <1>0, <1>2, <1>3, <1>5, <1>8 DEF ListInv, SplitInv
<1> QED
  BY <1>9, <1>10, <1>11, <1>12, <1>13, <1>14, <1>15, Zenon DEF ListInv

(* wait4 finds a zombie. *)
LEMMA ListReap ==
  ASSUME TypeOK, TypeOK', ThreadInv, ListInv, NEW t \in Tids, check(t), NEW c \in Procs,
         c \in children[process[t]].zombie, Reaps(process[t], c), pc' = [pc EXCEPT ![t] = "user"]
  PROVE  ListInv'
<1> DEFINE p == process[t]
<1>p. p \in Procs /\ initproc \in Procs
  BY ShapeOK, Zenon
<1>0. /\ pc[t] = "check" /\ UNCHANGED <<parent, taken>>
      /\ life' = [life EXCEPT ![c] = "reaped"]
      /\ children' = [children EXCEPT ![p] = [children[p] EXCEPT !.zombie = children[p].zombie \ {c}]]
  BY CheckCases, Zenon DEF Reaps
<1>2. \A q \in Procs : life'[q] = (IF q = c THEN "reaped" ELSE life[q])
  BY <1>0 DEF TypeOK
<1>3. \A q \in Procs : Reported(q)' <=> Reported(q)
  <2>1. \A s \in Tids : pc'[s] = "report" <=> pc[s] = "report"
    BY <1>0 DEF TypeOK
  <2> QED
    BY <2>1, Zenon DEF Reported
<1>4. life[c] = "exited" /\ Reported(c) /\ c \notin children[p].alive
  BY <1>p, Zenon DEF ListInv, SplitInv
<1>5. \A s \in Tids : c \notin taken[s].alive /\ c \notin taken[s].zombie
  BY <1>p, Zenon DEF ListInv, ChildInv, Members
<1>6. \A q \in Procs : \A x :
        /\ x \in children'[q].alive <=> x \in children[q].alive
        /\ x \in children'[q].zombie <=> x \in children[q].zombie /\ ~(q = p /\ x = c)
        /\ x \in children'[q].pending <=> x \in children[q].pending
  <2> DEFINE d == [children[p] EXCEPT !.zombie = children[p].zombie \ {c}]
  <2>1. children[p] \in Sets
    BY <1>p DEF TypeOK
  <2>2. children' = [children EXCEPT ![p] = d]
    BY <1>0, Zenon
  <2>3. d.alive = children[p].alive /\ d.zombie = children[p].zombie \ {c} /\ d.pending = children[p].pending
    BY <2>1, ReapedSet, Zenon
  <2> HIDE DEF d
  <2>6. \A q \in Procs : children'[q] = (IF q = p THEN d ELSE children[q])
    BY <2>2, <1>p DEF TypeOK
  <2>4. ASSUME NEW q \in Procs, q = p, NEW x
        PROVE  /\ x \in children'[q].alive <=> x \in children[q].alive
               /\ x \in children'[q].zombie <=> x \in children[q].zombie /\ ~(q = p /\ x = c)
               /\ x \in children'[q].pending <=> x \in children[q].pending
    BY <2>6, <2>3, <2>4, Zenon
  <2>5. ASSUME NEW q \in Procs, q # p PROVE children'[q] = children[q]
    BY <2>6, <2>5, Zenon
  <2> QED
    BY <2>4, <2>5, Zenon
<1>7. \A q \in Procs : \A x : x \in children[q].alive \/ x \in children[q].zombie \/ x \in children[q].pending => x \in Procs
  BY SetsFields, Zenon DEF TypeOK
<1>8. \A s \in Tids : \A x : x \in taken[s].alive \/ x \in taken[s].zombie => x \in Procs
  BY SetsFields, Zenon DEF TypeOK
<1>a. \A q \in Procs : c \in children[q].alive \/ c \in children[q].zombie => q = p
  BY <1>p, OneChildSet, Zenon DEF Members
<1>b. life[p] = "alive" /\ life[initproc] = "alive"
  BY <1>0, Zenon DEF ThreadInv, Serving
<1>9. ChildInv'
  <2> SUFFICES ASSUME NEW q \in Procs, NEW x, x \in children'[q].alive \/ x \in children'[q].zombie
      PROVE  /\ x # initproc /\ life'[x] \in {"alive", "exited"} /\ life'[q] = "alive"
             /\ q = parent[x] \/ (q = initproc /\ life'[parent[x]] # "alive")
             /\ \A s \in Tids : x \notin taken[s].alive /\ x \notin taken[s].zombie
    BY <1>0 DEF ChildInv, Members
  <2>1. x # c /\ x \in Procs /\ x \in Members(children[q])
    BY <1>4, <1>6, <1>7, <1>a DEF Members
  <2>2. /\ x # initproc /\ life[x] \in {"alive", "exited"} /\ life[q] = "alive"
        /\ q = parent[x] \/ (q = initproc /\ life[parent[x]] # "alive")
        /\ \A s \in Tids : x \notin taken[s].alive /\ x \notin taken[s].zombie
    BY <2>1 DEF ListInv, ChildInv, Members
  <2>3. parent[x] \in Procs
    BY <2>1 DEF TypeOK
  <2> QED
    BY <1>2, <1>4, <2>1, <2>2, <2>3, Zenon
<1>10. TakenInv'
  <2>1. \A s \in Tids : \A x \in Members(taken[s]) : x \in Procs /\ x # c
    BY <1>5, <1>8, Zenon DEF Members
  <2> QED
    BY <1>0, <1>2, <2>1 DEF ListInv, TakenInv
<1>11. KnownInv'
  <2> SUFFICES ASSUME NEW x \in Procs, x # initproc, life'[x] \in {"alive", "exited"}
      PROVE  (\E q \in Procs : x \in children'[q].alive \/ x \in children'[q].zombie)
             \/ \E s \in Tids : x \in taken[s].alive \/ x \in taken[s].zombie
    BY <1>0, Zenon DEF KnownInv, Members
  <2>1. x # c /\ life[x] \in {"alive", "exited"}
    BY <1>2, Zenon
  <2> QED
    BY <1>6, <2>1, Zenon DEF ListInv, KnownInv, Members
<1>12. AliveInv'
  <2>1. ASSUME NEW q \in Procs, NEW x, x \in children'[q].alive, life'[x] = "exited" PROVE ~Reported(x)'
    BY <1>2, <1>3, <1>6, <1>7, <2>1 DEF ListInv, AliveInv
  <2>2. ASSUME NEW s \in Tids, NEW x, x \in taken[s].alive, life'[x] = "exited"
        PROVE  ~Reported(x)' \/ x \in children'[initproc].pending
    BY <1>2, <1>3, <1>6, <1>8, <2>2, ShapeOK, Zenon DEF ListInv, AliveInv
  <2> QED
    BY <1>0, <2>1, <2>2, Zenon DEF AliveInv
<1>13. PendingInv'
  <2> SUFFICES ASSUME NEW q \in Procs, NEW x, x \in children'[q].pending
      PROVE  /\ q = initproc /\ life'[x] = "exited" /\ Reported(x)'
             /\ \E s \in Tids : x \in taken[s].alive
    BY <1>0, Zenon DEF PendingInv
  <2>1. /\ q = initproc /\ life[x] = "exited" /\ Reported(x) /\ x \in Procs
        /\ \E s \in Tids : x \in taken[s].alive
    BY <1>6, <1>7 DEF ListInv, PendingInv
  <2> QED
    BY <1>2, <1>3, <1>5, <2>1, Zenon
<1>14. \A q \in Procs : SplitInv(children[q])'
  <2> SUFFICES ASSUME NEW q \in Procs
      PROVE  /\ \A x : ~(x \in children'[q].alive /\ x \in children'[q].zombie)
             /\ \A x \in children'[q].zombie : life'[x] = "exited" /\ Reported(x)'
    BY Zenon DEF SplitInv
  <2> QED
    BY <1>2, <1>3, <1>4, <1>6, <1>7, <1>a DEF ListInv, SplitInv
<1>15. \A s \in Tids : SplitInv(taken[s])'
  BY <1>0, <1>2, <1>3, <1>5, <1>8 DEF ListInv, SplitInv
<1> QED
  BY <1>9, <1>10, <1>11, <1>12, <1>13, <1>14, <1>15, Zenon DEF ListInv

(* The last thread of a process exits. *)
LEMMA ListExit ==
  ASSUME TypeOK, TypeOK', ThreadInv, ListInv, NEW t \in Tids, exit_impl(t),
         \A s \in ThreadsOf(process[t]) \ {t} : pc[s] = "dead"
  PROVE  ListInv'
<1> DEFINE p == process[t]
<1>p. p \in Procs /\ initproc \in Procs
  BY ShapeOK, Zenon
<1>0. /\ pc[t] = "user" /\ p # initproc /\ UNCHANGED parent
      /\ life' = [life EXCEPT ![p] = "exited"] /\ taken' = [taken EXCEPT ![t] = children[p]]
      /\ children' = [children EXCEPT ![p] = Empty] /\ pc' = [pc EXCEPT ![t] = "report"]
  BY Zenon DEF exit_impl, Goto
<1>1. life[p] = "alive" /\ life[initproc] = "alive" /\ taken[t] = Empty
  BY <1>0, Zenon DEF ThreadInv, Serving, Carrying
<1>2. \A q \in Procs : life'[q] = (IF q = p THEN "exited" ELSE life[q])
  BY <1>0 DEF TypeOK
<1>3. ~Reported(p)' /\ \A q \in Procs \ {p} : Reported(q)' <=> Reported(q)
  <2>1. \A s \in Tids : pc'[s] = (IF s = t THEN "report" ELSE pc[s])
    BY <1>0 DEF TypeOK
  <2> QED
    BY <1>p, <2>1, Zenon DEF Reported
<1>4. \A q \in Procs : children'[q] = (IF q = p THEN Empty ELSE children[q])
  BY <1>0, <1>p DEF TypeOK
<1>5. \A s \in Tids : taken'[s] = (IF s = t THEN children[p] ELSE taken[s])
  BY <1>0 DEF TypeOK
<1>6. children[p].pending = {}
  BY <1>0, <1>p, Zenon DEF ListInv, PendingInv
<1>7. \A q \in Procs : \A x : x \in children[q].alive \/ x \in children[q].zombie \/ x \in children[q].pending => x \in Procs
  BY SetsFields, Zenon DEF TypeOK
<1>8. \A s \in Tids : \A x : x \in taken[s].alive \/ x \in taken[s].zombie => x \in Procs
  BY SetsFields, Zenon DEF TypeOK
<1>9. ChildInv'
  <2> SUFFICES ASSUME NEW q \in Procs, NEW x \in Members(children'[q])
      PROVE  /\ x # initproc /\ life'[x] \in {"alive", "exited"} /\ life'[q] = "alive"
             /\ q = parent[x] \/ (q = initproc /\ life'[parent[x]] # "alive")
             /\ \A s \in Tids : x \notin Members(taken'[s])
    BY <1>0 DEF ChildInv, Members
  <2>1. q # p /\ x \in Members(children[q])
    BY <1>4, EmptySets, Zenon
  <2>2. /\ x # initproc /\ life[x] \in {"alive", "exited"} /\ life[q] = "alive"
        /\ q = parent[x] \/ (q = initproc /\ life[parent[x]] # "alive")
        /\ \A s \in Tids : x \notin Members(taken[s])
    BY <2>1, Zenon DEF ListInv, ChildInv
  <2>3. x \in Procs /\ parent[x] \in Procs
    BY <1>7, <2>1, Zenon DEF Members, TypeOK
  <2>4. x \notin Members(children[p])
    BY <1>p, <2>1, OneChildSet, Zenon
  <2> QED
    BY <1>2, <1>5, <2>1, <2>2, <2>3, <2>4, Zenon
<1>10. TakenInv'
  <2> SUFFICES ASSUME NEW s \in Tids
      PROVE  /\ taken'[s].pending = {}
             /\ \A x \in Members(taken'[s]) :
                  x # initproc /\ life'[x] \in {"alive", "exited"} /\ process[s] = parent[x]
    BY <1>0 DEF TakenInv
  <2>1. CASE s = t
    <3>1. taken'[s] = children[p]
      BY <1>5, <2>1, Zenon
    <3>2. \A x \in Members(children[p]) : x \in Procs /\ x # initproc /\ life[x] \in {"alive", "exited"} /\ p = parent[x]
      BY <1>0, <1>7, <1>p DEF ListInv, ChildInv, Members
    <3> QED
      BY <1>2, <1>6, <2>1, <3>1, <3>2, Zenon
  <2>2. CASE s # t
    <3>1. taken'[s] = taken[s]
      BY <1>5, <2>2, Zenon
    <3>2. \A x \in Members(taken[s]) : x \in Procs
      BY <1>8, Zenon DEF Members
    <3> QED
      BY <1>2, <3>1, <3>2, Zenon DEF ListInv, TakenInv
  <2> QED
    BY <2>1, <2>2, Zenon
<1>11. KnownInv'
  <2> SUFFICES ASSUME NEW x \in Procs, x # initproc, life'[x] \in {"alive", "exited"}
      PROVE  (\E q \in Procs : x \in Members(children'[q])) \/ \E s \in Tids : x \in Members(taken'[s])
    BY Zenon DEF KnownInv, Members
  <2>1. life[x] \in {"alive", "exited"}
    BY <1>1, <1>2, Zenon
  <2>2. CASE \E q \in Procs : x \in Members(children[q])
    BY <1>4, <1>5, <2>2, Zenon
  <2>3. CASE \E s \in Tids : x \in Members(taken[s])
    BY <1>1, <1>5, <2>3, EmptySets, Zenon
  <2> QED
    BY <2>1, <2>2, <2>3, Zenon DEF ListInv, KnownInv
<1>12. AliveInv'
  <2>1. ASSUME NEW q \in Procs, NEW x, x \in children'[q].alive, life'[x] = "exited" PROVE ~Reported(x)'
    <3>1. x \in children[q].alive
      BY <1>4, <2>1, EmptySets, Zenon
    <3> QED
      BY <1>2, <1>3, <1>7, <2>1, <3>1 DEF ListInv, AliveInv
  <2>2. ASSUME NEW s \in Tids, NEW x, x \in taken'[s].alive, life'[x] = "exited"
        PROVE  ~Reported(x)' \/ x \in children'[initproc].pending
    <3>1. children'[initproc] = children[initproc]
      BY <1>0, <1>4, <1>p, Zenon
    <3>2. CASE s = t
      <4>1. x \in children[p].alive
        BY <1>5, <2>2, <3>2, Zenon
      <4> QED
        BY <1>2, <1>3, <1>7, <1>p, <2>2, <4>1 DEF ListInv, AliveInv
    <3>3. CASE s # t
      <4>1. x \in taken[s].alive
        BY <1>5, <2>2, <3>3, Zenon
      <4> QED
        BY <1>2, <1>3, <1>8, <2>2, <3>1, <4>1, Zenon DEF ListInv, AliveInv
    <3> QED
      BY <3>2, <3>3, Zenon
  <2> QED
    BY <2>1, <2>2, Zenon DEF AliveInv
<1>13. PendingInv'
  <2> SUFFICES ASSUME NEW q \in Procs, NEW x, x \in children'[q].pending
      PROVE  /\ q = initproc /\ life'[x] = "exited" /\ Reported(x)'
             /\ \E s \in Tids : x \in taken'[s].alive
    BY Zenon DEF PendingInv
  <2>1. x \in children[q].pending
    BY <1>4, EmptySets, Zenon
  <2>2. /\ q = initproc /\ life[x] = "exited" /\ Reported(x) /\ x \in Procs
        /\ \E s \in Tids : x \in taken[s].alive
    BY <1>7, <2>1, Zenon DEF ListInv, PendingInv
  <2>3. \E s \in Tids : x \in taken'[s].alive
    BY <1>1, <1>5, <2>2, EmptySets, Zenon
  <2> QED
    BY <1>1, <1>2, <1>3, <2>2, <2>3, Zenon
<1>15. \A q \in Procs : SplitInv(children[q])'
  <2> SUFFICES ASSUME NEW q \in Procs
      PROVE  /\ \A x : ~(x \in children'[q].alive /\ x \in children'[q].zombie)
             /\ \A x \in children'[q].zombie : life'[x] = "exited" /\ Reported(x)'
    BY Zenon DEF SplitInv
  <2>1. \A x : (x \in children'[q].alive => x \in children[q].alive) /\ (x \in children'[q].zombie => x \in children[q].zombie)
    BY <1>4, EmptySets, Zenon
  <2> QED
    BY <1>1, <1>2, <1>3, <1>7, <2>1 DEF ListInv, SplitInv
<1>16. \A s \in Tids : SplitInv(taken[s])'
  <2> SUFFICES ASSUME NEW s \in Tids
      PROVE  /\ \A x : ~(x \in taken'[s].alive /\ x \in taken'[s].zombie)
             /\ \A x \in taken'[s].zombie : life'[x] = "exited" /\ Reported(x)'
    BY Zenon DEF SplitInv
  <2>1. CASE s = t
    <3>1. taken'[s] = children[p]
      BY <1>5, <2>1, Zenon
    <3> QED
      BY <1>1, <1>2, <1>3, <1>7, <1>p, <3>1 DEF ListInv, SplitInv
  <2>2. CASE s # t
    <3>1. taken'[s] = taken[s]
      BY <1>5, <2>2, Zenon
    <3> QED
      BY <1>1, <1>2, <1>3, <1>8, <3>1 DEF ListInv, SplitInv
  <2> QED
    BY <2>1, <2>2, Zenon
<1> QED
  BY <1>9, <1>10, <1>11, <1>12, <1>13, <1>15, <1>16, Zenon DEF ListInv

(* become_zomble: the report reaches the set the process is in, or comes     *)
(* early and is kept by initproc.                                            *)
LEMMA ListReport ==
  ASSUME TypeOK, TypeOK', ThreadInv, ListInv, NEW t \in Tids, report(t)
  PROVE  ListInv'
<1> DEFINE p == process[t]
           h == Heir(t)
<1>p. p \in Procs /\ initproc \in Procs
  BY ShapeOK, Zenon
<1>0. /\ pc[t] = "report" /\ UNCHANGED <<life, parent, taken>>
      /\ children' = [children EXCEPT ![h] = become_zombie(children[h], p)]
      /\ pc' = [pc EXCEPT ![t] = "notify"]
  BY Zenon DEF report, Goto
<1>1. life[p] = "exited" /\ life[initproc] = "alive" /\ ~Reported(p) /\ p # initproc
  BY <1>0, Zenon DEF ThreadInv, Reported
<1>2. h = (IF life[parent[p]] = "alive" THEN parent[p] ELSE initproc) /\ h \in Procs
  <2>1. target[t] = {parent[p]} /\ parent[p] \in Procs
    BY <1>0, <1>p, Zenon DEF ThreadInv, TypeOK
  <2> QED
    BY <1>p, <2>1, Zenon DEF Heir
<1> HIDE DEF h
<1>3. Reported(p)' /\ \A q \in Procs \ {p} : Reported(q)' <=> Reported(q)
  <2>1. \A s \in Tids : pc'[s] = (IF s = t THEN "notify" ELSE pc[s])
    BY <1>0 DEF TypeOK
  <2>2. \A s \in Tids : process[s] = p /\ s # t => pc[s] = "dead"
    BY <1>0, Zenon DEF ThreadInv, Exiting
  <2> QED
    BY <2>1, <2>2, Zenon DEF Reported
<1>4. \A q \in Procs : p \notin children[q].zombie
  BY <1>1, Zenon DEF ListInv, SplitInv
<1>5. \A s \in Tids : p \notin taken[s].zombie
  BY <1>1, Zenon DEF ListInv, SplitInv
<1>6. \A q \in Procs : p \in children[q].alive => q = h
  <2>1. \A q \in Procs : p \in children[q].alive =>
          life[q] = "alive" /\ (q = parent[p] \/ (q = initproc /\ life[parent[p]] # "alive"))
    BY Zenon DEF ListInv, ChildInv, Members
  <2> QED
    BY <1>2, <2>1, Zenon
<1>7. \/ p \in children[h].alive /\ \A s \in Tids : p \notin taken[s].alive
      \/ h = initproc /\ (\A q \in Procs : p \notin children[q].alive) /\ \E s \in Tids : p \in taken[s].alive
  <2>1. CASE \E q \in Procs : p \in children[q].alive
    <3>1. p \in children[h].alive
      BY <1>6, <2>1, Zenon
    <3> QED
      BY <1>2, <3>1, Zenon DEF ListInv, ChildInv, Members
  <2>2. CASE \A q \in Procs : p \notin children[q].alive
    <3>1. PICK s \in Tids : p \in taken[s].alive
      BY <1>1, <1>4, <1>5, <1>p, <2>2, Zenon DEF ListInv, KnownInv, Members
    <3>2. process[s] = parent[p] /\ pc[s] \in Carrying
      BY <3>1, EmptySets DEF ListInv, TakenInv, ThreadInv, Members
    <3>3. life[parent[p]] # "alive"
      BY <3>2, Zenon DEF ThreadInv, Carrying, Exiting
    <3> QED
      BY <1>2, <2>2, <3>1, <3>3, Zenon
  <2> QED
    BY <2>1, <2>2, Zenon
<1>8. \A q \in Procs : \A x :
        /\ x \in children'[q].alive <=> x \in children[q].alive /\ x # p
        /\ x \in children'[q].zombie <=> x \in children[q].zombie \/ (q = h /\ x = p /\ p \in children[h].alive)
        /\ x \in children'[q].pending <=> x \in children[q].pending \/ (q = h /\ x = p /\ p \notin children[h].alive)
  <2> DEFINE d == become_zombie(children[h], p)
  <2>1. children[h] \in Sets
    BY <1>2 DEF TypeOK
  <2>2. children' = [children EXCEPT ![h] = d]
    BY <1>0, Zenon
  <2>3. /\ d.alive = children[h].alive \ {p}
        /\ d.zombie = IF p \in children[h].alive THEN children[h].zombie \cup {p} ELSE children[h].zombie
        /\ d.pending = IF p \in children[h].alive THEN children[h].pending ELSE children[h].pending \cup {p}
    BY <1>p, <2>1, BecomeZombie, Zenon
  <2> HIDE DEF d
  <2>4. \A q \in Procs : children'[q] = (IF q = h THEN d ELSE children[q])
    BY <1>2, <2>2 DEF TypeOK
  <2>5. \A x : /\ x \in d.alive <=> x \in children[h].alive /\ x # p
               /\ x \in d.zombie <=> x \in children[h].zombie \/ (x = p /\ p \in children[h].alive)
               /\ x \in d.pending <=> x \in children[h].pending \/ (x = p /\ p \notin children[h].alive)
    BY <2>3, Zenon
  <2>6. ASSUME NEW q \in Procs, q # h PROVE children'[q] = children[q] /\ p \notin children[q].alive
    BY <1>6, <2>4, <2>6, Zenon
  <2>7. children'[h] = d
    BY <1>2, <2>4, Zenon
  <2> QED
    BY <2>5, <2>6, <2>7, Zenon
<1>9. \A q \in Procs : \A x : x \in Members(children'[q]) <=> x \in Members(children[q])
  BY <1>6, <1>8, Zenon DEF Members
<1>10. \A q \in Procs : \A x : x \in children[q].alive \/ x \in children[q].zombie \/ x \in children[q].pending => x \in Procs
  BY SetsFields, Zenon DEF TypeOK
<1>11. \A s \in Tids : \A x : x \in taken[s].alive \/ x \in taken[s].zombie => x \in Procs
  BY SetsFields, Zenon DEF TypeOK
<1>12. ChildInv'
  <2> SUFFICES ASSUME NEW q \in Procs, NEW x \in Members(children'[q])
      PROVE  /\ x # initproc /\ life[x] \in {"alive", "exited"} /\ life[q] = "alive"
             /\ q = parent[x] \/ (q = initproc /\ life[parent[x]] # "alive")
             /\ \A s \in Tids : x \notin Members(taken[s])
    BY <1>0 DEF ChildInv, Members
  <2>1. x \in Members(children[q])
    BY <1>9, Zenon
  <2> QED
    BY <2>1, Zenon DEF ListInv, ChildInv
<1>13. TakenInv'
  BY <1>0, Zenon DEF ListInv, TakenInv
<1>14. KnownInv'
  <2> SUFFICES ASSUME NEW x \in Procs, x # initproc, life[x] \in {"alive", "exited"}
      PROVE  (\E q \in Procs : x \in Members(children'[q])) \/ \E s \in Tids : x \in Members(taken[s])
    BY <1>0, Zenon DEF KnownInv, Members
  <2> QED
    BY <1>9, Zenon DEF ListInv, KnownInv
<1>15. AliveInv'
  <2>1. ASSUME NEW q \in Procs, NEW x, x \in children'[q].alive, life[x] = "exited" PROVE ~Reported(x)'
    BY <1>3, <1>8, <1>10, <2>1, Zenon DEF ListInv, AliveInv
  <2>2. ASSUME NEW s \in Tids, NEW x, x \in taken[s].alive, life[x] = "exited"
        PROVE  ~Reported(x)' \/ x \in children'[initproc].pending
    <3>1. CASE x = p
      BY <1>7, <1>8, <1>p, <2>2, <3>1, Zenon
    <3>2. CASE x # p
      BY <1>3, <1>8, <1>11, <1>p, <2>2, <3>2, Zenon DEF ListInv, AliveInv
    <3> QED
      BY <3>1, <3>2, Zenon
  <2> QED
    BY <1>0, <2>1, <2>2, Zenon DEF AliveInv
<1>16. PendingInv'
  <2> SUFFICES ASSUME NEW q \in Procs, NEW x, x \in children'[q].pending
      PROVE  /\ q = initproc /\ life[x] = "exited" /\ Reported(x)'
             /\ \E s \in Tids : x \in taken[s].alive
    BY <1>0, Zenon DEF PendingInv
  <2>1. CASE x \in children[q].pending
    BY <1>1, <1>3, <1>10, <2>1, Zenon DEF ListInv, PendingInv
  <2>2. CASE x \notin children[q].pending
    BY <1>1, <1>3, <1>7, <1>8, <2>2
  <2> QED
    BY <2>1, <2>2, Zenon
<1>17. \A q \in Procs : SplitInv(children[q])'
  <2> SUFFICES ASSUME NEW q \in Procs
      PROVE  /\ \A x : ~(x \in children'[q].alive /\ x \in children'[q].zombie)
             /\ \A x \in children'[q].zombie : life[x] = "exited" /\ Reported(x)'
    BY <1>0, Zenon DEF SplitInv
  <2>1. \A x \in children[q].zombie : x \in Procs /\ x # p /\ x \notin children[q].alive /\ life[x] = "exited" /\ Reported(x)
    BY <1>4, <1>10, Zenon DEF ListInv, SplitInv
  <2> QED
    BY <1>1, <1>3, <1>8, <2>1, Zenon
<1>18. \A s \in Tids : SplitInv(taken[s])'
  BY <1>0, <1>3, <1>5, <1>11, Zenon DEF ListInv, SplitInv
<1> QED
  BY <1>12, <1>13, <1>14, <1>15, <1>16, <1>17, <1>18, Zenon DEF ListInv

(* throw_children: initproc inherits, and early reports are resolved. *)
LEMMA ListThrow ==
  ASSUME TypeOK, TypeOK', ThreadInv, ListInv, NEW t \in Tids, throw_children(t)
  PROVE  ListInv'
<1> DEFINE p == process[t]
<1>p. p \in Procs /\ initproc \in Procs
  BY ShapeOK, Zenon
<1>0. /\ pc[t] = "throw" /\ UNCHANGED <<life, parent>> /\ taken' = [taken EXCEPT ![t] = Empty]
      /\ children' = [children EXCEPT ![initproc] = append(children[initproc], taken[t])]
      /\ \E l \in {"dead", "throw_set"} : pc' = [pc EXCEPT ![t] = l]
  BY Zenon DEF throw_children, Goto
<1>1. life[p] \in {"exited", "reaped"} /\ life[initproc] = "alive"
  BY <1>0, Zenon DEF ThreadInv, Exiting
<1>2. \A q \in Procs : Reported(q)' <=> Reported(q)
  <2>1. PICK l \in {"dead", "throw_set"} : pc' = [pc EXCEPT ![t] = l]
    BY <1>0, Zenon
  <2>2. \A s \in Tids : pc'[s] = "report" <=> pc[s] = "report"
    BY <1>0, <2>1 DEF TypeOK
  <2> QED
    BY <2>2, Zenon DEF Reported
<1>3. \A s \in Tids : taken'[s] = (IF s = t THEN Empty ELSE taken[s])
  BY <1>0 DEF TypeOK
<1>4. taken[t].pending = {}
  BY Zenon DEF ListInv, TakenInv
<1>5. \A x : x \in children[initproc].pending =>
        /\ x \notin children[initproc].alive /\ x \notin children[initproc].zombie
        /\ life[x] = "exited" /\ Reported(x) /\ \E s \in Tids : x \in taken[s].alive
  <2>1. \A x : x \in children[initproc].pending => life[x] = "exited" /\ Reported(x) /\ \E s \in Tids : x \in taken[s].alive
    BY <1>p, Zenon DEF ListInv, PendingInv
  <2>2. \A x \in Members(children[initproc]) : \A s \in Tids : x \notin Members(taken[s])
    BY <1>p, Zenon DEF ListInv, ChildInv
  <2> QED
    BY <2>1, <2>2, Zenon DEF Members
<1>6. /\ \A q \in Procs \ {initproc} : children'[q] = children[q]
      /\ \A x :
        /\ x \in children'[initproc].alive <=>
             (x \in children[initproc].alive \/ x \in taken[t].alive) /\ x \notin children[initproc].pending
        /\ x \in children'[initproc].zombie <=>
             \/ x \in children[initproc].zombie \/ x \in taken[t].zombie
             \/ x \in taken[t].alive /\ x \in children[initproc].pending
        /\ x \in children'[initproc].pending <=>
             x \in children[initproc].pending /\ x \notin taken[t].alive
  <2> DEFINE c == children[initproc]
             d == append(c, taken[t])
  <2>1. c \in Sets /\ taken[t] \in Sets
    BY <1>p, Zenon DEF TypeOK
  <2>2. children' = [children EXCEPT ![initproc] = d]
    BY <1>0, Zenon
  <2>3. /\ d.alive = (c.alive \cup taken[t].alive) \ (c.pending \cup taken[t].pending)
        /\ d.zombie = c.zombie \cup taken[t].zombie \cup ((c.alive \cup taken[t].alive) \cap (c.pending \cup taken[t].pending))
        /\ d.pending = (c.pending \cup taken[t].pending) \ (c.alive \cup taken[t].alive)
    BY <2>1, AppendSets, Zenon
  <2> HIDE DEF d
  <2>4. children'[initproc] = d /\ \A q \in Procs \ {initproc} : children'[q] = children[q]
    BY <1>p, <2>2 DEF TypeOK
  <2>5. \A x :
        /\ x \in d.alive <=> (x \in c.alive \/ x \in taken[t].alive) /\ x \notin c.pending
        /\ x \in d.zombie <=> x \in c.zombie \/ x \in taken[t].zombie \/ (x \in taken[t].alive /\ x \in c.pending)
        /\ x \in d.pending <=> x \in c.pending /\ x \notin taken[t].alive
    BY <1>4, <1>5, <2>3, Zenon
  <2> QED
    BY <2>4, <2>5, Zenon
<1>7. \A x : x \in Members(children'[initproc]) <=> x \in Members(children[initproc]) \/ x \in Members(taken[t])
  BY <1>5, <1>6, Zenon DEF Members
<1>8. \A q \in Procs : \A x : x \in children[q].alive \/ x \in children[q].zombie \/ x \in children[q].pending => x \in Procs
  BY SetsFields, Zenon DEF TypeOK
<1>9. \A s \in Tids : \A x : x \in taken[s].alive \/ x \in taken[s].zombie => x \in Procs
  BY SetsFields, Zenon DEF TypeOK
<1>10. \A s \in Tids \ {t} : \A x : x \in Members(taken[t]) => x \notin Members(taken[s])
  BY OneTakenSet, Zenon
<1>11. ChildInv'
  <2> SUFFICES ASSUME NEW q \in Procs, NEW x \in Members(children'[q])
      PROVE  /\ x # initproc /\ life[x] \in {"alive", "exited"} /\ life[q] = "alive"
             /\ q = parent[x] \/ (q = initproc /\ life[parent[x]] # "alive")
             /\ \A s \in Tids : x \notin Members(taken'[s])
    BY <1>0 DEF ChildInv, Members
  <2>1. CASE x \in Members(children[q])
    <3>1. /\ x # initproc /\ life[x] \in {"alive", "exited"} /\ life[q] = "alive"
          /\ q = parent[x] \/ (q = initproc /\ life[parent[x]] # "alive")
          /\ \A s \in Tids : x \notin Members(taken[s])
      BY <2>1, Zenon DEF ListInv, ChildInv
    <3> QED
      BY <1>3, <3>1, EmptySets, Zenon
  <2>2. CASE q = initproc /\ x \in Members(taken[t])
    <3>1. x # initproc /\ life[x] \in {"alive", "exited"} /\ p = parent[x]
      BY <2>2, Zenon DEF ListInv, TakenInv
    <3>2. \A s \in Tids : x \notin Members(taken'[s])
      BY <1>3, <1>10, <2>2, EmptySets, Zenon
    <3> QED
      BY <1>1, <2>2, <3>1, <3>2, Zenon
  <2> QED
    BY <1>6, <1>7, <2>1, <2>2, Zenon
<1>12. TakenInv'
  <2>1. \A s \in Tids : /\ taken[s].pending = {}
                           /\ \A x \in Members(taken[s]) : x # initproc /\ life[x] \in {"alive", "exited"} /\ process[s] = parent[x]
    BY Zenon DEF ListInv, TakenInv
  <2>2. \A s \in Tids : /\ taken'[s].pending = {}
                           /\ \A x \in Members(taken'[s]) : x # initproc /\ life[x] \in {"alive", "exited"} /\ process[s] = parent[x]
    BY <1>3, <2>1, EmptySets, Zenon
  <2> QED
    BY <1>0, <2>2, Zenon DEF TakenInv
<1>13. KnownInv'
  <2> SUFFICES ASSUME NEW x \in Procs, x # initproc, life[x] \in {"alive", "exited"}
      PROVE  (\E q \in Procs : x \in Members(children'[q])) \/ \E s \in Tids : x \in Members(taken'[s])
    BY <1>0, Zenon DEF KnownInv, Members
  <2>1. CASE \E q \in Procs : x \in Members(children[q])
    BY <1>6, <1>7, <1>p, <2>1, Zenon
  <2>2. CASE \E s \in Tids : x \in Members(taken[s])
    BY <1>3, <1>7, <1>p, <2>2, Zenon
  <2> QED
    BY <2>1, <2>2, Zenon DEF ListInv, KnownInv
<1>14. AliveInv'
  <2>1. ASSUME NEW q \in Procs, NEW x, x \in children'[q].alive, life[x] = "exited" PROVE ~Reported(x)'
    <3>1. CASE x \in children[q].alive
      BY <1>2, <1>8, <2>1, <3>1, Zenon DEF ListInv, AliveInv
    <3>2. CASE x \in taken[t].alive /\ x \notin children[initproc].pending
      BY <1>2, <1>9, <2>1, <3>2, Zenon DEF ListInv, AliveInv
    <3> QED
      BY <1>6, <2>1, <3>1, <3>2, Zenon
  <2>2. ASSUME NEW s \in Tids, NEW x, x \in taken'[s].alive, life[x] = "exited"
        PROVE  ~Reported(x)' \/ x \in children'[initproc].pending
    <3>1. s # t /\ x \in taken[s].alive
      BY <1>3, <2>2, EmptySets, Zenon
    <3>2. x \notin taken[t].alive
      BY <1>10, <3>1, Zenon DEF Members
    <3> QED
      BY <1>2, <1>6, <1>9, <2>2, <3>1, <3>2, Zenon DEF ListInv, AliveInv
  <2> QED
    BY <1>0, <2>1, <2>2, Zenon DEF AliveInv
<1>15. PendingInv'
  <2> SUFFICES ASSUME NEW q \in Procs, NEW x, x \in children'[q].pending
      PROVE  /\ q = initproc /\ life[x] = "exited" /\ Reported(x)'
             /\ \E s \in Tids : x \in taken'[s].alive
    BY <1>0, Zenon DEF PendingInv
  <2>1. x \in children[q].pending
    BY <1>6, Zenon
  <2>2. /\ q = initproc /\ life[x] = "exited" /\ Reported(x) /\ x \in Procs
        /\ \E s \in Tids : x \in taken[s].alive
    BY <1>8, <2>1, Zenon DEF ListInv, PendingInv
  <2>3. x \notin taken[t].alive
    BY <1>6, <2>2, Zenon
  <2>4. \E s \in Tids : x \in taken'[s].alive
    BY <1>3, <2>2, <2>3, Zenon
  <2> QED
    BY <1>2, <2>2, <2>4, Zenon
<1>16. \A q \in Procs : SplitInv(children[q])'
  <2> SUFFICES ASSUME NEW q \in Procs
      PROVE  /\ \A x : ~(x \in children'[q].alive /\ x \in children'[q].zombie)
             /\ \A x \in children'[q].zombie : life[x] = "exited" /\ Reported(x)'
    BY <1>0, Zenon DEF SplitInv
  <2>1. \A x \in children[q].zombie : x \in Procs /\ x \notin children[q].alive /\ life[x] = "exited" /\ Reported(x)
    BY <1>8, Zenon DEF ListInv, SplitInv
  <2>2. CASE q # initproc
    BY <1>2, <1>6, <2>1, <2>2, Zenon
  <2>3. CASE q = initproc
    <3>1. \A x \in taken[t].zombie : x \in Procs /\ x \notin taken[t].alive /\ life[x] = "exited" /\ Reported(x)
      BY <1>9, Zenon DEF ListInv, SplitInv
    <3>2. \A x \in Members(children[q]) : x \notin Members(taken[t])
      BY Zenon DEF ListInv, ChildInv
    <3>3. \A x : x \in children[initproc].pending => x \in Procs
      BY <1>8, <1>p, Zenon
    <3>4. \A x : ~(x \in children'[q].alive /\ x \in children'[q].zombie)
      BY <1>6, <2>1, <2>3, <3>1, <3>2, Zenon DEF Members
    <3>5. \A x \in children'[q].zombie : life[x] = "exited" /\ Reported(x)'
      BY <1>2, <1>5, <1>6, <2>1, <2>3, <3>1, <3>3, Zenon
    <3> QED
      BY <3>4, <3>5, Zenon
  <2> QED
    BY <2>2, <2>3, Zenon
<1>17. \A s \in Tids : SplitInv(taken[s])'
  <2> SUFFICES ASSUME NEW s \in Tids
      PROVE  /\ \A x : ~(x \in taken'[s].alive /\ x \in taken'[s].zombie)
             /\ \A x \in taken'[s].zombie : life[x] = "exited" /\ Reported(x)'
    BY <1>0, Zenon DEF SplitInv
  <2>1. \A x : (x \in taken'[s].alive => x \in taken[s].alive) /\ (x \in taken'[s].zombie => x \in taken[s].zombie)
    BY <1>3, EmptySets, Zenon
  <2> QED
    BY <1>2, <1>9, <2>1, Zenon DEF ListInv, SplitInv
<1> QED
  BY <1>11, <1>12, <1>13, <1>14, <1>15, <1>16, <1>17, Zenon DEF ListInv

(* Every step keeps the lists of children. *)
LEMMA ListStep ==
  ASSUME TypeOK, TypeOK', ThreadInv, ListInv, Next
  PROVE  ListInv'
<1>0. PICK t \in Tids :
         \/ \E c \in Procs : fork(t, c) \/ sys_wait4(t, {c})
         \/ sys_wait4(t, AnyChild)
         \/ Waits(t) \/ exit_impl(t) \/ Exits(t)
  BY Zenon DEF Next
<1>1. ASSUME NEW k \in PCs \ {"report"}, NEW l \in PCs \ {"report"}, pc[t] = k, pc' = [pc EXCEPT ![t] = l],
             UNCHANGED <<life, parent, children, taken>>
      PROVE  ListInv'
  <2>1. \A s \in Tids : pc'[s] = "report" <=> pc[s] = "report"
    BY <1>1 DEF TypeOK
  <2> QED
    BY <1>1, <2>1, ListQuiet, Zenon
<1>2. ASSUME NEW c \in Procs, fork(t, c) PROVE ListInv'
  BY <1>2, ListFork, Zenon
<1>3. ASSUME NEW w, sys_wait4(t, w) PROVE ListInv'
  <2>1. pc[t] = "user" /\ pc' = [pc EXCEPT ![t] = "check"] /\ UNCHANGED <<life, parent, children, taken>>
    BY <1>3, Zenon DEF sys_wait4, Goto
  <2> QED
    BY <1>1, <2>1, Zenon DEF PCs
<1>4. CASE check(t)
  <2>1. pc[t] = "check" /\ UNCHANGED <<parent, taken>>
    BY <1>4, CheckCases, Zenon
  <2>2. ASSUME NEW c \in Procs, c \in children[process[t]].zombie, Reaps(process[t], c), Goto(t, "user") PROVE ListInv'
    BY <1>4, <2>2, ListReap, Zenon DEF Goto
  <2>3. ASSUME NEW l \in {"user", "poll"}, Goto(t, l), UNCHANGED <<life, children>> PROVE ListInv'
    BY <1>1, <2>1, <2>3, Zenon DEF PCs, Goto
  <2> QED
    BY <1>4, <2>2, <2>3, CheckCases, Zenon
<1>5. CASE poll(t) \/ register(t) \/ ready(t) \/ clear(t)
  <2>1. /\ pc[t] \in {"poll", "register", "wait", "clear"}
        /\ \E l \in {"clear", "register", "wait", "check"} : pc' = [pc EXCEPT ![t] = l]
        /\ UNCHANGED <<life, parent, children, taken>>
    BY <1>5, Zenon DEF poll, register, ready, clear, Goto
  <2>2. PICK l \in {"clear", "register", "wait", "check"} : pc' = [pc EXCEPT ![t] = l]
    BY <2>1, Zenon
  <2> QED
    BY <1>1, <2>1, <2>2, Zenon DEF PCs
<1>6. CASE exit_impl(t)
  <2>1. CASE \A s \in ThreadsOf(process[t]) \ {t} : pc[s] = "dead"
    BY <1>6, <2>1, ListExit, Zenon
  <2>2. CASE ~\A s \in ThreadsOf(process[t]) \ {t} : pc[s] = "dead"
    <3>1. pc[t] = "user" /\ pc' = [pc EXCEPT ![t] = "dead"] /\ UNCHANGED <<life, parent, children, taken>>
      BY <1>6, <2>2, Zenon DEF exit_impl, Goto
    <3> QED
      BY <1>1, <3>1, Zenon DEF PCs
  <2> QED
    BY <2>1, <2>2, Zenon
<1>7. CASE report(t)
  BY <1>7, ListReport, Zenon
<1>8. CASE notify(t) \/ throw_set(t)
  <2>1. /\ pc[t] \in {"notify", "throw_set"}
        /\ \E l \in {"dead", "throw"} : pc' = [pc EXCEPT ![t] = l]
        /\ UNCHANGED <<life, parent, children, taken>>
    BY <1>8, Zenon DEF notify, throw_set, Goto
  <2>2. PICK l \in {"dead", "throw"} : pc' = [pc EXCEPT ![t] = l]
    BY <2>1, Zenon
  <2> QED
    BY <1>1, <2>1, <2>2, Zenon DEF PCs
<1>9. CASE throw_children(t)
  BY <1>9, ListThrow, Zenon
<1> QED
  BY <1>0, <1>2, <1>3, <1>4, <1>5, <1>6, <1>7, <1>8, <1>9, Zenon DEF Waits, Exits

(* The invariant is inductive. *)
LEMMA StepInv == IInv /\ [Next]_vars => IInv'
<1> SUFFICES ASSUME IInv, [Next]_vars PROVE IInv'
  BY Zenon
<1>1. CASE Next
  BY <1>1, TypeStep, ThreadStep, ListStep, Zenon DEF IInv
<1>2. CASE UNCHANGED vars
  <2>1. TypeOK' /\ ThreadInv'
    BY <1>2 DEF vars, IInv, TypeOK, ThreadInv
  <2>2. ListInv'
    BY <1>2, ListQuiet, Zenon DEF vars, IInv
  <2> QED
    BY <2>1, <2>2, Zenon DEF IInv
<1> QED
  BY <1>1, <1>2, Zenon
=============================================================================
