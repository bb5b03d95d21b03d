------------------------- MODULE ProcessTreeProofs --------------------------
(***************************************************************************)
(* Proofs about ProcessTree for every set of processes and threads: no      *)
(* child is lost or listed twice however exits cross, a report that comes   *)
(* early is resolved, and with one thread in a process no CHILD_PROCESS_QUIT *)
(* is missed.                                                               *)
(***************************************************************************)
EXTENDS ProcessTreeInv, FiniteSetTheorems

(* A process that is forked and not reaped has one home, another has none. *)
LEMMA HomeFound == IInv => OneHome
<1> SUFFICES ASSUME IInv, NEW p \in Procs \ {initproc}
    PROVE  /\ Cardinality({h \in Homes : p \in Members(Home(h))}) = IF life[p] \in {"alive", "exited"} THEN 1 ELSE 0
           /\ \A h \in Homes : p \notin Home(h).alive \cap Home(h).zombie
  BY Zenon DEF OneHome
<1>0. TypeOK /\ ThreadInv /\ ListInv
  BY Zenon DEF IInv
<1>1. /\ \A q \in Procs : <<"p", q>> \in Homes /\ Home(<<"p", q>>) = children[q]
      /\ \A t \in Tids : <<"t", t>> \in Homes /\ Home(<<"t", t>>) = taken[t]
  BY Zenon DEF Homes, Home
<1>2. \A h \in Homes : \/ \E q \in Procs : h = <<"p", q>> /\ Home(h) = children[q]
                       \/ \E t \in Tids : h = <<"t", t>> /\ Home(h) = taken[t]
  BY <1>1, Zenon DEF Homes
<1>3. \A h \in Homes : p \notin Home(h).alive \cap Home(h).zombie
  BY <1>0, <1>2, Zenon DEF ListInv, SplitInv
<1> DEFINE H == {h \in Homes : p \in Members(Home(h))}
<1>4. CASE life[p] \in {"alive", "exited"}
  <2>1. \E h \in Homes : p \in Members(Home(h))
    BY <1>0, <1>1, <1>4, Zenon DEF ListInv, KnownInv
  <2>2. \A g, h \in Homes : p \in Members(Home(g)) /\ p \in Members(Home(h)) => g = h
    <3> SUFFICES ASSUME NEW g \in Homes, NEW h \in Homes, p \in Members(Home(g)), p \in Members(Home(h))
        PROVE  g = h
      BY Zenon
    <3>1. ASSUME NEW q \in Procs, NEW t \in Tids PROVE ~(p \in Members(children[q]) /\ p \in Members(taken[t]))
      BY <1>0, Zenon DEF ListInv, ChildInv
    <3>2. ASSUME NEW q \in Procs, NEW r \in Procs, p \in Members(children[q]), p \in Members(children[r]) PROVE q = r
      BY <1>0, <3>2, OneChildSet, Zenon
    <3>3. ASSUME NEW t \in Tids, NEW s \in Tids, p \in Members(taken[t]), p \in Members(taken[s]) PROVE t = s
      BY <1>0, <3>3, OneTakenSet, Zenon
    <3> QED
      BY <1>2, <3>1, <3>2, <3>3, Zenon
  <2>3. PICK h \in Homes : H = {h}
    BY <2>1, <2>2
  <2>4. Cardinality(H) = 1
    BY <2>3, FS_Singleton, Zenon
  <2> QED
    BY <1>3, <1>4, <2>4, Zenon
<1>5. CASE life[p] \notin {"alive", "exited"}
  <2>1. \A h \in Homes : p \notin Members(Home(h))
    BY <1>0, <1>2, <1>5 DEF ListInv, ChildInv, TakenInv
  <2>2. H = {}
    BY <2>1, Zenon
  <2>3. Cardinality(H) = 0
    BY <2>2, FS_EmptySet, Zenon
  <2> QED
    BY <1>3, <1>5, <2>3, Zenon
<1> QED
  BY <1>4, <1>5, Zenon

(* For any processes and threads, however exits of parents and children cross: *)
(* every process that is forked and not reaped is in one ChildrenSet, a report *)
(* that comes early waits for a child on its way to initproc, zombies have     *)
(* exited, and the sets of dead processes are empty.                           *)
THEOREM ChildrenAreSafe == Spec => []ChildrenSafe
<1>1. Init => IInv
  BY InitInv, Zenon
<1>2. IInv /\ [Next]_vars => IInv'
  BY StepInv, Zenon
<1>3. IInv => ChildrenSafe
  <2> SUFFICES ASSUME IInv PROVE ChildrenSafe
    BY Zenon
  <2>0. TypeOK /\ ListInv
    BY Zenon DEF IInv
  <2>1. PendingOnItsWay
    BY <2>0, Zenon DEF ListInv, PendingInv, PendingOnItsWay
  <2>2. ZombiesAreDead
    <3> SUFFICES ASSUME NEW h \in Homes
        PROVE  /\ \A q \in Home(h).zombie : life[q] = "exited"
               /\ h[1] = "p" /\ life[h[2]] # "alive" => IsEmpty(Home(h))
      BY Zenon DEF ZombiesAreDead
    <3>1. ASSUME NEW q \in Procs, h = <<"p", q>>
          PROVE  /\ \A x \in Home(h).zombie : life[x] = "exited"
                 /\ h[1] = "p" /\ life[h[2]] # "alive" => IsEmpty(Home(h))
      <4>1. Home(h) = children[q] /\ h[2] = q
        BY <3>1, Zenon DEF Home
      <4>2. life[q] # "alive" => Members(children[q]) = {}
        BY <2>0, Zenon DEF ListInv, ChildInv
      <4>3. life[q] # "alive" => children[q].pending = {}
        BY Zenon DEF IInv, ListInv, PendingInv, ThreadInv
      <4>4. \A x \in children[q].zombie : life[x] = "exited"
        BY <2>0, Zenon DEF ListInv, SplitInv
      <4> QED
        BY <4>1, <4>2, <4>3, <4>4, Zenon DEF IsEmpty
    <3>2. ASSUME NEW t \in Tids, h = <<"t", t>>
          PROVE  /\ \A x \in Home(h).zombie : life[x] = "exited"
                 /\ h[1] = "p" /\ life[h[2]] # "alive" => IsEmpty(Home(h))
      <4>1. Home(h) = taken[t] /\ h[1] # "p"
        BY <3>2, Zenon DEF Home
      <4> QED
        BY <2>0, <4>1, Zenon DEF ListInv, SplitInv
    <3> QED
      BY <3>1, <3>2, Zenon DEF Homes
  <2> QED
    BY <2>1, <2>2, HomeFound, Zenon DEF ChildrenSafe
<1> QED
  BY <1>1, <1>2, <1>3, PTL DEF Spec

-----------------------------------------------------------------------------
(* Somebody is about to set CHILD_PROCESS_QUIT of p. *)
Notifier(p) ==
  \E s \in Tids : (pc[s] = "notify" /\ target[s] = {p}) \/ (pc[s] = "throw_set" /\ p = initproc)

Beside(t) == children[process[t]].zombie \cap target[t] # {}

(* A zombie that came after the look at the children shows in the event, or  *)
(* will; whoever sleeps is registered.                                       *)
WakeOne(t) ==
  /\ pc[t] \in {"poll", "register"} /\ Beside(t) => quit[process[t]] \/ Notifier(process[t])
  /\ pc[t] = "wait" /\ ~fired[t] => t \in wakers[process[t]]
  /\ pc[t] = "wait" /\ ~fired[t] /\ Beside(t) => Notifier(process[t])

WakeInv == \A t \in Tids : WakeOne(t)

(* No process has a second thread, as clear needs: see process_tree_threads. *)
OneThread == \A s, t \in Tids : process[s] = process[t] => s = t

(* What a step does not disturb. *)
LEMMA WakeFrame ==
  ASSUME NEW s \in Tids, WakeOne(s), pc'[s] = pc[s], fired'[s] <=> fired[s],
         s \in wakers[process[s]] => s \in wakers'[process[s]],
         quit[process[s]] => quit'[process[s]],
         Beside(s)' => Beside(s),
         Notifier(process[s]) => Notifier(process[s])'
  PROVE  WakeOne(s)'
  BY Zenon DEF WakeOne

(* Who is about to set an event stays so while others move. *)
LEMMA NotifierKept ==
  ASSUME NEW t \in Tids, pc[t] \notin {"notify", "throw_set"},
         \A s \in Tids \ {t} : pc[s] \in {"notify", "throw_set"} => pc'[s] = pc[s] /\ target'[s] = target[s],
         NEW p, Notifier(p)
  PROVE  Notifier(p)'
  BY Zenon DEF Notifier

(* A step of thread t that touches no list, no event and no node. *)
LEMMA WakePlain ==
  ASSUME TypeOK, WakeInv, NEW t \in Tids, NEW l \in PCs, pc[t] \notin {"notify", "throw_set"},
         pc' = [pc EXCEPT ![t] = l], \A s \in Tids \ {t} : target'[s] = target[s],
         \A q \in Procs : \A x : x \in children'[q].zombie => x \in children[q].zombie,
         UNCHANGED <<quit, wakers, fired>>, WakeOne(t)'
  PROVE  WakeInv'
<1> SUFFICES ASSUME NEW s \in Tids, s # t PROVE WakeOne(s)'
  BY Zenon DEF WakeInv
<1>1. \A u \in Tids \ {t} : pc'[u] = pc[u]
  BY Zenon DEF TypeOK
<1>2. Beside(s)' => Beside(s)
  BY ShapeOK, Zenon DEF Beside
<1>3. Notifier(process[s]) => Notifier(process[s])'
  BY <1>1, NotifierKept, Zenon
<1>4. WakeOne(s)
  BY Zenon DEF WakeInv
<1> QED
  BY <1>1, <1>2, <1>3, <1>4, WakeFrame, Zenon

(* The event of q is set by t. *)
LEMMA WakeSet ==
  ASSUME OneThread, TypeOK, TypeOK', ThreadInv, WakeInv, NEW t \in Tids, NEW q \in Procs, set(q),
         (pc[t] = "notify" /\ q \in target[t]) \/ (pc[t] = "throw_set" /\ q = initproc),
         NEW l \in {"dead", "throw"}, pc' = [pc EXCEPT ![t] = l],
         \A s \in Tids \ {t} : target'[s] = target[s], UNCHANGED children
  PROVE  WakeInv'
<1> SUFFICES ASSUME NEW s \in Tids PROVE WakeOne(s)'
  BY Zenon DEF WakeInv
<1> DEFINE p == process[s]
<1>p. p \in Procs
  BY ShapeOK, Zenon
<1>1. \A u \in Tids : pc'[u] = (IF u = t THEN l ELSE pc[u])
  BY DEF TypeOK
<1>2. CASE s = t
  BY <1>1, <1>2, Zenon DEF WakeOne
<1>3. CASE s # t /\ p = q /\ pc[s] \in Serving
  <2>1. life[q] = "alive"
    BY <1>3, Zenon DEF ThreadInv
  <2>2. quit' = [quit EXCEPT ![q] = TRUE] /\ fired' = [u \in Tids |-> fired[u] \/ u \in wakers[q]]
    BY <2>1, Zenon DEF set
  <2>3. quit'[p]
    BY <1>3, <2>2, Zenon DEF TypeOK
  <2>4. WakeOne(s) /\ pc'[s] = pc[s]
    BY <1>1, <1>3, Zenon DEF WakeInv
  <2>5. pc[s] = "wait" => fired'[s]
    BY <1>3, <2>2, <2>4, Zenon DEF WakeOne
  <2> QED
    BY <2>3, <2>4, <2>5, Zenon DEF WakeOne
<1>4. CASE s # t /\ pc[s] \notin Serving
  BY <1>1, <1>4, Zenon DEF WakeOne, Serving
<1>5. CASE s # t /\ p # q
  <2>1. Notifier(p) => Notifier(p)'
    <3> SUFFICES ASSUME NEW u \in Tids, (pc[u] = "notify" /\ target[u] = {p}) \/ (pc[u] = "throw_set" /\ p = initproc)
        PROVE  Notifier(p)'
      BY Zenon DEF Notifier
    <3>1. u # t
      BY <1>5, Zenon
    <3> QED
      BY <1>1, <3>1, Zenon DEF Notifier
  <2>2. Beside(s)' => Beside(s)
    BY <1>5, Zenon DEF Beside
  <2>3. s \in wakers[p] => s \in wakers'[p]
    <3>1. wakers' = wakers \/ wakers' = [wakers EXCEPT ![q] = {}]
      BY Zenon DEF set
    <3> QED
      BY <1>5, <1>p, <3>1 DEF TypeOK
  <2>4. quit[p] => quit'[p]
    <3>1. quit' = quit \/ quit' = [quit EXCEPT ![q] = TRUE]
      BY Zenon DEF set
    <3> QED
      BY <1>5, <1>p, <3>1 DEF TypeOK
  <2>5. fired'[s] <=> fired[s]
    <3>1. s \notin wakers[q]
      BY <1>5 DEF TypeOK
    <3> QED
      BY <3>1, Zenon DEF set
  <2>6. WakeOne(s) /\ pc'[s] = pc[s]
    BY <1>1, <1>5, Zenon DEF WakeInv
  <2> QED
    BY <2>1, <2>2, <2>3, <2>4, <2>5, <2>6, WakeFrame, Zenon
<1> QED
  BY <1>2, <1>3, <1>4, <1>5, Zenon

(* fork: the new threads wait for nothing. *)
LEMMA WakeFork ==
  ASSUME TypeOK, ThreadInv, ListInv, WakeInv, NEW t \in Tids, NEW c \in Procs, fork(t, c)
  PROVE  WakeInv'
<1> SUFFICES ASSUME NEW s \in Tids PROVE WakeOne(s)'
  BY Zenon DEF WakeInv
<1> DEFINE p == process[t]
<1>p. p \in Procs /\ process[s] \in Procs
  BY ShapeOK, Zenon
<1>0. /\ pc[t] = "user" /\ life[c] = "unborn"
      /\ children' = [children EXCEPT ![p] = push_child(children[p], c)]
      /\ pc' = [u \in Tids |-> IF process[u] = c THEN "user" ELSE pc[u]]
      /\ UNCHANGED <<quit, wakers, fired, target>>
  BY Zenon DEF fork
<1>1. CASE process[s] = c
  BY <1>0, <1>1, Zenon DEF WakeOne
<1>2. CASE process[s] # c
  <2>1. \A u \in Tids : pc[u] \in {"notify", "throw_set"} => pc'[u] = pc[u]
    BY <1>0, Zenon DEF ThreadInv
  <2>2. Notifier(process[s]) => Notifier(process[s])'
    BY <1>0, <2>1, NotifierKept, Zenon
  <2>3. children[p] \in Sets /\ c \notin children[p].pending
    BY <1>0, <1>p, Zenon DEF TypeOK, ListInv, PendingInv
  <2>4. push_child(children[p], c).zombie = children[p].zombie
    BY <2>3, PushChild, Zenon
  <2>5. \A q \in Procs : children'[q] = (IF q = p THEN push_child(children[p], c) ELSE children[q])
    BY <1>0, <1>p, Zenon DEF TypeOK
  <2>6. children'[process[s]].zombie = children[process[s]].zombie
    BY <1>p, <2>4, <2>5, Zenon
  <2>7. Beside(s)' => Beside(s)
    BY <1>0, <2>6, Zenon DEF Beside
  <2>8. WakeOne(s) /\ pc'[s] = pc[s]
    BY <1>0, <1>2, Zenon DEF WakeInv
  <2> QED
    BY <1>0, <2>2, <2>7, <2>8, WakeFrame, Zenon
<1> QED
  BY <1>1, <1>2, Zenon

(* The steps of wait4. *)
LEMMA WakeWaits ==
  ASSUME OneThread, TypeOK, TypeOK', ThreadInv, WakeInv, NEW t \in Tids, Waits(t)
  PROVE  WakeInv'
<1> DEFINE p == process[t]
<1>p. p \in Procs /\ \A s \in Tids : process[s] \in Procs
  BY ShapeOK, Zenon
<1>o. WakeOne(t)
  BY Zenon DEF WakeInv
<1>1. CASE check(t)
  <2>1. pc[t] = "check" /\ UNCHANGED <<quit, wakers, fired>>
    BY <1>1, CheckCases, Zenon
  <2>2. \A s \in Tids \ {t} : target'[s] = target[s]
    <3>1. target' = target \/ target' = [target EXCEPT ![t] = {}]
      BY <1>1, Zenon DEF check
    <3> QED
      BY <3>1 DEF TypeOK
  <2>3. \A q \in Procs : \A x : x \in children'[q].zombie => x \in children[q].zombie
    <3>1. ASSUME NEW c \in Procs, Reaps(p, c), NEW q \in Procs PROVE \A x : x \in children'[q].zombie => x \in children[q].zombie
      <4> DEFINE d == [children[p] EXCEPT !.zombie = children[p].zombie \ {c}]
      <4>1. children' = [children EXCEPT ![p] = d]
        BY <3>1, Zenon DEF Reaps
      <4>2. d.zombie = children[p].zombie \ {c}
        <5>1. children[p] \in Sets
          BY <1>p, Zenon DEF TypeOK
        <5> QED
          BY <5>1, ReapedSet, Zenon
      <4> HIDE DEF d
      <4>3. children'[q] = (IF q = p THEN d ELSE children[q])
        BY <1>p, <4>1 DEF TypeOK
      <4> QED
        BY <4>2, <4>3, Zenon
    <3> QED
      BY <1>1, <3>1, CheckCases, Zenon
  <2>4. CASE Goto(t, "user")
    <3>1. WakeOne(t)'
      BY <2>4, Zenon DEF Goto, WakeOne, TypeOK
    <3>2. "user" \in PCs /\ pc[t] \notin {"notify", "throw_set"} /\ pc' = [pc EXCEPT ![t] = "user"]
      BY <2>1, <2>4, Zenon DEF Goto, PCs
    <3> QED
      BY <2>1, <2>2, <2>3, <3>1, <3>2, WakePlain, Zenon
  <2>5. CASE Goto(t, "poll") /\ UNCHANGED <<children, target>> /\ children[p].zombie \cap target[t] = {}
    <3>1. WakeOne(t)'
      BY <2>5, Zenon DEF Goto, WakeOne, TypeOK, Beside
    <3>2. "poll" \in PCs /\ pc[t] \notin {"notify", "throw_set"} /\ pc' = [pc EXCEPT ![t] = "poll"]
      BY <2>1, <2>5, Zenon DEF Goto, PCs
    <3> QED
      BY <2>1, <2>2, <2>3, <3>1, <3>2, WakePlain, Zenon
  <2> QED
    BY <1>1, <2>4, <2>5, CheckCases, Zenon
<1>2. CASE poll(t)
  <2>0. pc[t] = "poll" /\ UNCHANGED <<children, quit, wakers, fired, target>>
    BY <1>2, Zenon DEF poll
  <2>1. \E l \in {"clear", "register"} : pc' = [pc EXCEPT ![t] = l]
    BY <1>2, Zenon DEF poll, Goto
  <2>2. PICK l \in {"clear", "register"} : pc' = [pc EXCEPT ![t] = l]
    BY <2>1, Zenon
  <2>3. Notifier(p) => Notifier(p)'
    BY <2>0, <2>2, NotifierKept, Zenon DEF TypeOK
  <2>4. pc'[t] \in {"clear", "register"}
    BY <2>2 DEF TypeOK
  <2>5. Beside(t)' => Beside(t)
    BY <2>0, Zenon DEF Beside
  <2>6. WakeOne(t)'
    BY <1>o, <2>0, <2>3, <2>4, <2>5, Zenon DEF WakeOne
  <2> QED
    BY <2>0, <2>2, <2>6, WakePlain, Zenon DEF PCs
<1>3. CASE register(t)
  <2>0. pc[t] = "register" /\ pc' = [pc EXCEPT ![t] = "wait"] /\ UNCHANGED <<children, quit, target>>
    BY <1>3, Zenon DEF register, Goto
  <2>1. \A s \in Tids : Notifier(process[s]) => Notifier(process[s])'
    BY <2>0, NotifierKept, Zenon DEF TypeOK
  <2>2. \A s \in Tids : Beside(s)' => Beside(s)
    BY <2>0, Zenon DEF Beside
  <2>3. \/ quit[p] /\ fired' = [fired EXCEPT ![t] = TRUE] /\ wakers' = wakers
        \/ ~quit[p] /\ fired' = fired /\ wakers' = [wakers EXCEPT ![p] = wakers[p] \cup {t}]
    BY <1>3, Zenon DEF register
  <2>4. WakeOne(t)'
    <3>1. CASE quit[p] /\ fired' = [fired EXCEPT ![t] = TRUE] /\ wakers' = wakers
      <4>1. fired'[t] /\ pc'[t] = "wait"
        BY <2>0, <3>1 DEF TypeOK
      <4> QED
        BY <4>1, Zenon DEF WakeOne
    <3>2. CASE ~quit[p] /\ fired' = fired /\ wakers' = [wakers EXCEPT ![p] = wakers[p] \cup {t}]
      <4>1. t \in wakers'[p] /\ pc'[t] = "wait"
        BY <1>p, <2>0, <3>2 DEF TypeOK
      <4>2. Beside(t)' => Notifier(p)'
        BY <1>o, <2>0, <2>1, <2>2, <3>2, Zenon DEF WakeOne
      <4> QED
        BY <4>1, <4>2, Zenon DEF WakeOne
    <3> QED
      BY <2>3, <3>1, <3>2, Zenon
  <2>5. ASSUME NEW s \in Tids, s # t PROVE WakeOne(s)'
    <3>1. pc'[s] = pc[s]
      BY <2>0, <2>5 DEF TypeOK
    <3>2. fired'[s] <=> fired[s]
      BY <2>3, <2>5 DEF TypeOK
    <3>3. s \in wakers[process[s]] => s \in wakers'[process[s]]
      <4>1. wakers' = wakers \/ wakers' = [wakers EXCEPT ![p] = wakers[p] \cup {t}]
        BY <2>3, Zenon
      <4>2. process[s] # p
        BY <2>5, Zenon DEF OneThread
      <4>3. wakers'[process[s]] = wakers[process[s]]
        BY <1>p, <4>1, <4>2 DEF TypeOK
      <4> QED
        BY <4>3, Zenon
    <3>4. WakeOne(s)
      BY Zenon DEF WakeInv
    <3> QED
      BY <2>0, <2>1, <2>2, <3>1, <3>2, <3>3, <3>4, WakeFrame, Zenon
  <2> QED
    BY <2>4, <2>5, Zenon DEF WakeInv
<1>4. CASE ready(t) \/ clear(t)
  <2>0. /\ pc[t] \in {"wait", "clear"} /\ UNCHANGED <<children, target, wakers>>
        /\ \E l \in {"clear", "check"} : pc' = [pc EXCEPT ![t] = l]
        /\ quit' = quit \/ quit' = [quit EXCEPT ![p] = FALSE]
        /\ fired' = fired \/ fired' = [fired EXCEPT ![t] = FALSE]
    BY <1>4, Zenon DEF ready, clear, Goto
  <2>1. PICK l \in {"clear", "check"} : pc' = [pc EXCEPT ![t] = l]
    BY <2>0, Zenon
  <2>2. WakeOne(t)'
    <3>1. pc'[t] \in {"clear", "check"}
      BY <2>1 DEF TypeOK
    <3> QED
      BY <3>1, Zenon DEF WakeOne
  <2>3. ASSUME NEW s \in Tids, s # t PROVE WakeOne(s)'
    <3>1. pc'[s] = pc[s]
      BY <2>1, <2>3 DEF TypeOK
    <3>2. fired'[s] <=> fired[s]
      BY <2>0, <2>3 DEF TypeOK
    <3>3. process[s] # p
      BY <2>3, Zenon DEF OneThread
    <3>4. quit'[process[s]] <=> quit[process[s]]
      BY <1>p, <2>0, <3>3 DEF TypeOK
    <3>5. Notifier(process[s]) => Notifier(process[s])'
      BY <2>0, <2>1, NotifierKept, Zenon DEF TypeOK
    <3>6. WakeOne(s) /\ (Beside(s)' => Beside(s))
      BY <2>0, Zenon DEF WakeInv, Beside
    <3> QED
      BY <2>0, <3>1, <3>2, <3>4, <3>5, <3>6, WakeFrame, Zenon
  <2> QED
    BY <2>2, <2>3, Zenon DEF WakeInv
<1> QED
  BY <1>1, <1>2, <1>3, <1>4, Zenon DEF Waits

(* exit_impl: nobody of the process waits. *)
LEMMA WakeExit ==
  ASSUME OneThread, TypeOK, WakeInv, NEW t \in Tids, exit_impl(t)
  PROVE  WakeInv'
<1> SUFFICES ASSUME NEW s \in Tids PROVE WakeOne(s)'
  BY Zenon DEF WakeInv
<1> DEFINE p == process[t]
<1>p. p \in Procs /\ process[s] \in Procs
  BY ShapeOK, Zenon
<1>0. /\ pc[t] = "user" /\ UNCHANGED <<wakers, fired>>
      /\ quit' = quit \/ quit' = [quit EXCEPT ![p] = FALSE]
      /\ target' = target \/ target' = [target EXCEPT ![t] = {parent[p]}]
      /\ children' = children \/ children' = [children EXCEPT ![p] = Empty]
      /\ \E l \in {"report", "dead"} : pc' = [pc EXCEPT ![t] = l]
  BY Zenon DEF exit_impl, Goto
<1>1. PICK l \in {"report", "dead"} : pc' = [pc EXCEPT ![t] = l]
  BY <1>0, Zenon
<1>2. CASE s = t
  <2>1. pc'[s] \in {"report", "dead"}
    BY <1>1, <1>2, Zenon DEF TypeOK
  <2> QED
    BY <2>1, Zenon DEF WakeOne
<1>3. CASE s # t
  <2>1. process[s] # p
    BY <1>3, Zenon DEF OneThread
  <2>2. quit'[process[s]] <=> quit[process[s]]
    BY <1>p, <1>0, <2>1 DEF TypeOK
  <2>3. target'[s] = target[s] /\ children'[process[s]] = children[process[s]] /\ pc'[s] = pc[s]
    BY <1>p, <1>0, <1>1, <1>3, <2>1 DEF TypeOK
  <2>4. Notifier(process[s]) => Notifier(process[s])'
    BY <1>0, <1>1, NotifierKept DEF TypeOK
  <2>5. WakeOne(s) /\ (Beside(s)' => Beside(s))
    BY <2>3, Zenon DEF WakeInv, Beside
  <2> QED
    BY <1>0, <2>2, <2>3, <2>4, <2>5, WakeFrame, Zenon
<1> QED
  BY <1>2, <1>3, Zenon

(* The steps of an exit: whoever adds a zombie is about to set the event. *)
LEMMA WakeExits ==
  ASSUME OneThread, TypeOK, TypeOK', ThreadInv, ListInv, WakeInv, NEW t \in Tids, Exits(t)
  PROVE  WakeInv'
<1>p. initproc \in Procs /\ \A s \in Tids : process[s] \in Procs
  BY ShapeOK, Zenon
<1>1. CASE report(t)
  <2>0. PICK h : /\ pc[t] = "report" /\ UNCHANGED <<quit, wakers, fired>> /\ pc' = [pc EXCEPT ![t] = "notify"]
                 /\ children' = [children EXCEPT ![h] = become_zombie(children[h], process[t])]
                 /\ target' = [target EXCEPT ![t] = {h}]
    BY <1>1, Zenon DEF report, Goto
  <2>1. pc'[t] = "notify" /\ target'[t] = {h} /\ \A s \in Tids \ {t} : pc'[s] = pc[s] /\ target'[s] = target[s]
    BY <2>0 DEF TypeOK
  <2>2. Notifier(h)'
    BY <2>1, Zenon DEF Notifier
  <2>3. ASSUME NEW s \in Tids PROVE WakeOne(s)'
    <3>1. CASE s = t
      BY <2>1, <3>1, Zenon DEF WakeOne
    <3>2. CASE s # t /\ process[s] = h
      <4>1. WakeOne(s) /\ pc'[s] = pc[s] /\ Notifier(process[s])'
        BY <2>1, <2>2, <3>2 DEF WakeInv
      <4> QED
        BY <2>0, <4>1, Zenon DEF WakeOne
    <3>3. CASE s # t /\ process[s] # h
      <4>1. children'[process[s]] = children[process[s]]
        BY <1>p, <2>0, <3>3 DEF TypeOK
      <4>2. WakeOne(s) /\ (Beside(s)' => Beside(s))
        BY <2>1, <3>3, <4>1, Zenon DEF WakeInv, Beside
      <4>3. Notifier(process[s]) => Notifier(process[s])'
        BY <2>0, <2>1, NotifierKept, Zenon
      <4> QED
        BY <2>0, <2>1, <3>3, <4>2, <4>3, WakeFrame, Zenon
    <3> QED
      BY <3>1, <3>2, <3>3, Zenon
  <2> QED
    BY <2>3, Zenon DEF WakeInv
<1>2. CASE notify(t)
  <2>0. pc[t] = "notify" /\ UNCHANGED children /\ target' = [target EXCEPT ![t] = {}]
        /\ \E l \in {"dead", "throw"} : pc' = [pc EXCEPT ![t] = l]
    BY <1>2, Zenon DEF notify, Goto
  <2>1. PICK q \in target[t] : set(q)
    BY <1>2, Zenon DEF notify
  <2>2. q \in Procs
    BY <2>1, Zenon DEF TypeOK
  <2>3. PICK l \in {"dead", "throw"} : pc' = [pc EXCEPT ![t] = l]
    BY <2>0, Zenon
  <2>4. \A s \in Tids \ {t} : target'[s] = target[s]
    BY <2>0 DEF TypeOK
  <2> QED
    BY <2>0, <2>1, <2>2, <2>3, <2>4, WakeSet, Zenon
<1>3. CASE throw_children(t)
  <2>0. /\ pc[t] = "throw" /\ UNCHANGED <<quit, wakers, fired, target>>
        /\ children' = [children EXCEPT ![initproc] = append(children[initproc], taken[t])]
        /\ pc' = [pc EXCEPT ![t] = IF children'[initproc].zombie # {} THEN "throw_set" ELSE "dead"]
    BY <1>3, Zenon DEF throw_children, Goto
  <2>1. \A s \in Tids \ {t} : pc'[s] = pc[s]
    BY <2>0 DEF TypeOK
  <2>2. \A q \in Procs \ {initproc} : children'[q] = children[q]
    BY <2>0 DEF TypeOK
  <2>3. pc'[t] = IF children'[initproc].zombie # {} THEN "throw_set" ELSE "dead"
    BY <2>0 DEF TypeOK
  <2>4. ASSUME NEW s \in Tids PROVE WakeOne(s)'
    <3>1. CASE s = t
      BY <2>3, <3>1, Zenon DEF WakeOne
    <3>2. CASE s # t /\ process[s] = initproc
      <4>1. children'[initproc].zombie # {} => Notifier(initproc)'
        BY <2>3, Zenon DEF Notifier
      <4>2. Beside(s)' => Notifier(process[s])'
        BY <3>2, <4>1, Zenon DEF Beside
      <4> QED
        BY <2>0, <2>1, <3>2, <4>2, Zenon DEF WakeOne, WakeInv
    <3>3. CASE s # t /\ process[s] # initproc
      <4>1. WakeOne(s) /\ (Beside(s)' => Beside(s))
        BY <1>p, <2>0, <2>2, <3>3, Zenon DEF WakeInv, Beside
      <4>2. Notifier(process[s]) => Notifier(process[s])'
        BY <2>0, <2>1, NotifierKept
      <4> QED
        BY <2>0, <2>1, <3>3, <4>1, <4>2, WakeFrame
    <3> QED
      BY <3>1, <3>2, <3>3, Zenon
  <2> QED
    BY <2>4, Zenon DEF WakeInv
<1>4. CASE throw_set(t)
  <2>0. pc[t] = "throw_set" /\ UNCHANGED <<children, target>> /\ set(initproc) /\ pc' = [pc EXCEPT ![t] = "dead"]
    BY <1>4, Zenon DEF throw_set, Goto
  <2> QED
    BY <1>p, <2>0, WakeSet, Zenon
<1> QED
  BY <1>1, <1>2, <1>3, <1>4, Zenon DEF Exits

(* For any processes of one thread each: no thread sleeps in wait4 beside a    *)
(* zombie it waits for, unless somebody is about to set the event.             *)
THEOREM NoQuitIsMissed == ASSUME OneThread PROVE Spec => []NoSleepBesideZombie
<1>1. Init => IInv /\ WakeInv
  <2>1. Init => WakeInv
    BY Zenon DEF Init, WakeInv, WakeOne
  <2> QED
    BY <2>1, InitInv, Zenon
<1>2. IInv /\ WakeInv /\ [Next]_vars => IInv' /\ WakeInv'
  <2> SUFFICES ASSUME IInv, WakeInv, [Next]_vars PROVE WakeInv'
    BY StepInv, Zenon
  <2>0. TypeOK /\ TypeOK' /\ ThreadInv /\ ListInv
    BY StepInv, Zenon DEF IInv
  <2>1. CASE UNCHANGED vars
    BY <2>1, Zenon DEF vars, WakeInv, WakeOne, Beside, Notifier
  <2>2. CASE Next
    <3>0. PICK t \in Tids :
             \/ \E c \in Procs : fork(t, c) \/ sys_wait4(t, {c})
             \/ sys_wait4(t, AnyChild)
             \/ Waits(t) \/ exit_impl(t) \/ Exits(t)
      BY <2>2, Zenon DEF Next
    <3>1. ASSUME NEW w, sys_wait4(t, w) PROVE WakeInv'
      <4>1. /\ pc[t] = "user" /\ pc' = [pc EXCEPT ![t] = "check"] /\ UNCHANGED <<children, quit, wakers, fired>>
            /\ target' = [target EXCEPT ![t] = w]
        BY <3>1, Zenon DEF sys_wait4, Goto
      <4>2. pc'[t] = "check" /\ \A s \in Tids \ {t} : target'[s] = target[s]
        BY <2>0, <4>1 DEF TypeOK
      <4>3. WakeOne(t)'
        BY <4>2, Zenon DEF WakeOne
      <4> QED
        BY <2>0, <4>1, <4>2, <4>3, WakePlain, Zenon DEF PCs
    <3> QED
      BY <2>0, <3>0, <3>1, WakeFork, WakeWaits, WakeExit, WakeExits, Zenon
  <2> QED
    BY <2>1, <2>2, Zenon
<1>3. WakeInv => NoSleepBesideZombie
  BY Zenon DEF WakeInv, WakeOne, Beside, Notifier, NoSleepBesideZombie
<1> QED
  BY <1>1, <1>2, <1>3, PTL DEF Spec
=============================================================================
