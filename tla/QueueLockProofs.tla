-------------------------- MODULE QueueLockProofs ---------------------------
(***************************************************************************)
(* Proofs about the two locks that queue their waiters: the sleeping lock   *)
(* (SleepMutex) and the queued spin lock (QSpinLock).                       *)
(*                                                                          *)
(* SleepMutex, for every set of tasks: mutual exclusion, the life time of   *)
(* the nodes and the refinement of FifoLock (safety part).                  *)
(***************************************************************************)
EXTENDS SleepMutex, TLAPS

Handing(s) == pc[s] \in {"take", "grant"}

(* The queued nodes belong to tasks that wait, with a waker and no grant, and
   that no hand-over has popped. *)
QueueInv ==
  \A i \in 1..Len(queue) :
    /\ Waiting(queue[i]) /\ waker[queue[i]]
    /\ \A s \in Tasks : Handing(s) => next[s] # queue[i]

(* There is one owner: a holder, a granted waiter or the target of the one
   hand-over; the status says whether there is one. *)
OwnerInv ==
  /\ \A t \in Tasks : granted[t] => pc[t] \in Waits
  /\ \A s, t \in Tasks : Owns(s) /\ Owns(t) => s = t
  /\ \A s, t \in Tasks : Handing(s) /\ Handing(t) => s = t
  /\ \A t \in Tasks : Owns(t) => status
  /\ status => \E t \in Tasks : Owns(t)
  /\ queue # <<>> => status

IInv == TypeOK /\ QueueInv /\ NodeAlive /\ OwnerInv

-----------------------------------------------------------------------------
(* r is the queue q with t appended to it. *)
IsAppend(q, t, r) ==
  /\ q \in Seq(Tasks) /\ r \in Seq(Tasks) /\ r # <<>>
  /\ Len(q) \in Nat /\ Len(r) = Len(q) + 1
  /\ r[Len(q) + 1] = t
  /\ \A i \in 1..Len(q) : r[i] = q[i]

(* r is the queue q without its head h. *)
IsPop(q, h, r) ==
  /\ q \in Seq(Tasks) /\ r \in Seq(Tasks) /\ h \in Tasks
  /\ Len(q) \in Nat \ {0} /\ Len(r) = Len(q) - 1
  /\ h = q[1]
  /\ \A i \in 1..Len(r) : i + 1 \in 1..Len(q) /\ r[i] = q[i + 1]

(* lock joins the queue when the lock is taken. *)
Joins(t) ==
  /\ IsAppend(queue, t, queue')
  /\ pc[t] = "out" /\ pc' = [pc EXCEPT ![t] = "poll"]
  /\ waker' = [waker EXCEPT ![t] = TRUE]
  /\ status /\ UNCHANGED <<status, granted, next, notified>>

(* The drop of a guard pops a queue that is not empty. *)
Pops(t) ==
  /\ IsPop(queue, next'[t], queue')
  /\ pc[t] = "hold" /\ pc' = [pc EXCEPT ![t] = "take"]
  /\ next' = [next EXCEPT ![t] = next'[t]]
  /\ UNCHANGED <<status, granted, waker, notified>>

(* What lock does when the lock is taken. *)
LEMMA Appended ==
  ASSUME TypeOK, NEW t \in Tasks, lock(t), status
  PROVE  Joins(t)
<1>1. queue \in Seq(Tasks) BY Zenon DEF TypeOK
<1>2. queue' = Append(queue, t) BY Zenon DEF lock
<1>3. IsAppend(queue, t, queue') BY <1>1, <1>2 DEF IsAppend
<1> QED BY <1>3, Zenon DEF lock, Goto, Joins

(* What the drop of a guard does to a queue that is not empty. *)
LEMMA Popped ==
  ASSUME TypeOK, NEW t \in Tasks, drop_guard(t), queue # <<>>
  PROVE  Pops(t)
<1>1. queue \in Seq(Tasks) /\ next \in [Tasks -> Tasks] BY Zenon DEF TypeOK
<1>2. queue' = Tail(queue) /\ next'[t] = Head(queue) BY <1>1, Zenon DEF drop_guard
<1>3. Len(queue) \in Nat \ {0} BY <1>1
<1>4. /\ Head(queue) \in Tasks /\ Tail(queue) \in Seq(Tasks)
      /\ Len(Tail(queue)) = Len(queue) - 1
      /\ \A i \in 1..Len(Tail(queue)) : Tail(queue)[i] = queue[i + 1]
  BY <1>1, <1>3
<1>5. Head(queue) = queue[1] BY <1>1
<1>6. IsPop(queue, next'[t], queue') BY <1>1, <1>2, <1>3, <1>4, <1>5 DEF IsPop
<1> QED BY <1>1, <1>2, <1>6, Zenon DEF Pops, drop_guard, Goto

(* The inductive invariant holds initially. *)
LEMMA InitIInv == Init => IInv
<1> SUFFICES ASSUME Init PROVE IInv
  BY Zenon
<1>1. queue \in Seq(Tasks) /\ Len(queue) = 0 BY DEF Init
<1>2. TypeOK
  <2>1. queue \in Seq(Tasks) /\ \A i, j \in 1..Len(queue) : queue[i] = queue[j] => i = j
    BY <1>1
  <2> QED BY <2>1, Zenon DEF Init, TypeOK, PCs, Waits
<1>3. QueueInv BY <1>1 DEF QueueInv
<1>4. NodeAlive BY Zenon DEF Init, NodeAlive
<1>5. OwnerInv BY Zenon DEF Init, OwnerInv, Owns, Handing
<1> QED BY <1>2, <1>3, <1>4, <1>5, Zenon DEF IInv

(* Every action preserves the types and the single linking of nodes. *)
LEMMA TypeStep == IInv /\ Next => TypeOK'
<1> SUFFICES ASSUME IInv, NEW t \in Tasks,
                    try_lock(t) \/ lock(t) \/ spurious_wake(t) \/ Proceed(t)
             PROVE  TypeOK'
  BY Zenon DEF Next
<1> USE DEF TypeOK, PCs, Waits, Goto
<1> HIDE DEF IInv
<1>0. TypeOK BY Zenon DEF IInv
<1>1. CASE try_lock(t) BY <1>0, <1>1, Zenon DEF try_lock
<1>2. CASE lock(t)
  <2>1. \A i \in 1..Len(queue) : queue[i] # t
    BY <1>2, Zenon DEF lock, IInv, QueueInv, Waiting
  <2>2. CASE status
    <3>1. Joins(t) BY <1>0, <1>2, <2>2, Appended, Zenon
    <3>2. pc' \in [Tasks -> PCs] /\ waker' \in [Tasks -> BOOLEAN] BY <1>0, <3>1, Zenon DEF Joins
    <3>3. queue' \in Seq(Tasks) /\ Len(queue) \in Nat /\ Len(queue') = Len(queue) + 1
      BY <3>1, Zenon DEF Joins, IsAppend
    <3>4. ASSUME NEW i \in 1..Len(queue'), NEW j \in 1..Len(queue'), queue'[i] = queue'[j]
          PROVE  i = j
      <4>1. queue'[Len(queue) + 1] = t /\ \A k \in 1..Len(queue) : queue'[k] = queue[k]
        BY <3>1, Zenon DEF Joins, IsAppend
      <4>2. CASE i \in 1..Len(queue) /\ j \in 1..Len(queue) BY <1>0, <3>4, <4>1, <4>2, Zenon
      <4>3. CASE i = Len(queue) + 1 /\ j \in 1..Len(queue) BY <2>1, <3>4, <4>1, <4>3, Zenon
      <4>4. CASE i \in 1..Len(queue) /\ j = Len(queue) + 1 BY <2>1, <3>4, <4>1, <4>4, Zenon
      <4> QED BY <3>3, <4>2, <4>3, <4>4
    <3> QED BY <1>0, <3>1, <3>2, <3>3, <3>4, Zenon DEF Joins
  <2>3. CASE ~status BY <1>0, <1>2, <2>3, Zenon DEF lock
  <2> QED BY <2>2, <2>3, Zenon
<1>3. CASE spurious_wake(t) BY <1>0, <1>3, Zenon DEF spurious_wake
<1>4. CASE poll(t) BY <1>0, <1>4, Zenon DEF poll
<1>5. CASE park(t) BY <1>0, <1>5, Zenon DEF park
<1>6. CASE drop_guard(t)
  <2>1. CASE queue = <<>> BY <1>0, <1>6, <2>1, Zenon DEF drop_guard
  <2>2. CASE queue # <<>>
    <3>1. Pops(t) BY <1>0, <1>6, <2>2, Popped, Zenon
    <3>2. pc' \in [Tasks -> PCs] /\ UNCHANGED <<status, granted, waker, notified>>
      BY <1>0, <3>1, Zenon DEF Pops
    <3>3. next' \in [Tasks -> Tasks] BY <1>0, <3>1, Zenon DEF Pops, IsPop
    <3>4. queue' \in Seq(Tasks) /\ \A i, j \in 1..Len(queue') : queue'[i] = queue'[j] => i = j
      BY <1>0, <3>1 DEF Pops, IsPop
    <3> QED BY <1>0, <3>2, <3>3, <3>4, Zenon
  <2> QED BY <2>1, <2>2, Zenon
<1>7. CASE take_waker(t) BY <1>0, <1>7, Zenon DEF take_waker
<1>8. CASE set_granted(t) BY <1>0, <1>8, Zenon DEF set_granted
<1>9. CASE wake(t)
  <2>1. pc' \in [Tasks -> PCs] BY <1>0, <1>9, Zenon DEF wake
  <2>2. notified' \in [Tasks -> BOOLEAN]
    BY <1>0, <1>9, (pc[next[t]] # "parked") \in BOOLEAN DEF wake
  <2> QED BY <1>0, <1>9, <2>1, <2>2 DEF wake
<1> QED BY <1>1, <1>2, <1>3, <1>4, <1>5, <1>6, <1>7, <1>8, <1>9, Zenon DEF Proceed

(* Every action preserves the description of the queued nodes. *)
LEMMA QueueStep == IInv /\ Next => QueueInv'
<1> SUFFICES ASSUME IInv, NEW t \in Tasks,
                    try_lock(t) \/ lock(t) \/ spurious_wake(t) \/ Proceed(t)
             PROVE  QueueInv'
  BY Zenon DEF Next
<1>0. TypeOK BY Zenon DEF IInv
<1> USE DEF IInv, TypeOK, QueueInv, Waiting, Handing, PCs, Waits, Goto
<1>1. CASE try_lock(t) BY <1>1 DEF try_lock
<1>2. CASE lock(t) 
  <2>1. \A s \in Tasks : Handing(s) => next[s] # t BY <1>2, Zenon DEF lock, NodeAlive
  <2>2. CASE status
    <3>1. Joins(t) BY <1>0, <1>2, <2>2, Appended, Zenon
    <3> SUFFICES ASSUME NEW i \in 1..Len(queue')
                 PROVE  /\ pc'[queue'[i]] \in Waits /\ ~granted'[queue'[i]]
                        /\ waker'[queue'[i]]
                        /\ \A s \in Tasks : Handing(s)' => next'[s] # queue'[i]
      BY Zenon
    <3>2. CASE i = Len(queue) + 1
      <4>1. queue'[i] = t BY <3>1, <3>2, Zenon DEF Joins, IsAppend
      <4>2. pc'[t] \in Waits /\ ~granted'[t] /\ waker'[t] BY <3>1 DEF Joins, OwnerInv
      <4>3. \A s \in Tasks : Handing(s)' => next'[s] # t BY <2>1, <3>1, Zenon DEF Joins
      <4> QED BY <4>1, <4>2, <4>3, Zenon
    <3>3. CASE i \in 1..Len(queue)
      <4>1. queue'[i] = queue[i] /\ queue[i] \in Tasks BY <3>1, <3>3 DEF Joins, IsAppend
      <4> QED BY <3>1, <3>3, <4>1 DEF Joins
    <3> QED BY <3>1, <3>2, <3>3 DEF Joins, IsAppend
  <2>3. CASE ~status BY <1>2, <2>1, <2>3 DEF lock, OwnerInv
  <2> QED BY <2>2, <2>3, Zenon
<1>3. CASE spurious_wake(t) BY <1>3 DEF spurious_wake
<1>4. CASE poll(t) BY <1>4 DEF poll
<1>5. CASE park(t) BY <1>5 DEF park
<1>6. CASE drop_guard(t)
  <2>1. CASE queue = <<>> BY <1>6, <2>1 DEF drop_guard
  <2>2. CASE queue # <<>>
    <3>1. Pops(t) BY <1>0, <1>6, <2>2, Popped, Zenon
    <3> SUFFICES ASSUME NEW i \in 1..Len(queue')
                 PROVE  /\ pc'[queue'[i]] \in Waits /\ ~granted'[queue'[i]]
                        /\ waker'[queue'[i]]
                        /\ \A s \in Tasks : Handing(s)' => next'[s] # queue'[i]
      BY Zenon
    <3>2. /\ i + 1 \in 1..Len(queue) /\ queue'[i] = queue[i + 1] /\ queue[i + 1] \in Tasks
          /\ queue[i + 1] # queue[1] /\ next'[t] = queue[1]
      BY <3>1 DEF Pops, IsPop
    <3> QED BY <3>1, <3>2 DEF Pops
  <2> QED BY <2>1, <2>2, Zenon
<1>7. CASE take_waker(t) BY <1>7 DEF take_waker
<1>8. CASE set_granted(t) BY <1>8 DEF set_granted
<1>9. CASE wake(t) BY <1>9 DEF wake
<1> QED BY <1>1, <1>2, <1>3, <1>4, <1>5, <1>6, <1>7, <1>8, <1>9, Zenon DEF Proceed

(* Every action keeps the node of an unfinished hand-over alive. *)
LEMMA NodeStep == IInv /\ Next => NodeAlive'
<1> SUFFICES ASSUME IInv, NEW t \in Tasks,
                    try_lock(t) \/ lock(t) \/ spurious_wake(t) \/ Proceed(t)
             PROVE  NodeAlive'
  BY Zenon DEF Next
<1>0. TypeOK BY Zenon DEF IInv
<1> USE DEF IInv, TypeOK, NodeAlive, Waiting, PCs, Waits, Goto
<1>1. CASE try_lock(t) BY <1>1, Zenon DEF try_lock
<1>2. CASE lock(t) BY <1>2 DEF lock
<1>3. CASE spurious_wake(t) BY <1>3, Zenon DEF spurious_wake
<1>4. CASE poll(t) BY <1>4 DEF poll
<1>5. CASE park(t) BY <1>5, Zenon DEF park
<1>6. CASE drop_guard(t)
  <2>1. CASE queue = <<>> BY <1>6, <2>1 DEF drop_guard
  <2>2. CASE queue # <<>>
    <3>1. Pops(t) BY <1>0, <1>6, <2>2, Popped, Zenon
    <3>2. queue[1] \in Tasks /\ pc[queue[1]] \in Waits /\ ~granted[queue[1]] /\ waker[queue[1]]
      BY <3>1 DEF Pops, IsPop, QueueInv
    <3>3. next'[t] = queue[1] /\ UNCHANGED <<granted, waker>> BY <3>1, Zenon DEF Pops, IsPop
    <3>4. \A s \in Tasks : pc'[s] = (IF s = t THEN "take" ELSE pc[s]) BY <3>1, Zenon DEF Pops
    <3>5. \A s \in Tasks \ {t} : next'[s] = next[s] BY <3>1 DEF Pops
    <3>6. pc[t] = "hold" BY <3>1, Zenon DEF Pops
    <3> QED BY <3>2, <3>3, <3>4, <3>5, <3>6
  <2> QED BY <2>1, <2>2, Zenon
<1>7. CASE take_waker(t) BY <1>7, Zenon DEF take_waker, OwnerInv, Handing
<1>8. CASE set_granted(t) BY <1>8, Zenon DEF set_granted, OwnerInv, Handing
<1>9. CASE wake(t) BY <1>9 DEF wake
<1> QED BY <1>1, <1>2, <1>3, <1>4, <1>5, <1>6, <1>7, <1>8, <1>9, Zenon DEF Proceed

(* Nobody but t holds the lock or is being given it. *)
Alone(t) ==
  \A s \in Tasks : ~Handing(s) /\ ~granted[s] /\ (pc[s] = "hold" => s = t)

(* A task that holds the guard is alone with the lock. *)
LEMMA HolderAlone == ASSUME IInv, NEW t \in Tasks, pc[t] = "hold" PROVE Alone(t)
<1>1. \A s \in Tasks : Owns(s) => s = t BY Zenon DEF IInv, OwnerInv, Owns
<1>2. ~granted[t] BY Zenon DEF IInv, OwnerInv, Waits
<1>3. \A s \in Tasks : Handing(s) => Owns(next[s]) /\ next[s] \in Tasks /\ next[s] # t
  BY Zenon DEF IInv, TypeOK, NodeAlive, Owns, Handing, Waiting, Waits
<1> QED BY <1>1, <1>2, <1>3, Zenon DEF Owns, Alone

(* Every action keeps one owner and a status that tells whether there is one. *)
LEMMA OwnerStep == IInv /\ Next => OwnerInv'
<1> SUFFICES ASSUME IInv, NEW t \in Tasks,
                    try_lock(t) \/ lock(t) \/ spurious_wake(t) \/ Proceed(t)
             PROVE  OwnerInv'
  BY Zenon DEF Next
<1>0. TypeOK BY Zenon DEF IInv
<1> USE DEF IInv, TypeOK, OwnerInv, Owns, Handing, Waiting, PCs, Waits, Goto
<1>1. CASE try_lock(t) BY <1>1 DEF try_lock
<1>2. CASE lock(t)
  <2>1. CASE status
    <3>1. Joins(t) BY <1>0, <1>2, <2>1, Appended, Zenon
    <3> QED BY <3>1 DEF Joins, IsAppend
  <2>2. CASE ~status BY <1>2, <2>2 DEF lock
  <2> QED BY <2>1, <2>2, Zenon
<1>3. CASE spurious_wake(t) BY <1>3 DEF spurious_wake
<1>4. CASE poll(t)
  <2>1. CASE granted[t]
    <3>1. \A s \in Tasks : Owns(s)' <=> Owns(s) BY <1>4, <2>1 DEF poll
    <3>2. \A s \in Tasks : Handing(s)' <=> Handing(s) BY <1>4, <2>1 DEF poll
    <3>3. \A s \in Tasks : granted'[s] => pc'[s] \in Waits BY <1>4, <2>1 DEF poll
    <3>4. UNCHANGED <<status, queue>> BY <1>4, Zenon DEF poll
    <3> HIDE DEF Owns, Handing
    <3> QED BY <3>1, <3>2, <3>3, <3>4, Zenon
  <2>2. CASE ~granted[t] BY <1>4, <2>2 DEF poll
  <2> QED BY <2>1, <2>2, Zenon
<1>5. CASE park(t) BY <1>5 DEF park
<1>6. CASE drop_guard(t)
  <2>0. Alone(t)
    <3>1. pc[t] = "hold" BY <1>6, Zenon DEF drop_guard
    <3> HIDE DEF IInv
    <3> QED BY <3>1, HolderAlone, Zenon
  <2>1. CASE queue = <<>>
    <3>1. /\ pc' = [pc EXCEPT ![t] = "out"] /\ ~status'
          /\ UNCHANGED <<queue, granted, next>>
      BY <1>6, <2>1, Zenon DEF drop_guard
    <3>2. \A s \in Tasks : ~Owns(s)' /\ ~Handing(s)' /\ ~granted'[s]
      <4> HIDE DEF IInv, OwnerInv
      <4> QED BY <1>0, <2>0, <3>1, Zenon DEF Alone
    <3> HIDE DEF Owns, Handing
    <3> QED BY <2>1, <3>1, <3>2, Zenon
  <2>2. CASE queue # <<>>
    <3>1. Pops(t) BY <1>0, <1>6, <2>2, Popped, Zenon
    <3>2. /\ pc' = [pc EXCEPT ![t] = "take"] /\ next' = [next EXCEPT ![t] = next'[t]]
          /\ next'[t] \in Tasks /\ UNCHANGED <<status, granted>>
      BY <3>1, Zenon DEF Pops, IsPop
    <3>3. status BY <2>2, Zenon
    <3>4. \A s \in Tasks : /\ Owns(s)' <=> s = next'[t]
                           /\ Handing(s)' <=> s = t
                           /\ ~granted'[s]
      <4> HIDE DEF IInv, OwnerInv
      <4> QED BY <1>0, <2>0, <3>2 DEF Alone
    <3> HIDE DEF Owns, Handing
    <3> QED BY <3>2, <3>3, <3>4
  <2> QED BY <2>1, <2>2, Zenon
<1>7. CASE take_waker(t) BY <1>7 DEF take_waker
<1>8. CASE set_granted(t) BY <1>8 DEF set_granted, NodeAlive
<1>9. CASE wake(t) BY <1>9 DEF wake
<1> QED BY <1>1, <1>2, <1>3, <1>4, <1>5, <1>6, <1>7, <1>8, <1>9, Zenon DEF Proceed

(* Every step, stuttering included, preserves the inductive invariant. *)
LEMMA NextIInv == IInv /\ [Next]_vars => IInv'
<1> SUFFICES ASSUME IInv, [Next]_vars PROVE IInv'
  BY Zenon
<1>1. CASE Next
  BY <1>1, TypeStep, QueueStep, NodeStep, OwnerStep, Zenon DEF IInv
<1>2. CASE UNCHANGED vars
  BY <1>2 DEF vars, IInv, TypeOK, QueueInv, NodeAlive, OwnerInv, Owns, Handing, Waiting
<1> QED BY <1>1, <1>2, Zenon

(* The inductive invariant holds in every reachable state. *)
LEMMA Invariance == Spec => []IInv
BY InitIInv, NextIInv, PTL DEF Spec

-----------------------------------------------------------------------------
(* At most one task ever holds the guard of a SleepMutex. *)
THEOREM OneHolder == Spec => []MutualExclusion
<1>1. IInv => MutualExclusion BY Zenon DEF IInv, OwnerInv, Owns, MutualExclusion
<1> QED BY <1>1, Invariance, PTL

(* A guard's Drop touches a popped node only while its future is alive. *)
THEOREM PoppedNodesAlive == Spec => []NodeAlive
<1>1. IInv => NodeAlive BY Zenon DEF IInv
<1> QED BY <1>1, Invariance, PTL

(* Both together, for any number of tasks: what the locks run checks for its
   three. *)
THEOREM SleepMutexIsSafe == Spec => []SleepMutexSafe
BY OneHolder, PoppedNodesAlive, PTL DEF SleepMutexSafe

-----------------------------------------------------------------------------
(* The refinement mapping's two sets. *)
Owner == {t \in Tasks : Owns(t)}
Inside == {t \in Tasks : pc[t] = "hold"}

(* A step that keeps the two sets and the queue is a stutter of FifoLock. *)
Stutters == UNCHANGED <<Owner, queue, Inside>>

(* Every step of SleepMutex is a step of FifoLock or a stutter. *)
LEMMA StepRefines == IInv /\ Next => Fifo!Next \/ Stutters
<1> SUFFICES ASSUME IInv, NEW t \in Tasks,
                    try_lock(t) \/ lock(t) \/ spurious_wake(t) \/ Proceed(t)
             PROVE  Fifo!Next \/ Stutters
  BY Zenon DEF Next
<1>0. TypeOK /\ OwnerInv BY Zenon DEF IInv
<1> USE <1>0 DEF TypeOK, PCs, Waits, Goto, Inside, Owner, Stutters
<1>1. CASE try_lock(t)
  <2>1. \A s \in Tasks : ~Owns(s) BY <1>1, Zenon DEF try_lock, OwnerInv
  <2>2. \A s \in Tasks : Owns(s)' <=> s = t BY <1>1, <2>1, Zenon DEF try_lock, Owns
  <2>3. Owner = {} /\ Owner' = {t} BY <2>1, <2>2, Zenon
  <2>4. Inside' = Inside \cup {t} /\ UNCHANGED queue BY <1>1, Zenon DEF try_lock
  <2>5. Fifo!Take(t) BY <2>3, <2>4, Zenon DEF Fifo!Take
  <2> QED BY <2>5, Zenon DEF Fifo!Next
<1>2. CASE lock(t)
  <2>1. CASE ~status
    <3>1. \A s \in Tasks : ~Owns(s) BY <2>1, Zenon DEF OwnerInv
    <3>2. \A s \in Tasks : Owns(s)' <=> s = t BY <1>2, <2>1, <3>1, Zenon DEF lock, Owns
    <3>3. Owner = {} /\ Owner' = {t} BY <3>1, <3>2, Zenon
    <3>4. UNCHANGED <<Inside, queue>> BY <1>2, <2>1, Zenon DEF lock
    <3>5. Fifo!Take(t) BY <3>3, <3>4, Zenon DEF Fifo!Take
    <3> QED BY <3>5, Zenon DEF Fifo!Next
  <2>2. CASE status
    <3>1. queue' = Append(queue, t) BY <1>2, <2>2, Zenon DEF lock
    <3>2. pc' = [pc EXCEPT ![t] = "poll"] /\ pc[t] = "out" /\ UNCHANGED <<granted, next>>
      BY <1>2, <2>2, Zenon DEF lock
    <3>3. ~Owns(t) BY <3>2, Zenon DEF IInv, OwnerInv, NodeAlive, Waiting, Owns
    <3>4. UNCHANGED <<Owner, Inside>> BY <3>2, Zenon DEF Owns
    <3>5. Owner # {} /\ t \notin Owner BY <2>2, <3>3, Zenon DEF OwnerInv
    <3>6. \A i \in 1..Len(queue) : queue[i] # t BY <3>2, Zenon DEF IInv, QueueInv, Waiting
    <3>7. Fifo!Queue(t) BY <3>1, <3>4, <3>5, <3>6, Zenon DEF Fifo!Queue
    <3> QED BY <3>7, Zenon DEF Fifo!Next
  <2> QED BY <2>1, <2>2, Zenon
<1>3. CASE spurious_wake(t) BY <1>3, Zenon DEF spurious_wake, Owns
<1>4. CASE poll(t)
  <2>1. CASE granted[t]
    <3>1. Owns(t) /\ Owns(t)' BY <1>4, <2>1, Zenon DEF poll, Owns
    <3>2. \A s \in Tasks : Owns(s)' <=> Owns(s) BY <1>4, <2>1 DEF poll, Owns
    <3>3. Owner = {t} /\ Owner' = Owner BY <3>1, <3>2 DEF OwnerInv
    <3>4. t \notin Inside /\ Inside' = Inside \cup {t} /\ UNCHANGED queue
      BY <1>4, <2>1 DEF poll
    <3>5. Fifo!Enter(t) BY <3>3, <3>4, Zenon DEF Fifo!Enter
    <3> QED BY <3>5, Zenon DEF Fifo!Next
  <2>2. CASE ~granted[t] BY <1>4, <2>2 DEF poll, Owns
  <2> QED BY <2>1, <2>2, Zenon
<1>5. CASE park(t) BY <1>5, Zenon DEF park, Owns
<1>6. CASE drop_guard(t)
  <2>1. Alone(t) /\ pc[t] = "hold" BY <1>6, HolderAlone, Zenon DEF drop_guard
  <2>2. Owner = {t} /\ t \in Inside BY <2>1, Zenon DEF Alone, Owns, Handing
  <2>3. CASE queue = <<>>
    <3>1. pc' = [pc EXCEPT ![t] = "out"] /\ UNCHANGED <<queue, granted, next>>
      BY <1>6, <2>3, Zenon DEF drop_guard
    <3>2. Owner' = {} /\ Inside' = Inside \ {t} BY <2>1, <3>1, Zenon DEF Alone, Owns, Handing
    <3>3. Fifo!Leave(t) BY <2>2, <2>3, <3>1, <3>2, Zenon DEF Fifo!Leave
    <3> QED BY <3>3, Zenon DEF Fifo!Next
  <2>4. CASE queue # <<>>
    <3>1. /\ pc' = [pc EXCEPT ![t] = "take"] /\ next' = [next EXCEPT ![t] = Head(queue)]
          /\ queue' = Tail(queue) /\ UNCHANGED granted
      BY <1>6, <2>4, Zenon DEF drop_guard
    <3>2. Head(queue) \in Tasks BY <2>4
    <3>3. Owner' = {Head(queue)} /\ Inside' = Inside \ {t}
      <4> DEFINE h == Head(queue)
      <4>1. next' = [next EXCEPT ![t] = h] /\ h \in Tasks BY <3>1, <3>2, Zenon
      <4> HIDE DEF h
      <4>2. Owner' = {h} /\ Inside' = Inside \ {t}
        BY <2>1, <3>1, <4>1 DEF Alone, Owns, Handing
      <4> QED BY <4>2, Zenon DEF h
    <3>4. Fifo!Leave(t) BY <2>2, <2>4, <3>1, <3>3, Zenon DEF Fifo!Leave
    <3> QED BY <3>4, Zenon DEF Fifo!Next
  <2> QED BY <2>3, <2>4, Zenon
<1>7. CASE take_waker(t) BY <1>7, Zenon DEF take_waker, Owns
<1>8. CASE set_granted(t)
  <2>1. \A s \in Tasks : Owns(s)' <=> Owns(s)
    BY <1>8 DEF set_granted, Owns, OwnerInv, Handing
  <2> QED BY <1>8, <2>1, Zenon DEF set_granted
<1>9. CASE wake(t)
  <2>1. \A s \in Tasks : Owns(s)' <=> Owns(s) BY <1>9, Zenon DEF wake, Owns
  <2> QED BY <1>9, <2>1, Zenon DEF wake
<1> QED BY <1>1, <1>2, <1>3, <1>4, <1>5, <1>6, <1>7, <1>8, <1>9, Zenon DEF Proceed

(* The hand-over in three unprotected writes implements a lock that passes its
   ownership on in one step and in order of arrival. *)
THEOREM RefinesFifoLock == Spec => Fifo!Spec
<1>1. Init => Fifo!Init
  BY Zenon DEF Init, Fifo!Init, Owns
<1>2. IInv /\ [Next]_vars => [Fifo!Next]_(Fifo!vars)
  <2> SUFFICES ASSUME IInv, [Next]_vars PROVE [Fifo!Next]_(Fifo!vars)
    BY Zenon
  <2>1. CASE Next BY <2>1, StepRefines, Zenon DEF Stutters, Owner, Inside, Fifo!vars
  <2>2. CASE UNCHANGED vars BY <2>2, Zenon DEF vars, Fifo!vars, Owns
  <2> QED BY <2>1, <2>2, Zenon
<1> QED BY <1>1, <1>2, Invariance, PTL DEF Spec, Fifo!Spec

(***************************************************************************)
(* The queued spin lock (QSpinLock), for every set of harts, by its three   *)
(* ways in.  The argument has two parts.  The queue exists only as links    *)
(* between nodes, some not made yet; the invariant says that there is a     *)
(* sequence of harts, without repetition, of which tail is the last, each   *)
(* of which waits behind the one before it, linked or about to link, and    *)
(* whose first is the only one that was told so.  And the bytes of the word *)
(* have one owner each; a hart that found them clear at the head of the     *)
(* queue is not overtaken, as tail keeps everyone else out.                 *)
(***************************************************************************)
CONSTANT Harts

VARIABLES locked, pending, tail, qnext, nlocked, qval, nxt, place  \* those of QSpinLock

QS == INSTANCE QSpinLock WITH next <- qnext, pc <- place

(* Nobody is no hart. *)
QConstants == QS!None \notin Harts

QPlaces == {"idle", "trans", "check", "unpend", "waitlocked", "take", "init",
            "tryload", "trycas", "swap", "link", "waitnode", "prefetch",
            "waitword", "cas", "setlocked", "waitnext", "pass", "held"}
HoldAt == {"held", "waitnext", "pass"}
PendAt == {"unpend", "waitlocked", "take"}
HeadAt == {"prefetch", "waitword", "cas", "setlocked", "waitnext", "pass"}
QueueAt == {"link", "waitnode"} \cup HeadAt

(* The bytes of the word and who they belong to. *)
WordInv ==
  /\ locked = 1 <=> \E h \in Harts : place[h] \in HoldAt
  /\ \A h, g \in Harts : (place[h] \in HoldAt /\ place[g] \in HoldAt) => h = g
  /\ pending = 1 <=> \E h \in Harts : place[h] \in PendAt
  /\ \A h, g \in Harts : (place[h] \in PendAt /\ place[g] \in PendAt) => h = g
  /\ \A h \in Harts : place[h] \in {"cas", "setlocked"} =>
       locked = 0 /\ \A g \in Harts : place[g] \notin {"waitlocked", "take"}
  /\ \A h \in Harts : place[h] = "take" => locked = 0
  /\ \A h \in Harts : place[h] = "cas" => qval[h] = QS!QVal(h, 0, 0)

(* A node that is about to be queued is as InitNode has left it. *)
FreshInv == \A h \in Harts : place[h] \in {"tryload", "trycas", "swap"} => qnext[h] = QS!None /\ nlocked[h] = 0

(* The first of the queue has been told so, and knows its successor once it  *)
(* hands over; any other waits behind the node before it, linked or not yet. *)
Front(h) ==
  /\ place[h] \in HeadAt \/ (place[h] = "waitnode" /\ nlocked[h] = 1)
  /\ place[h] = "pass" => nxt[h] = qnext[h] /\ nxt[h] # QS!None
  /\ place[h] \in {"waitword", "cas", "setlocked"} => nxt[h] \in {QS!None, qnext[h]}

Behind(p, h) ==
  /\ nlocked[h] = 0
  /\ \/ (place[h] = "link" /\ nxt[h] = p /\ qnext[p] = QS!None)
     \/ (place[h] = "waitnode" /\ qnext[p] = h)

(* q is the queue: the harts between the swap of the tail and the hand-over, *)
(* in the order of their swaps.                                              *)
Line(q) ==
  /\ q \in Seq(Harts)
  /\ \A i, j \in 1..Len(q) : q[i] = q[j] => i = j
  /\ \A h \in Harts : place[h] \in QueueAt <=> \E i \in 1..Len(q) : q[i] = h
  /\ tail = IF Len(q) = 0 THEN QS!None ELSE q[Len(q)]
  /\ Len(q) > 0 => Front(q[1]) /\ qnext[q[Len(q)]] = QS!None
  /\ \A i \in 1..Len(q) : i > 1 => Behind(q[i - 1], q[i])

QInv == QS!TypeOK /\ WordInv /\ FreshInv /\ \E q : Line(q)

-----------------------------------------------------------------------------
(* What the places of a hart say. *)
LEMMA QPlaceFacts ==
  /\ \A l \in {"idle", "trans", "check", "init", "tryload", "trycas", "swap"} :
       l \in QPlaces /\ l \notin HoldAt /\ l \notin PendAt /\ l \notin QueueAt
  /\ \A l \in {"unpend", "waitlocked", "take"} : l \in QPlaces /\ l \notin HoldAt /\ l \in PendAt /\ l \notin QueueAt
  /\ \A l \in {"link", "waitnode"} :
       l \in QPlaces /\ l \notin HoldAt /\ l \notin PendAt /\ l \in QueueAt /\ l \notin HeadAt
  /\ \A l \in {"prefetch", "waitword", "cas", "setlocked"} :
       l \in QPlaces /\ l \notin HoldAt /\ l \notin PendAt /\ l \in QueueAt /\ l \in HeadAt
  /\ \A l \in {"waitnext", "pass"} : l \in QPlaces /\ l \in HoldAt /\ l \notin PendAt /\ l \in QueueAt /\ l \in HeadAt
  /\ "held" \in QPlaces /\ "held" \in HoldAt /\ "held" \notin PendAt /\ "held" \notin QueueAt
  BY DEF QPlaces, HoldAt, PendAt, HeadAt, QueueAt

(* A step of a hart to another place. *)
LEMMA QGoto ==
  ASSUME QS!TypeOK, NEW h \in Harts, NEW l \in QPlaces, QS!Goto(h, l)
  PROVE  place' \in [Harts -> QPlaces] /\ place'[h] = l /\ \A g \in Harts : g # h => place'[g] = place[g]
  BY Zenon DEF QS!Goto, QS!TypeOK, QPlaces

(* The operations on the word. *)
LEMMA WordOps ==
  /\ \A t, p, l : QS!QVal(t, p, l).tail = t /\ QS!QVal(t, p, l).pending = p /\ QS!QVal(t, p, l).locked = l
  /\ QS!Masked(QS!word) <=> (tail # QS!None \/ pending # 0)
  /\ \A t, p, l : QS!word = QS!QVal(t, p, l) <=> (tail = t /\ pending = p /\ locked = l)
  BY DEF QS!QVal, QS!Masked, QS!word

LEMMA CasOps ==
  ASSUME NEW t, NEW p, NEW l, NEW o, o = QS!QVal(t, p, l), QS!Cas(o, QS!QVal(QS!None, 0, 1))
  PROVE  /\ tail = t /\ pending = p /\ locked = l
         /\ tail' = QS!None /\ pending' = 0 /\ locked' = 1
<1>1. QS!word = QS!QVal(t, p, l) /\ QS!Store(QS!QVal(QS!None, 0, 1).tail, QS!QVal(QS!None, 0, 1).pending, QS!QVal(QS!None, 0, 1).locked)
  BY Zenon DEF QS!Cas
<1>2. QS!QVal(QS!None, 0, 1).tail = QS!None /\ QS!QVal(QS!None, 0, 1).pending = 0 /\ QS!QVal(QS!None, 0, 1).locked = 1
  BY DEF QS!QVal
<1>3. tail' = QS!None /\ pending' = 0 /\ locked' = 1
  BY <1>1, <1>2, Zenon DEF QS!Store
<1>4. tail = t /\ pending = p /\ locked = l
  BY <1>1, WordOps, Zenon
<1> QED
  BY <1>3, <1>4

(* Who is in the queue, and who is its head. *)
LEMMA LineFacts ==
  ASSUME NEW q, Line(q), QConstants
  PROVE  /\ \A h \in Harts : place[h] \in QueueAt => tail \in Harts /\ tail # QS!None /\ Len(q) \in Nat /\ Len(q) > 0
         /\ \A h \in Harts : place[h] \in HeadAt => h = q[1] /\ Len(q) > 0
         /\ \A h \in Harts : (place[h] = "waitnode" /\ nlocked[h] = 1) => h = q[1] /\ Len(q) > 0
         /\ \A h \in Harts : h = tail => place[h] \in QueueAt
         /\ Len(q) \in Nat
<1>1. Len(q) \in Nat /\ \A i \in 1..Len(q) : q[i] \in Harts
  BY DEF Line
<1>2. ASSUME NEW h \in Harts, place[h] \in QueueAt PROVE tail \in Harts /\ tail # QS!None /\ Len(q) > 0
  <2>1. PICK i \in 1..Len(q) : q[i] = h
    BY <1>2, Zenon DEF Line
  <2>2. Len(q) > 0 /\ Len(q) # 0 /\ Len(q) \in 1..Len(q)
    BY <1>1, <2>1
  <2>3. tail = q[Len(q)]
    BY <2>2, Zenon DEF Line
  <2> QED
    BY <1>1, <2>2, <2>3, Zenon DEF QConstants
<1>3. ASSUME NEW h \in Harts, place[h] \in HeadAt \/ (place[h] = "waitnode" /\ nlocked[h] = 1)
      PROVE  h = q[1] /\ Len(q) > 0
  <2>1. place[h] \in QueueAt
    BY <1>3, Zenon DEF QueueAt
  <2>2. PICK i \in 1..Len(q) : q[i] = h
    BY <2>1, Zenon DEF Line
  <2>3. ~(i > 1)
    <3> SUFFICES ASSUME i > 1 PROVE FALSE
      OBVIOUS
    <3>1. nlocked[h] = 0 /\ place[h] \in {"link", "waitnode"}
      BY <2>2, Zenon DEF Line, Behind
    <3>2. place[h] \notin HeadAt /\ 0 # 1
      BY <3>1, QPlaceFacts
    <3> QED
      BY <1>3, <3>1, <3>2, Zenon
  <2>4. i = 1
    BY <1>1, <2>3
  <2> QED
    BY <1>2, <2>1, <2>2, <2>4, Zenon
<1>4. ASSUME NEW h \in Harts, h = tail PROVE place[h] \in QueueAt
  <2>1. Len(q) # 0
    BY <1>4, Zenon DEF Line, QConstants
  <2>2. Len(q) \in 1..Len(q)
    BY <1>1, <2>1
  <2>3. tail = q[Len(q)]
    BY <2>1, Zenon DEF Line
  <2> QED
    BY <1>4, <2>2, <2>3, Zenon DEF Line
<1> QED
  BY <1>1, <1>2, <1>3, <1>4, Zenon

-----------------------------------------------------------------------------
(* A hart outside the queue moves, and stays outside. *)
LEMMA LineKept ==
  ASSUME NEW q, Line(q), NEW h \in Harts, place[h] \notin QueueAt, place'[h] \notin QueueAt, tail' = tail,
         \A g \in Harts : g # h => place'[g] = place[g] /\ nxt'[g] = nxt[g] /\ qnext'[g] = qnext[g] /\ nlocked'[g] = nlocked[g]
  PROVE  Line(q)'
<1>0. Len(q) \in Nat /\ \A i \in 1..Len(q) : q[i] \in Harts /\ q[i] # h
  <2>1. Len(q) \in Nat /\ \A i \in 1..Len(q) : q[i] \in Harts
    BY DEF Line
  <2> QED
    BY <2>1, Zenon DEF Line
<1>1. \A i \in 1..Len(q) : /\ place'[q[i]] = place[q[i]] /\ nxt'[q[i]] = nxt[q[i]]
                           /\ qnext'[q[i]] = qnext[q[i]] /\ nlocked'[q[i]] = nlocked[q[i]]
  BY <1>0, Zenon
<1>2. \A g \in Harts : place'[g] \in QueueAt <=> \E i \in 1..Len(q) : q[i] = g
  BY Zenon DEF Line
<1>3. Len(q) > 0 => Front(q[1])' /\ qnext'[q[Len(q)]] = QS!None
  <2>1. Len(q) > 0 => 1 \in 1..Len(q) /\ Len(q) \in 1..Len(q)
    BY <1>0
  <2> QED
    BY <1>1, <2>1, Zenon DEF Line, Front
<1>4. \A i \in 1..Len(q) : i > 1 => Behind(q[i - 1], q[i])'
  <2>1. \A i \in 1..Len(q) : i > 1 => i - 1 \in 1..Len(q)
    BY <1>0
  <2>2. ASSUME NEW i \in 1..Len(q), i > 1 PROVE Behind(q[i - 1], q[i])'
    <3>1. PICK p, g : p = q[i - 1] /\ g = q[i]
      BY Zenon
    <3>2. Behind(p, g)
      BY <2>2, <3>1, Zenon DEF Line
    <3>3. place'[g] = place[g] /\ nxt'[g] = nxt[g] /\ nlocked'[g] = nlocked[g] /\ qnext'[p] = qnext[p]
      BY <1>1, <2>1, <2>2, <3>1, Zenon
    <3>4. Behind(p, g)'
      BY <3>2, <3>3, Zenon DEF Behind
    <3> QED
      BY <3>1, <3>4, Zenon DEF Behind
  <2> QED
    BY <2>2, Zenon
<1> QED
  BY <1>2, <1>3, <1>4, Zenon DEF Line

(* The head of the queue goes on. *)
LEMMA HeadMoves ==
  ASSUME NEW q, Line(q), QConstants, NEW h \in Harts, h = q[1], Len(q) > 0, place'[h] \in QueueAt, Front(h)',
         tail' = tail, qnext' = qnext, nlocked' = nlocked,
         \A g \in Harts : g # h => place'[g] = place[g] /\ nxt'[g] = nxt[g]
  PROVE  Line(q)'
<1>0. Len(q) \in Nat /\ 1 \in 1..Len(q) /\ \A i \in 1..Len(q) : q[i] \in Harts /\ (i # 1 => q[i] # h)
  <2>1. Len(q) \in Nat /\ 1 \in 1..Len(q) /\ \A i \in 1..Len(q) : q[i] \in Harts
    BY DEF Line
  <2> QED
    BY <2>1, Zenon DEF Line
<1>1. \A g \in Harts : place'[g] \in QueueAt <=> \E i \in 1..Len(q) : q[i] = g
  BY <1>0, Zenon DEF Line
<1>2. Front(q[1])' /\ qnext'[q[Len(q)]] = QS!None
  <2>1. qnext[q[Len(q)]] = QS!None
    BY Zenon DEF Line
  <2> QED
    BY <2>1, Zenon DEF Front
<1>3. ASSUME NEW i \in 1..Len(q), i > 1 PROVE Behind(q[i - 1], q[i])'
  <2>1. PICK p, g : p = q[i - 1] /\ g = q[i]
    BY Zenon
  <2>2. Behind(p, g)
    BY <1>3, <2>1, Zenon DEF Line
  <2>3. i # 1
    BY <1>3
  <2>4. place'[g] = place[g] /\ nxt'[g] = nxt[g]
    BY <1>0, <2>1, <2>3, Zenon
  <2>5. Behind(p, g)'
    BY <2>2, <2>4, Zenon DEF Behind
  <2> QED
    BY <2>1, <2>5, Zenon DEF Behind
<1> QED
  BY <1>1, <1>2, <1>3, Zenon DEF Line

(* A hart joins at the tail. *)
LEMMA LineJoin ==
  ASSUME NEW q, Line(q), QConstants, QS!TypeOK, FreshInv, NEW h \in Harts, QS!SwapTail(h)
  PROVE  \E r : Line(r)'
<1>0. place[h] = "swap" /\ tail' = h /\ qnext' = qnext /\ nlocked' = nlocked /\ nxt'[h] = tail
      /\ (\A g \in Harts : g # h => nxt'[g] = nxt[g])
  BY Zenon DEF QS!SwapTail, QS!TypeOK
<1>1. PICK l : l = IF tail = QS!None THEN "waitword" ELSE "link"
  BY Zenon
<1>2. l \in QPlaces /\ l \in QueueAt /\ place[h] \notin QueueAt
  BY <1>0, <1>1, QPlaceFacts, Zenon
<1>3. place'[h] = l /\ \A g \in Harts : g # h => place'[g] = place[g]
  BY <1>1, <1>2, QGoto, Zenon DEF QS!SwapTail
<1>4. qnext[h] = QS!None /\ nlocked[h] = 0
  BY <1>0, Zenon DEF FreshInv
<1>5. PICK r : r = Append(q, h)
  BY Zenon
<1>6. /\ q \in Seq(Harts) /\ Len(q) \in Nat /\ r \in Seq(Harts) /\ Len(r) = Len(q) + 1
      /\ \A i \in 1..Len(q) : i \in 1..Len(r) /\ r[i] = q[i] /\ q[i] \in Harts /\ i # Len(r)
      /\ r[Len(r)] = h /\ Len(r) # 0 /\ Len(r) \in 1..Len(r)
      /\ \A i \in 1..Len(r) : i \in 1..Len(q) \/ i = Len(r)
  BY <1>5 DEF Line
<1>7. \A i \in 1..Len(q) : q[i] # h
  BY <1>2, Zenon DEF Line
<1>8. \A i, j \in 1..Len(r) : r[i] = r[j] => i = j
  <2>1. \A i, j \in 1..Len(q) : q[i] = q[j] => i = j
    BY Zenon DEF Line
  <2> QED
    BY <1>6, <1>7, <2>1, Zenon
<1>9. \A g \in Harts : place'[g] \in QueueAt <=> \E i \in 1..Len(r) : r[i] = g
  <2>1. ASSUME NEW g \in Harts, g = h PROVE place'[g] \in QueueAt /\ \E i \in 1..Len(r) : r[i] = g
    BY <1>2, <1>3, <1>6, <2>1, Zenon
  <2>2. ASSUME NEW g \in Harts, g # h PROVE place'[g] \in QueueAt <=> \E i \in 1..Len(r) : r[i] = g
    <3>1. place'[g] \in QueueAt <=> \E i \in 1..Len(q) : q[i] = g
      BY <1>3, <2>2, Zenon DEF Line
    <3>2. (\E i \in 1..Len(q) : q[i] = g) <=> \E i \in 1..Len(r) : r[i] = g
      BY <1>6, <2>2, Zenon
    <3> QED
      BY <3>1, <3>2, Zenon
  <2> QED
    BY <2>1, <2>2, Zenon
<1>10. Front(r[1])'
  <2>1. CASE Len(q) = 0
    <3>1. tail = QS!None /\ r[1] = h
      BY <1>6, <2>1 DEF Line
    <3>2. place'[h] = "waitword" /\ nxt'[h] = QS!None
      BY <1>0, <1>1, <1>3, <3>1, Zenon
    <3>3. Front(h)'
      BY <3>2 DEF Front, HeadAt
    <3> QED
      BY <3>1, <3>3, Zenon DEF Front
  <2>2. CASE Len(q) # 0
    <3>1. 1 \in 1..Len(q) /\ Len(q) > 0
      BY <1>6, <2>2
    <3>2. r[1] = q[1] /\ q[1] # h /\ q[1] \in Harts /\ Front(q[1])
      BY <1>6, <1>7, <3>1, Zenon DEF Line
    <3>3. place'[q[1]] = place[q[1]] /\ nxt'[q[1]] = nxt[q[1]]
      BY <1>0, <1>3, <3>2, Zenon
    <3>4. Front(q[1])'
      BY <1>0, <3>2, <3>3, Zenon DEF Front
    <3> QED
      BY <3>2, <3>4, Zenon DEF Front
  <2> QED
    BY <2>1, <2>2, Zenon
<1>11. ASSUME NEW i \in 1..Len(r), i > 1 PROVE Behind(r[i - 1], r[i])'
  <2>1. CASE i \in 1..Len(q)
    <3>1. i - 1 \in 1..Len(q)
      BY <1>6, <1>11, <2>1
    <3>2. PICK p, g : p = q[i - 1] /\ g = q[i]
      BY Zenon
    <3>3. r[i - 1] = p /\ r[i] = g /\ g \in Harts /\ g # h
      BY <1>6, <1>7, <2>1, <3>1, <3>2, Zenon
    <3>4. Behind(p, g)
      BY <1>11, <2>1, <3>2, Zenon DEF Line
    <3>5. Behind(p, g)'
      BY <1>0, <1>3, <3>3, <3>4, Zenon DEF Behind
    <3> QED
      BY <3>3, <3>5, Zenon DEF Behind
  <2>2. CASE i = Len(r)
    <3>1. i - 1 = Len(q) /\ Len(q) \in 1..Len(q) /\ Len(q) # 0 /\ Len(q) > 0
      BY <1>6, <1>11, <2>2
    <3>2. r[i] = h /\ r[i - 1] = tail /\ tail \in Harts /\ qnext[tail] = QS!None
      BY <1>6, <2>2, <3>1, Zenon DEF Line
    <3>3. tail # QS!None
      BY <3>2, Zenon DEF QConstants
    <3>4. place'[h] = "link"
      BY <1>1, <1>3, <3>3, Zenon
    <3>5. nlocked'[h] = 0 /\ nxt'[h] = r[i - 1] /\ qnext'[r[i - 1]] = QS!None
      BY <1>0, <1>4, <3>2, Zenon
    <3>6. PICK p : p = r[i - 1]
      BY Zenon
    <3>7. Behind(p, h)'
      BY <3>4, <3>5, <3>6, Zenon DEF Behind
    <3> QED
      BY <3>2, <3>6, <3>7, Zenon DEF Behind
  <2> QED
    BY <1>6, <2>1, <2>2, Zenon
<1>12. Line(r)'
  <2>1. qnext'[r[Len(r)]] = QS!None /\ tail' = r[Len(r)]
    BY <1>0, <1>4, <1>6, Zenon
  <2> QED
    BY <1>6, <1>8, <1>9, <1>10, <1>11, <2>1, Zenon DEF Line
<1> QED
  BY <1>12, Zenon

(* A hart of the queue links its node behind its predecessor's. *)
LEMMA LineLink ==
  ASSUME NEW q, Line(q), QConstants, QS!TypeOK, NEW h \in Harts, QS!LinkPrev(h)
  PROVE  /\ Line(q)'
         /\ place[nxt[h]] \in QueueAt /\ nxt[h] \in Harts /\ qnext[nxt[h]] = QS!None
<1>0. place[h] = "link" /\ tail' = tail /\ nlocked' = nlocked /\ nxt'[h] = QS!None
      /\ (\A g \in Harts : g # h => nxt'[g] = nxt[g])
  BY Zenon DEF QS!LinkPrev, QS!TypeOK
<1>1. place[h] \in QueueAt /\ place[h] \notin HeadAt /\ place[h] # "waitnode" /\ "waitnode" \in QPlaces /\ "waitnode" \in QueueAt
  BY <1>0, QPlaceFacts
<1>2. place'[h] = "waitnode" /\ \A g \in Harts : g # h => place'[g] = place[g]
  BY <1>1, QGoto, Zenon DEF QS!LinkPrev
<1>3. /\ Len(q) \in Nat /\ \A i \in 1..Len(q) : q[i] \in Harts
      /\ \A i \in 1..Len(q) : i > 1 => i - 1 \in 1..Len(q) /\ i # 1
  BY DEF Line
<1>4. PICK k \in 1..Len(q) : q[k] = h
  BY <1>1, Zenon DEF Line
<1>5. k > 1
  <2>1. k = 1 => Len(q) > 0
    BY <1>3
  <2>2. k # 1
    BY <1>1, <1>4, <2>1, Zenon DEF Line, Front
  <2> QED
    BY <1>3, <2>2
<1>6. PICK p : p = q[k - 1]
  BY Zenon
<1>7. p \in Harts /\ nlocked[h] = 0 /\ nxt[h] = p /\ qnext[p] = QS!None /\ place[p] \in QueueAt
  <2>1. Behind(p, h)
    BY <1>4, <1>5, <1>6, Zenon DEF Line
  <2>2. p \in Harts
    BY <1>3, <1>5, <1>6, Zenon
  <2>3. place[p] \in QueueAt
    BY <1>3, <1>5, <1>6, <2>2, Zenon DEF Line
  <2> QED
    BY <1>1, <2>1, <2>2, <2>3, Zenon DEF Behind
<1>8. qnext'[p] = h /\ \A g \in Harts : g # p => qnext'[g] = qnext[g]
  BY <1>7, Zenon DEF QS!LinkPrev, QS!TypeOK
<1>9. \A g \in Harts : place'[g] \in QueueAt <=> \E i \in 1..Len(q) : q[i] = g
  <2>1. \A g \in Harts : place[g] \in QueueAt <=> \E i \in 1..Len(q) : q[i] = g
    BY Zenon DEF Line
  <2>2. \A g \in Harts : place'[g] \in QueueAt <=> place[g] \in QueueAt
    BY <1>1, <1>2, Zenon
  <2> QED
    BY <2>1, <2>2, Zenon
<1>10. Len(q) > 0 => Front(q[1])' /\ qnext'[q[Len(q)]] = QS!None
  <2> SUFFICES ASSUME Len(q) > 0 PROVE Front(q[1])' /\ qnext'[q[Len(q)]] = QS!None
    OBVIOUS
  <2>1. 1 \in 1..Len(q) /\ Len(q) \in 1..Len(q) /\ k # 1 /\ k - 1 \in 1..Len(q) /\ k - 1 # Len(q)
    BY <1>3, <1>5
  <2>2. PICK f : f = q[1]
    BY Zenon
  <2>3. Front(f) /\ f \in Harts /\ f # h
    BY <1>3, <1>4, <2>1, <2>2, Zenon DEF Line
  <2>4. place'[f] = place[f] /\ nxt'[f] = nxt[f]
    BY <1>0, <1>2, <2>3, Zenon
  <2>5. CASE f = p
    <3>1. qnext[f] = QS!None
      BY <1>7, <2>5, Zenon
    <3>2. Front(f)'
      BY <1>0, <2>3, <2>4, <3>1, Zenon DEF Front
    <3> QED
      BY <2>1, <2>2, <3>2, <1>3, <1>6, <1>8, Zenon DEF Line, Front
  <2>6. CASE f # p
    <3>1. Front(f)'
      BY <1>0, <1>8, <2>3, <2>4, <2>6, Zenon DEF Front
    <3> QED
      BY <2>1, <2>2, <3>1, <1>3, <1>6, <1>8, Zenon DEF Line, Front
  <2> QED
    BY <2>5, <2>6, Zenon
<1>11. ASSUME NEW i \in 1..Len(q), i > 1 PROVE Behind(q[i - 1], q[i])'
  <2>1. CASE i = k
    <3>1. Behind(p, h)'
      BY <1>0, <1>2, <1>7, <1>8, Zenon DEF Behind
    <3> QED
      BY <1>4, <1>6, <2>1, <3>1, Zenon DEF Behind
  <2>2. CASE i # k
    <3>1. i - 1 \in 1..Len(q) /\ k - 1 \in 1..Len(q) /\ i - 1 # k - 1
      BY <1>3, <1>5, <1>11, <2>2
    <3>2. PICK r, g : r = q[i - 1] /\ g = q[i]
      BY Zenon
    <3>3. r \in Harts /\ r # p /\ g \in Harts /\ g # h
      BY <1>3, <1>4, <1>6, <2>2, <3>1, <3>2, Zenon DEF Line
    <3>4. Behind(r, g)
      BY <1>11, <3>2, Zenon DEF Line
    <3>5. Behind(r, g)'
      BY <1>0, <1>2, <1>8, <3>3, <3>4, Zenon DEF Behind
    <3> QED
      BY <3>2, <3>5, Zenon DEF Behind
  <2> QED
    BY <2>1, <2>2, Zenon
<1> QED
  BY <1>0, <1>7, <1>9, <1>10, <1>11, Zenon DEF Line

(* The head hands over to the next of the queue. *)
LEMMA LinePass ==
  ASSUME NEW q, Line(q), QConstants, QS!TypeOK, NEW h \in Harts, QS!PassHead(h)
  PROVE  /\ \E r : Line(r)'
         /\ nxt[h] \in Harts /\ place[nxt[h]] = "waitnode" /\ nlocked[nxt[h]] = 0
<1>0. place[h] = "pass" /\ tail' = tail /\ qnext' = qnext /\ nxt' = nxt
  BY Zenon DEF QS!PassHead
<1>1. place[h] \in HeadAt /\ "held" \in QPlaces /\ "held" \notin QueueAt
  BY <1>0, QPlaceFacts
<1>2. place'[h] = "held" /\ \A g \in Harts : g # h => place'[g] = place[g]
  BY <1>1, QGoto, Zenon DEF QS!PassHead
<1>3. h = q[1] /\ Len(q) > 0 /\ Len(q) \in Nat
  BY <1>1, LineFacts, Zenon
<1>4. nxt[h] = qnext[h] /\ nxt[h] # QS!None
  BY <1>0, <1>3, Zenon DEF Line, Front
<1>5. Len(q) # 1
  BY <1>3, <1>4, Zenon DEF Line
<1>6. PICK r : r = Tail(q)
  BY Zenon
<1>7. /\ r \in Seq(Harts) /\ Len(r) \in Nat /\ Len(r) = Len(q) - 1 /\ Len(r) > 0 /\ Len(r) # 0
      /\ \A i \in 1..Len(r) : r[i] = q[i + 1] /\ i + 1 \in 1..Len(q) /\ r[i] \in Harts /\ i + 1 # 1
      /\ \A i \in 1..Len(q) : i = 1 \/ (i - 1 \in 1..Len(r) /\ r[i - 1] = q[i])
  <2>1. q \in Seq(Harts) /\ q # <<>>
    BY <1>3 DEF Line
  <2>2. /\ r \in Seq(Harts) /\ Len(r) = Len(q) - 1
        /\ \A i \in 1..Len(r) : r[i] = q[i + 1]
    BY <1>3, <1>6, <2>1
  <2>3. Len(r) \in Nat /\ Len(r) > 0 /\ Len(r) # 0
    BY <1>3, <1>5, <2>2
  <2>4. \A i \in 1..Len(r) : i + 1 \in 1..Len(q) /\ r[i] \in Harts /\ i + 1 # 1
    BY <1>3, <2>2, <2>3
  <2>5. \A i \in 1..Len(q) : i = 1 \/ (i - 1 \in 1..Len(r) /\ (i - 1) + 1 = i)
    BY <1>3, <2>2
  <2> QED
    BY <2>2, <2>3, <2>4, <2>5, Zenon
<1>20. /\ 1 \in 1..Len(q) /\ 2 \in 1..Len(q) /\ 2 > 1 /\ 2 - 1 = 1 /\ 1 \in 1..Len(r) /\ 1 + 1 = 2
       /\ Len(r) + 1 = Len(q) /\ Len(q) # 0 /\ Len(r) \in 1..Len(r) /\ Len(q) \in 1..Len(q)
  BY <1>3, <1>7
<1>21. r[1] = q[2] /\ r[Len(r)] = q[Len(q)] /\ q[2] \in Harts
  <2>1. r[1] = q[1 + 1] /\ r[Len(r)] = q[Len(r) + 1] /\ r[1] \in Harts
    BY <1>7, <1>20, Zenon
  <2> QED
    BY <1>20, <2>1, Zenon
<1>8. PICK s : s = q[2]
  BY Zenon
<1>9. s \in Harts /\ nxt[h] = s /\ place[s] = "waitnode" /\ nlocked[s] = 0 /\ s # h
  <2>1. Behind(h, s)
    BY <1>3, <1>8, <1>20, Zenon DEF Line
  <2>2. place[s] = "waitnode" /\ nlocked[s] = 0 /\ qnext[h] = s
    BY <1>4, <2>1, Zenon DEF Behind
  <2>3. s \in Harts
    BY <1>8, <1>21, Zenon
  <2>4. s # h
    BY <1>0, <2>2
  <2> QED
    BY <1>4, <2>2, <2>3, <2>4, Zenon
<1>10. nlocked'[s] = 1 /\ \A g \in Harts : g # s => nlocked'[g] = nlocked[g]
  BY <1>9, Zenon DEF QS!PassHead, QS!TypeOK
<1>22. \A i, j \in 1..Len(q) : q[i] = q[j] => i = j
  BY Zenon DEF Line
<1>11. ASSUME NEW i \in 1..Len(r) PROVE r[i] # h
  BY <1>3, <1>7, <1>20, <1>22, Zenon
<1>12. ASSUME NEW i \in 1..Len(r), NEW j \in 1..Len(r), r[i] = r[j] PROVE i = j
  <2>0. i + 1 \in 1..Len(q) /\ j + 1 \in 1..Len(q) /\ q[i + 1] = r[i] /\ q[j + 1] = r[j]
    BY <1>7, Zenon
  <2>1. i + 1 = j + 1
    BY <1>12, <1>22, <2>0, Zenon
  <2> QED
    BY <1>7, <2>1
<1>13. \A g \in Harts : place'[g] \in QueueAt <=> \E i \in 1..Len(r) : r[i] = g
  <2>1. ASSUME NEW g \in Harts, g = h PROVE place'[g] \notin QueueAt /\ ~\E i \in 1..Len(r) : r[i] = g
    BY <1>1, <1>2, <1>11, <2>1, Zenon
  <2>2. ASSUME NEW g \in Harts, g # h PROVE place'[g] \in QueueAt <=> \E i \in 1..Len(r) : r[i] = g
    <3>1. place'[g] \in QueueAt <=> \E i \in 1..Len(q) : q[i] = g
      BY <1>2, <2>2, Zenon DEF Line
    <3>2. ASSUME NEW i \in 1..Len(q), q[i] = g PROVE \E j \in 1..Len(r) : r[j] = g
      <4>1. i # 1
        BY <1>3, <2>2, <3>2, Zenon
      <4> QED
        BY <1>7, <3>2, <4>1, Zenon
    <3>3. ASSUME NEW i \in 1..Len(r), r[i] = g PROVE \E j \in 1..Len(q) : q[j] = g
      <4>1. i + 1 \in 1..Len(q) /\ q[i + 1] = g
        BY <1>7, <3>3, Zenon
      <4> QED
        BY <4>1, Zenon
    <3> QED
      BY <3>1, <3>2, <3>3, Zenon
  <2> QED
    BY <2>1, <2>2, Zenon
<1>14. Front(r[1])' /\ qnext'[r[Len(r)]] = QS!None /\ tail' = r[Len(r)]
  <2>1. place'[s] = "waitnode" /\ nlocked'[s] = 1
    BY <1>2, <1>9, <1>10, Zenon
  <2>2. Front(s)'
    BY <2>1 DEF Front
  <2>3. r[1] = s
    BY <1>8, <1>21, Zenon
  <2> QED
    BY <1>0, <1>3, <1>20, <1>21, <2>2, <2>3, Zenon DEF Line, Front
<1>15. ASSUME NEW i \in 1..Len(r), i > 1 PROVE Behind(r[i - 1], r[i])'
  <2>1. i - 1 \in 1..Len(r) /\ (i - 1) + 1 = i /\ i + 1 > 1 /\ (i + 1) - 1 = i /\ i + 1 \in 1..Len(q) /\ i + 1 # 2
    BY <1>7, <1>15
  <2>2. PICK p, g : p = q[i] /\ g = q[i + 1]
    BY Zenon
  <2>3. r[i - 1] = p /\ r[i] = g
    <3>1. r[i - 1] = q[(i - 1) + 1] /\ r[i] = q[i + 1]
      BY <1>7, <2>1, Zenon
    <3> QED
      BY <2>1, <2>2, <3>1, Zenon
  <2>4. Behind(p, g)
    BY <2>1, <2>2, Zenon DEF Line
  <2>5. g \in Harts /\ g # h /\ g # s
    <3>1. g \in Harts /\ g # h
      BY <1>7, <1>11, <2>3, Zenon
    <3>2. g # s
      BY <1>8, <1>20, <1>22, <2>1, <2>2, Zenon
    <3> QED
      BY <3>1, <3>2
  <2>6. Behind(p, g)'
    BY <1>0, <1>2, <1>10, <2>4, <2>5, Zenon DEF Behind
  <2> QED
    BY <2>3, <2>6, Zenon DEF Behind
<1>16. Line(r)'
  BY <1>7, <1>12, <1>13, <1>14, <1>15, Zenon DEF Line
<1> QED
  BY <1>9, <1>16, Zenon

(* The last hart leaves an empty queue. *)
LEMMA LineEmpty ==
  ASSUME NEW q, Line(q), QConstants, NEW h \in Harts, place[h] \in HeadAt, tail = h, place'[h] \notin QueueAt,
         tail' = QS!None, \A g \in Harts : g # h => place'[g] = place[g]
  PROVE  Line(<<>>)'
<1>1. h = q[1] /\ Len(q) > 0 /\ Len(q) \in Nat
  BY LineFacts, Zenon
<1>2. 1 \in 1..Len(q) /\ Len(q) \in 1..Len(q) /\ Len(q) # 0
  BY <1>1
<1>3. q[Len(q)] = h
  BY <1>2, Zenon DEF Line
<1>4. Len(q) = 1
  <2>1. \A i, j \in 1..Len(q) : q[i] = q[j] => i = j
    BY Zenon DEF Line
  <2> QED
    BY <1>1, <1>2, <1>3, <2>1, Zenon
<1>5. \A i \in 1..Len(q) : i = 1
  BY <1>4
<1>6. \A g \in Harts : place'[g] \notin QueueAt
  BY <1>1, <1>5, Zenon DEF Line
<1>7. <<>> \in Seq(Harts) /\ Len(<<>>) = 0 /\ ~(Len(<<>>) > 0) /\ \A i : i \notin 1..Len(<<>>)
  OBVIOUS
<1> QED
  BY <1>6, <1>7, Zenon DEF Line

-----------------------------------------------------------------------------
(* The word stays as it is and no hart comes to own a byte. *)
LEMMA WordNeutral ==
  ASSUME QS!TypeOK, WordInv, NEW h \in Harts, NEW l \in QPlaces, QS!Goto(h, l), locked' = locked, pending' = pending,
         l \in HoldAt <=> place[h] \in HoldAt, l \in PendAt <=> place[h] \in PendAt,
         l \in {"cas", "setlocked"} => place[h] \in {"cas", "setlocked"},
         l \in {"waitlocked", "take"} => place[h] \in {"waitlocked", "take"},
         l = "take" => locked = 0, l # "cas", \A g \in Harts : g # h => qval'[g] = qval[g]
  PROVE  WordInv'
<1>1. place'[h] = l /\ \A g \in Harts : g # h => place'[g] = place[g]
  BY QGoto, Zenon
<1>2. \A g \in Harts : (place'[g] \in HoldAt <=> place[g] \in HoldAt) /\ (place'[g] \in PendAt <=> place[g] \in PendAt)
  BY <1>1, Zenon
<1>3. \A g \in Harts : /\ place'[g] \in {"cas", "setlocked"} => place[g] \in {"cas", "setlocked"}
                       /\ place'[g] \in {"waitlocked", "take"} => place[g] \in {"waitlocked", "take"}
  BY <1>1, Zenon
<1>4. \A g \in Harts : place'[g] = "take" => locked' = 0
  BY <1>1, Zenon DEF WordInv
<1>5. \A g \in Harts : place'[g] = "cas" => qval'[g] = QS!QVal(g, 0, 0)
  BY <1>1, Zenon DEF WordInv
<1>6. locked' = 1 <=> \E g \in Harts : place'[g] \in HoldAt
  BY <1>2, Zenon DEF WordInv
<1>7. pending' = 1 <=> \E g \in Harts : place'[g] \in PendAt
  BY <1>2, Zenon DEF WordInv
<1>8. /\ \A k, g \in Harts : (place'[k] \in HoldAt /\ place'[g] \in HoldAt) => k = g
      /\ \A k, g \in Harts : (place'[k] \in PendAt /\ place'[g] \in PendAt) => k = g
  BY <1>2, Zenon DEF WordInv
<1>9. \A k \in Harts : place'[k] \in {"cas", "setlocked"} =>
        locked' = 0 /\ \A g \in Harts : place'[g] \notin {"waitlocked", "take"}
  BY <1>3, Zenon DEF WordInv
<1> QED
  BY <1>4, <1>5, <1>6, <1>7, <1>8, <1>9, Zenon DEF WordInv, QS!QVal

(* A hart takes the lock while nobody else is about to. *)
LEMMA WordAcquire ==
  ASSUME QS!TypeOK, WordInv, NEW h \in Harts, NEW l \in HoldAt, l \in QPlaces, l \notin PendAt, QS!Goto(h, l),
         l \notin {"cas", "setlocked", "waitlocked", "take"}, locked = 0, locked' = 1, qval' = qval,
         (pending' = pending /\ place[h] \notin PendAt) \/ (pending' = 0 /\ place[h] \in PendAt),
         \A g \in Harts : g # h => place[g] \notin {"cas", "setlocked", "take"}
  PROVE  WordInv'
<1>1. place'[h] = l /\ \A g \in Harts : g # h => place'[g] = place[g]
  BY QGoto, Zenon
<1>2. locked # 1 /\ 0 # 1
  OBVIOUS
<1>3. \A g \in Harts : place'[g] \in HoldAt <=> g = h
  BY <1>1, <1>2, Zenon DEF WordInv
<1>4. \A g \in Harts : place'[g] \notin {"cas", "setlocked", "take"}
  BY <1>1, Zenon
<1>5. \A g \in Harts : place'[g] \in PendAt <=> (place[g] \in PendAt /\ g # h)
  BY <1>1, Zenon
<1>6. pending' = 1 <=> \E g \in Harts : place'[g] \in PendAt
  BY <1>2, <1>5, Zenon DEF WordInv
<1>7. /\ \A k, g \in Harts : (place'[k] \in HoldAt /\ place'[g] \in HoldAt) => k = g
      /\ \A k, g \in Harts : (place'[k] \in PendAt /\ place'[g] \in PendAt) => k = g
      /\ locked' = 1 <=> \E g \in Harts : place'[g] \in HoldAt
  BY <1>3, <1>5, Zenon DEF WordInv
<1> QED
  BY <1>4, <1>6, <1>7, Zenon DEF WordInv

(* The holder gives the lock up. *)
LEMMA WordRelease ==
  ASSUME QS!TypeOK, WordInv, NEW h \in Harts, QS!Unlock(h)
  PROVE  WordInv'
<1>0. place[h] = "held" /\ locked' = 0 /\ pending' = pending /\ \A g \in Harts : g # h => qval'[g] = qval[g]
  BY Zenon DEF QS!Unlock, QS!TypeOK
<1>1. "held" \in HoldAt /\ "held" \notin PendAt /\ "idle" \in QPlaces /\ "idle" \notin HoldAt /\ "idle" \notin PendAt
  BY QPlaceFacts
<1>2. place'[h] = "idle" /\ \A g \in Harts : g # h => place'[g] = place[g]
  BY <1>1, QGoto, Zenon DEF QS!Unlock
<1>3. \A g \in Harts : place'[g] \notin HoldAt
  <2>1. \A g \in Harts : place[g] \in HoldAt => g = h
    BY <1>0, <1>1, Zenon DEF WordInv
  <2> QED
    BY <1>1, <1>2, <2>1, Zenon
<1>4. \A g \in Harts : place'[g] \in PendAt <=> place[g] \in PendAt
  BY <1>0, <1>1, <1>2, Zenon
<1>5. \A g \in Harts : place'[g] \notin {"cas", "setlocked"}
  <2>1. locked # 0
    <3>1. locked = 1
      BY <1>0, <1>1, Zenon DEF WordInv
    <3> QED
      BY <3>1
  <2>2. \A g \in Harts : place[g] \notin {"cas", "setlocked"}
    BY <2>1, Zenon DEF WordInv
  <2>3. "idle" \notin {"cas", "setlocked"}
    OBVIOUS
  <2> QED
    BY <1>2, <2>2, <2>3, Zenon
<1>6. pending' = 1 <=> \E g \in Harts : place'[g] \in PendAt
  BY <1>0, <1>4, Zenon DEF WordInv
<1>7. \A k, g \in Harts : (place'[k] \in PendAt /\ place'[g] \in PendAt) => k = g
  BY <1>4, Zenon DEF WordInv
<1>8. locked' # 1
  BY <1>0
<1> QED
  BY <1>0, <1>3, <1>5, <1>6, <1>7, <1>8, Zenon DEF WordInv

(* A hart sets the pending bit, which was clear. *)
LEMMA WordPend ==
  ASSUME QS!TypeOK, WordInv, NEW h \in Harts, NEW l \in PendAt, l \in QPlaces, l \notin HoldAt, place[h] = "check",
         QS!Goto(h, l), l \notin {"cas", "setlocked"}, locked' = locked, pending = 0, pending' = 1,
         l = "take" => locked = 0, l \in {"waitlocked", "take"} => \A g \in Harts : place[g] \notin {"cas", "setlocked"},
         \A g \in Harts : g # h => qval'[g] = qval[g]
  PROVE  WordInv'
<1>1. place'[h] = l /\ \A g \in Harts : g # h => place'[g] = place[g]
  BY QGoto, Zenon
<1>2. pending # 1 /\ "check" \notin HoldAt /\ "check" \notin PendAt /\ "check" \notin {"cas", "setlocked"}
  BY QPlaceFacts
<1>3. \A g \in Harts : (place'[g] \in PendAt <=> g = h) /\ (place'[g] \in HoldAt <=> place[g] \in HoldAt)
  BY <1>1, <1>2, Zenon DEF WordInv
<1>4. \A k \in Harts : place'[k] \in {"cas", "setlocked"} => k # h /\ place[k] \in {"cas", "setlocked"}
  BY <1>1, Zenon
<1>5. ASSUME NEW k \in Harts, place'[k] \in {"cas", "setlocked"}
      PROVE  locked' = 0 /\ \A g \in Harts : place'[g] \notin {"waitlocked", "take"}
  <2>1. place[k] \in {"cas", "setlocked"}
    BY <1>4, <1>5, Zenon
  <2>2. locked = 0 /\ \A g \in Harts : place[g] \notin {"waitlocked", "take"}
    BY <2>1, Zenon DEF WordInv
  <2>3. l \notin {"waitlocked", "take"}
    BY <2>1, Zenon
  <2> QED
    BY <1>1, <2>2, <2>3, Zenon
<1>6. \A g \in Harts : place'[g] = "take" => locked' = 0
  BY <1>1, Zenon DEF WordInv
<1>7. \A g \in Harts : place'[g] = "cas" => qval'[g] = QS!QVal(g, 0, 0)
  BY <1>1, Zenon DEF WordInv
<1>8. /\ locked' = 1 <=> \E g \in Harts : place'[g] \in HoldAt
      /\ \A k, g \in Harts : (place'[k] \in HoldAt /\ place'[g] \in HoldAt) => k = g
  BY <1>3, Zenon DEF WordInv
<1> QED
  <2>1. /\ pending' = 1 <=> \E g \in Harts : place'[g] \in PendAt
        /\ \A k, g \in Harts : (place'[k] \in PendAt /\ place'[g] \in PendAt) => k = g
    BY <1>3, Zenon
  <2> QED
    BY <1>5, <1>6, <1>7, <1>8, <2>1, Zenon DEF WordInv, QS!QVal

(* The bit is given back. *)
LEMMA WordUnpend ==
  ASSUME QS!TypeOK, WordInv, NEW h \in Harts, QS!Unpend(h)
  PROVE  WordInv'
<1>0. place[h] = "unpend" /\ locked' = locked /\ pending' = 0 /\ qval' = qval
  BY Zenon DEF QS!Unpend
<1>1. /\ "unpend" \in PendAt /\ "unpend" \notin HoldAt /\ "init" \in QPlaces /\ "init" \notin HoldAt /\ "init" \notin PendAt
      /\ "init" \notin {"cas", "setlocked", "waitlocked", "take"}
  BY QPlaceFacts
<1>2. place'[h] = "init" /\ \A g \in Harts : g # h => place'[g] = place[g]
  BY <1>1, QGoto, Zenon DEF QS!Unpend
<1>3. \A g \in Harts : place'[g] \notin PendAt /\ (place'[g] \in HoldAt <=> place[g] \in HoldAt)
  BY <1>0, <1>1, <1>2, Zenon DEF WordInv
<1>4. \A g \in Harts : /\ place'[g] \in {"cas", "setlocked"} => place[g] \in {"cas", "setlocked"}
                       /\ place'[g] \notin {"waitlocked", "take"}
  BY <1>1, <1>2, <1>3, Zenon DEF PendAt
<1>5. \A g \in Harts : place'[g] = "cas" => qval'[g] = QS!QVal(g, 0, 0)
  BY <1>0, <1>1, <1>2, Zenon DEF WordInv
<1>6. pending' # 1
  BY <1>0
<1>7. /\ locked' = 1 <=> \E g \in Harts : place'[g] \in HoldAt
      /\ \A k, g \in Harts : (place'[k] \in HoldAt /\ place'[g] \in HoldAt) => k = g
  BY <1>0, <1>3, Zenon DEF WordInv
<1> QED
  BY <1>0, <1>3, <1>4, <1>5, <1>6, <1>7, Zenon DEF WordInv, QS!QVal

(* The head of the queue sees the word free of holder and pending hart. *)
LEMMA WordSeenFree ==
  ASSUME QS!TypeOK, WordInv, NEW h \in Harts, QS!WaitWord(h)
  PROVE  WordInv'
<1>0. /\ place[h] = "waitword" /\ locked = 0 /\ pending = 0 /\ locked' = locked /\ pending' = pending
      /\ qval'[h] = QS!word /\ \A g \in Harts : g # h => qval'[g] = qval[g]
  BY Zenon DEF QS!WaitWord, QS!TypeOK
<1>1. PICK l : l = IF tail = h THEN "cas" ELSE "setlocked"
  BY Zenon
<1>2. /\ l \in QPlaces /\ l \notin HoldAt /\ l \notin PendAt /\ l # "take"
      /\ "waitword" \notin HoldAt /\ "waitword" \notin PendAt
  BY <1>1, QPlaceFacts
<1>3. place'[h] = l /\ \A g \in Harts : g # h => place'[g] = place[g]
  BY <1>1, <1>2, QGoto, Zenon DEF QS!WaitWord
<1>4. \A g \in Harts : place'[g] \notin PendAt /\ place'[g] \notin HoldAt
  <2>1. pending # 1 /\ locked # 1
    BY <1>0
  <2> QED
    BY <1>2, <1>3, <2>1, Zenon DEF WordInv
<1>5. \A g \in Harts : place'[g] \notin {"waitlocked", "take"}
  BY <1>4, Zenon DEF PendAt
<1>6. \A g \in Harts : place'[g] = "cas" => qval'[g] = QS!QVal(g, 0, 0)
  <2>1. place'[h] = "cas" => tail = h
    BY <1>1, <1>3
  <2>2. tail = h => QS!word = QS!QVal(h, 0, 0)
    BY <1>0, WordOps, Zenon
  <2> QED
    BY <1>0, <1>3, <2>1, <2>2, Zenon DEF WordInv
<1>7. locked' = 0 /\ locked' # 1 /\ pending' # 1
  BY <1>0
<1> QED
  BY <1>4, <1>5, <1>6, <1>7, Zenon DEF WordInv, QS!QVal

-----------------------------------------------------------------------------
(* Every step keeps the types. *)
LEMMA QTyped ==
  ASSUME QS!TypeOK, NEW h \in Harts, QS!Step(h)
  PROVE  QS!TypeOK'
<1>1. QS!word \in QS!Word /\ QS!QVal(QS!None, 0, 0) \in QS!Word /\ 0 \in 0..1 /\ 1 \in 0..1
  BY DEF QS!TypeOK, QS!word, QS!Word, QS!QVal
<1>2. (\E l \in QPlaces : QS!Goto(h, l)) => place' \in [Harts -> QPlaces]
  BY QGoto, Zenon
<1>3. QS!Cas(QS!QVal(QS!None, 0, 0), QS!QVal(QS!None, 0, 1)) => tail' = QS!None /\ pending' = 0 /\ locked' = 1
  BY CasOps, Zenon
<1>4. QS!Cas(qval[h], QS!QVal(QS!None, 0, 1)) => tail' = QS!None /\ pending' = 0 /\ locked' = 1
  BY DEF QS!Cas, QS!Store, QS!QVal
<1>5. CASE QS!obtain_lock_fast(h)
  <2>1. \E l \in QPlaces : QS!Goto(h, l)
    BY <1>5, QPlaceFacts, Zenon DEF QS!obtain_lock_fast
  <2>2. qval' \in [Harts -> QS!Word] /\ tail' \in Harts \cup {QS!None} /\ pending' \in 0..1 /\ locked' \in 0..1
    BY <1>1, <1>3, <1>5, Zenon DEF QS!obtain_lock_fast, QS!TypeOK
  <2> QED
    BY <1>2, <1>5, <2>1, <2>2, Zenon DEF QS!obtain_lock_fast, QS!TypeOK, QPlaces
<1>6. CASE QS!SpinTransition(h)
  <2>1. \E l \in QPlaces : QS!Goto(h, l)
    BY <1>6, QPlaceFacts, Zenon DEF QS!SpinTransition
  <2> QED
    BY <1>1, <1>2, <1>6, <2>1, Zenon DEF QS!SpinTransition, QS!TypeOK, QPlaces
<1>7. CASE QS!SetPending(h)
  <2>1. \E l \in QPlaces : QS!Goto(h, l)
    BY <1>7, QPlaceFacts, Zenon DEF QS!SetPending
  <2>2. qval' \in [Harts -> QS!Word] /\ pending' \in 0..1
    BY <1>1, <1>7, Zenon DEF QS!SetPending, QS!TypeOK
  <2> QED
    BY <1>2, <1>7, <2>1, <2>2, Zenon DEF QS!SetPending, QS!TypeOK, QPlaces
<1>8. CASE QS!Unpend(h) \/ QS!WaitLocked(h) \/ QS!TakePending(h)
  <2>1. \E l \in QPlaces : QS!Goto(h, l)
    BY <1>8, QPlaceFacts, Zenon DEF QS!Unpend, QS!WaitLocked, QS!TakePending
  <2> QED
    BY <1>1, <1>2, <1>8, <2>1, Zenon DEF QS!Unpend, QS!WaitLocked, QS!TakePending, QS!TypeOK, QPlaces
<1>9. CASE QS!InitNode(h)
  <2>1. \E l \in QPlaces : QS!Goto(h, l)
    BY <1>9, QPlaceFacts, Zenon DEF QS!InitNode
  <2>2. qnext' \in [Harts -> Harts \cup {QS!None}] /\ nlocked' \in [Harts -> 0..1]
    BY <1>1, <1>9, Zenon DEF QS!InitNode, QS!TypeOK
  <2> QED
    BY <1>2, <1>9, <2>1, <2>2, Zenon DEF QS!InitNode, QS!TypeOK, QPlaces
<1>10. CASE QS!try_obtain_load(h) \/ QS!try_obtain_cas(h)
  <2>1. \E l \in QPlaces : QS!Goto(h, l)
    BY <1>10, QPlaceFacts, Zenon DEF QS!try_obtain_load, QS!try_obtain_cas
  <2>2. tail' \in Harts \cup {QS!None} /\ pending' \in 0..1 /\ locked' \in 0..1
    BY <1>1, <1>3, <1>10, Zenon DEF QS!try_obtain_load, QS!try_obtain_cas, QS!TypeOK
  <2> QED
    BY <1>2, <1>10, <2>1, <2>2, Zenon DEF QS!try_obtain_load, QS!try_obtain_cas, QS!TypeOK, QPlaces
<1>11. CASE QS!SwapTail(h)
  <2>1. \E l \in QPlaces : QS!Goto(h, l)
    BY <1>11, QPlaceFacts, Zenon DEF QS!SwapTail
  <2>2. nxt' \in [Harts -> Harts \cup {QS!None}] /\ tail' \in Harts \cup {QS!None}
    BY <1>11, Zenon DEF QS!SwapTail, QS!TypeOK
  <2> QED
    BY <1>2, <1>11, <2>1, <2>2, Zenon DEF QS!SwapTail, QS!TypeOK, QPlaces
<1>12. CASE QS!LinkPrev(h)
  <2>1. \E l \in QPlaces : QS!Goto(h, l)
    BY <1>12, QPlaceFacts, Zenon DEF QS!LinkPrev
  <2>2. nxt' \in [Harts -> Harts \cup {QS!None}] /\ qnext' \in [Harts -> Harts \cup {QS!None}]
    BY <1>12, Zenon DEF QS!LinkPrev, QS!TypeOK
  <2> QED
    BY <1>2, <1>12, <2>1, <2>2, Zenon DEF QS!LinkPrev, QS!TypeOK, QPlaces
<1>13. CASE QS!WaitNode(h) \/ QS!SetLocked(h)
  <2>1. \E l \in QPlaces : QS!Goto(h, l)
    BY <1>13, QPlaceFacts, Zenon DEF QS!WaitNode, QS!SetLocked
  <2> QED
    BY <1>1, <1>2, <1>13, <2>1, Zenon DEF QS!WaitNode, QS!SetLocked, QS!TypeOK, QPlaces
<1>14. CASE QS!Prefetch(h) \/ QS!WaitNext(h)
  <2>1. \E l \in QPlaces : QS!Goto(h, l)
    BY <1>14, QPlaceFacts, Zenon DEF QS!Prefetch, QS!WaitNext
  <2>2. nxt' \in [Harts -> Harts \cup {QS!None}]
    BY <1>14, Zenon DEF QS!Prefetch, QS!WaitNext, QS!TypeOK
  <2> QED
    BY <1>2, <1>14, <2>1, <2>2, Zenon DEF QS!Prefetch, QS!WaitNext, QS!TypeOK, QPlaces
<1>15. CASE QS!WaitWord(h)
  <2>1. \E l \in QPlaces : QS!Goto(h, l)
    BY <1>15, QPlaceFacts, Zenon DEF QS!WaitWord
  <2>2. qval' \in [Harts -> QS!Word]
    BY <1>1, <1>15, Zenon DEF QS!WaitWord, QS!TypeOK
  <2> QED
    BY <1>2, <1>15, <2>1, <2>2, Zenon DEF QS!WaitWord, QS!TypeOK, QPlaces
<1>16. CASE QS!CasLast(h)
  <2>1. \E l \in QPlaces : QS!Goto(h, l)
    BY <1>16, QPlaceFacts, Zenon DEF QS!CasLast
  <2>2. tail' \in Harts \cup {QS!None} /\ pending' \in 0..1 /\ locked' \in 0..1
    BY <1>1, <1>4, <1>16, Zenon DEF QS!CasLast, QS!TypeOK
  <2> QED
    BY <1>2, <1>16, <2>1, <2>2, Zenon DEF QS!CasLast, QS!TypeOK, QPlaces
<1>17. CASE QS!PassHead(h)
  <2>1. \E l \in QPlaces : QS!Goto(h, l)
    BY <1>17, QPlaceFacts, Zenon DEF QS!PassHead
  <2>2. nlocked' \in [Harts -> 0..1]
    BY <1>1, <1>17, Zenon DEF QS!PassHead, QS!TypeOK
  <2> QED
    BY <1>2, <1>17, <2>1, <2>2, Zenon DEF QS!PassHead, QS!TypeOK, QPlaces
<1>18. CASE QS!Unlock(h)
  <2>1. \E l \in QPlaces : QS!Goto(h, l)
    BY <1>18, QPlaceFacts, Zenon DEF QS!Unlock
  <2>2. nxt' \in [Harts -> Harts \cup {QS!None}] /\ qval' \in [Harts -> QS!Word]
    BY <1>1, <1>18, Zenon DEF QS!Unlock, QS!TypeOK
  <2> QED
    BY <1>1, <1>2, <1>18, <2>1, <2>2, Zenon DEF QS!Unlock, QS!TypeOK, QPlaces
<1> QED
  BY <1>5, <1>6, <1>7, <1>8, <1>9, <1>10, <1>11, <1>12, <1>13, <1>14, <1>15, <1>16, <1>17, <1>18, Zenon DEF QS!Step

(* A step of a hart outside the queue. *)
LEMMA OutsideStep ==
  ASSUME QS!TypeOK, WordInv, FreshInv, QConstants, NEW q, Line(q), NEW h \in Harts,
         NEW l \in QPlaces \ QueueAt, QS!Goto(h, l), place[h] \in QPlaces \ QueueAt, tail' = tail,
         \A g \in Harts : g # h => nxt'[g] = nxt[g] /\ qnext'[g] = qnext[g] /\ nlocked'[g] = nlocked[g],
         l \in {"tryload", "trycas", "swap"} =>
           \/ (qnext'[h] = QS!None /\ nlocked'[h] = 0)
           \/ (place[h] \in {"tryload", "trycas", "swap"} /\ qnext' = qnext /\ nlocked' = nlocked)
  PROVE  FreshInv' /\ \E r : Line(r)'
<1>1. place'[h] = l /\ \A g \in Harts : g # h => place'[g] = place[g]
  BY QGoto, Zenon
<1>2. Line(q)'
  BY <1>1, LineKept, Zenon
<1>3. FreshInv'
  BY <1>1, Zenon DEF FreshInv
<1> QED
  BY <1>2, <1>3, Zenon

(* A step of the head of the queue that stays its head. *)
LEMMA HeadStep ==
  ASSUME QS!TypeOK, WordInv, FreshInv, QConstants, NEW q, Line(q), NEW h \in Harts, h = q[1], Len(q) > 0,
         NEW l \in QPlaces, l \in HeadAt, QS!Goto(h, l), tail' = tail, qnext' = qnext, nlocked' = nlocked,
         \A g \in Harts : g # h => nxt'[g] = nxt[g],
         l = "pass" => nxt'[h] = qnext[h] /\ qnext[h] # QS!None,
         l \in {"waitword", "cas", "setlocked"} => nxt'[h] \in {QS!None, qnext[h]}
  PROVE  FreshInv' /\ \E r : Line(r)'
<1>1. place'[h] = l /\ \A g \in Harts : g # h => place'[g] = place[g]
  BY QGoto, Zenon
<1>2. l \in QueueAt /\ l \notin {"tryload", "trycas", "swap"}
  BY DEF QueueAt, HeadAt
<1>3. Front(h)'
  BY <1>1, Zenon DEF Front
<1>4. Line(q)'
  BY <1>1, <1>2, <1>3, HeadMoves, Zenon
<1>5. FreshInv'
  BY <1>1, <1>2, Zenon DEF FreshInv
<1> QED
  BY <1>4, <1>5, Zenon

-----------------------------------------------------------------------------
(* The ways to the lock and out of it that do not touch the queue. *)
LEMMA OutsideKeeps ==
  ASSUME QS!TypeOK, WordInv, FreshInv, QConstants, NEW q, Line(q), NEW h \in Harts,
         \/ QS!obtain_lock_fast(h) \/ QS!SpinTransition(h) \/ QS!SetPending(h) \/ QS!Unpend(h) \/ QS!WaitLocked(h)
         \/ QS!TakePending(h) \/ QS!InitNode(h) \/ QS!try_obtain_load(h) \/ QS!try_obtain_cas(h) \/ QS!Unlock(h)
  PROVE  WordInv' /\ FreshInv' /\ \E r : Line(r)'
<1>0. /\ \A l \in {"idle", "trans", "check", "init", "tryload", "trycas", "swap", "unpend", "waitlocked", "take", "held"} :
           l \in QPlaces \ QueueAt
      /\ \A l \in {"idle", "trans", "check", "init", "tryload", "trycas", "swap"} : l \notin HoldAt /\ l \notin PendAt
  BY QPlaceFacts, Zenon
<1>1. tail = QS!None => \A g \in Harts : place[g] \notin {"cas", "setlocked"}
  <2>1. \A g \in Harts : place[g] \in {"cas", "setlocked"} => place[g] \in QueueAt
    BY QPlaceFacts, Zenon
  <2> QED
    BY <2>1, LineFacts, Zenon
<1>2. pending = 0 => \A g \in Harts : place[g] # "take"
  <2>1. pending = 0 => pending # 1
    OBVIOUS
  <2>2. "take" \in PendAt
    BY QPlaceFacts
  <2> QED
    BY <2>1, <2>2, Zenon DEF WordInv
<1>3. ASSUME QS!Cas(QS!QVal(QS!None, 0, 0), QS!QVal(QS!None, 0, 1)), QS!Goto(h, "held"), qval' = qval, nxt' = nxt, qnext' = qnext,
             nlocked' = nlocked, place[h] \in {"idle", "trycas"}
      PROVE  WordInv' /\ FreshInv' /\ \E r : Line(r)'
  <2>1. tail = QS!None /\ pending = 0 /\ locked = 0 /\ tail' = QS!None /\ pending' = 0 /\ locked' = 1
    BY <1>3, CasOps, Zenon
  <2>2. place[h] \in QPlaces \ QueueAt /\ place[h] \notin PendAt
    BY <1>0, <1>3, Zenon
  <2>3. \A g \in Harts : g # h => place[g] \notin {"cas", "setlocked", "take"}
    BY <1>1, <1>2, <2>1, Zenon
  <2>4. "held" \in HoldAt /\ "held" \in QPlaces /\ "held" \notin PendAt
        /\ "held" \notin {"cas", "setlocked", "waitlocked", "take"} /\ "held" \notin {"tryload", "trycas", "swap"}
    BY QPlaceFacts
  <2>5. WordInv'
    BY <1>3, <2>1, <2>2, <2>3, <2>4, WordAcquire, Zenon
  <2>6. FreshInv' /\ \E r : Line(r)'
    BY <1>0, <1>3, <2>1, <2>2, <2>4, OutsideStep, Zenon
  <2> QED
    BY <2>5, <2>6, Zenon
<1>4. ASSUME NEW l \in {"trans", "check", "init", "tryload", "trycas", "swap"}, QS!Goto(h, l),
             place[h] \in {"idle", "trans", "check", "init", "tryload", "trycas"},
             locked' = locked, pending' = pending, tail' = tail, nxt' = nxt,
             \A g \in Harts : g # h => qval'[g] = qval[g] /\ qnext'[g] = qnext[g] /\ nlocked'[g] = nlocked[g],
             l \in {"tryload", "trycas", "swap"} =>
               \/ (qnext'[h] = QS!None /\ nlocked'[h] = 0)
               \/ (place[h] \in {"tryload", "trycas", "swap"} /\ qnext' = qnext /\ nlocked' = nlocked)
      PROVE  WordInv' /\ FreshInv' /\ \E r : Line(r)'
  <2>1. l \in QPlaces \ QueueAt /\ l \notin HoldAt /\ l \notin PendAt
    BY <1>0, Zenon
  <2>2. place[h] \in QPlaces \ QueueAt /\ place[h] \notin HoldAt /\ place[h] \notin PendAt
    BY <1>0, <1>4, Zenon
  <2>3. l \notin {"cas", "setlocked"} /\ l \notin {"waitlocked", "take"} /\ l # "take" /\ l # "cas"
    OBVIOUS
  <2>4. WordInv'
    BY <1>4, <2>1, <2>2, <2>3, WordNeutral, Zenon
  <2>5. FreshInv' /\ \E r : Line(r)'
    BY <1>4, <2>1, <2>2, OutsideStep, Zenon
  <2> QED
    BY <2>4, <2>5, Zenon
<1>5. CASE QS!obtain_lock_fast(h)
  <2>1. CASE QS!Cas(QS!QVal(QS!None, 0, 0), QS!QVal(QS!None, 0, 1)) /\ QS!Goto(h, "held") /\ UNCHANGED qval
    BY <1>3, <1>5, <2>1, Zenon DEF QS!obtain_lock_fast
  <2>2. CASE ~(QS!Cas(QS!QVal(QS!None, 0, 0), QS!QVal(QS!None, 0, 1)) /\ QS!Goto(h, "held") /\ UNCHANGED qval)
    <3>1. PICK l \in {"trans", "check"} : QS!Goto(h, l)
      BY <1>5, <2>2, Zenon DEF QS!obtain_lock_fast
    <3>2. /\ locked' = locked /\ pending' = pending /\ tail' = tail /\ nxt' = nxt /\ qnext' = qnext /\ nlocked' = nlocked
          /\ place[h] = "idle" /\ \A g \in Harts : g # h => qval'[g] = qval[g]
      BY <1>5, <2>2, Zenon DEF QS!obtain_lock_fast, QS!TypeOK
    <3>3. l \notin {"tryload", "trycas", "swap"}
      OBVIOUS
    <3> QED
      BY <1>4, <3>1, <3>2, <3>3, Zenon
  <2> QED
    BY <2>1, <2>2, Zenon
<1>6. CASE QS!SpinTransition(h)
  <2>1. /\ QS!Goto(h, "check") /\ place[h] = "trans"
        /\ locked' = locked /\ pending' = pending /\ tail' = tail /\ nxt' = nxt /\ qnext' = qnext /\ nlocked' = nlocked
        /\ \A g \in Harts : g # h => qval'[g] = qval[g]
    BY <1>6, Zenon DEF QS!SpinTransition, QS!TypeOK
  <2>2. "check" \notin {"tryload", "trycas", "swap"}
    OBVIOUS
  <2> QED
    BY <1>4, <2>1, <2>2, Zenon
<1>7. CASE QS!SetPending(h)
  <2>0. /\ place[h] = "check" /\ locked' = locked /\ tail' = tail /\ nxt' = nxt /\ qnext' = qnext /\ nlocked' = nlocked
        /\ \A g \in Harts : g # h => qval'[g] = qval[g]
    BY <1>7, Zenon DEF QS!SetPending, QS!TypeOK
  <2>1. CASE QS!Goto(h, "init") /\ pending' = pending
    <3>1. "init" \notin {"tryload", "trycas", "swap"}
      OBVIOUS
    <3> QED
      BY <1>4, <2>0, <2>1, <3>1, Zenon
  <2>2. CASE ~(QS!Goto(h, "init") /\ pending' = pending)
    <3>1. pending' = 1 /\ QS!Goto(h, IF ~QS!Masked(QS!word) THEN IF locked # 0 THEN "waitlocked" ELSE "take"
                                  ELSE IF pending = 0 THEN "unpend" ELSE "init")
      BY <1>7, <2>2, Zenon DEF QS!SetPending
    <3>2. pending = 0
      <4>1. pending # 0 => pending = 1
        BY DEF QS!TypeOK
      <4>2. pending # 0 => QS!Masked(QS!word)
        BY WordOps, Zenon
      <4> QED
        BY <2>2, <3>1, <4>1, <4>2, Zenon
    <3>3. PICK l : l = IF ~QS!Masked(QS!word) THEN IF locked # 0 THEN "waitlocked" ELSE "take" ELSE "unpend"
      BY Zenon
    <3>4. QS!Goto(h, l)
      BY <3>1, <3>2, <3>3, Zenon
    <3>5. l \in {"unpend", "waitlocked", "take"} /\ (l = "take" => locked = 0)
          /\ (l \in {"waitlocked", "take"} => ~QS!Masked(QS!word))
      BY <3>3
    <3>6. l \in PendAt /\ l \in QPlaces /\ l \notin HoldAt /\ l \notin QueueAt
      BY <3>5, QPlaceFacts, Zenon
    <3>7. l \notin {"cas", "setlocked"} /\ l \notin {"tryload", "trycas", "swap"}
      BY <3>5
    <3>8. l \in {"waitlocked", "take"} => \A g \in Harts : place[g] \notin {"cas", "setlocked"}
      BY <1>1, <3>5, WordOps, Zenon
    <3>9. WordInv'
      BY <2>0, <3>1, <3>2, <3>4, <3>5, <3>6, <3>7, <3>8, WordPend, Zenon
    <3>10. place[h] \in QPlaces \ QueueAt
      BY <1>0, <2>0, Zenon
    <3>11. FreshInv' /\ \E r : Line(r)'
      BY <2>0, <3>4, <3>6, <3>7, <3>10, OutsideStep, Zenon
    <3> QED
      BY <3>9, <3>11, Zenon
  <2> QED
    BY <2>1, <2>2, Zenon
<1>8. CASE QS!Unpend(h)
  <2>1. /\ QS!Goto(h, "init") /\ place[h] = "unpend" /\ tail' = tail /\ nxt' = nxt /\ qnext' = qnext /\ nlocked' = nlocked
    BY <1>8, Zenon DEF QS!Unpend
  <2>2. "init" \notin {"tryload", "trycas", "swap"}
    OBVIOUS
  <2>3. "init" \in QPlaces \ QueueAt /\ "unpend" \in QPlaces \ QueueAt
    BY <1>0, Zenon
  <2>4. FreshInv' /\ \E r : Line(r)'
    BY <2>1, <2>2, <2>3, OutsideStep, Zenon
  <2> QED
    BY <1>8, <2>4, WordUnpend, Zenon
<1>9. CASE QS!WaitLocked(h)
  <2>1. /\ QS!Goto(h, "take") /\ place[h] = "waitlocked" /\ locked = 0 /\ locked' = locked /\ pending' = pending
        /\ tail' = tail /\ qval' = qval /\ nxt' = nxt /\ qnext' = qnext /\ nlocked' = nlocked
    BY <1>9, Zenon DEF QS!WaitLocked
  <2>2. "take" \notin {"tryload", "trycas", "swap"} /\ "take" \notin {"cas", "setlocked"} /\ "take" # "cas"
    OBVIOUS
  <2>3. /\ "take" \in QPlaces \ QueueAt /\ "waitlocked" \in QPlaces \ QueueAt
        /\ "take" \notin HoldAt /\ "waitlocked" \notin HoldAt /\ "take" \in PendAt /\ "waitlocked" \in PendAt
    BY QPlaceFacts, Zenon
  <2>4. FreshInv' /\ \E r : Line(r)'
    BY <2>1, <2>2, <2>3, OutsideStep, Zenon
  <2>5. WordInv'
    BY <2>1, <2>2, <2>3, WordNeutral, Zenon
  <2> QED
    BY <2>4, <2>5, Zenon
<1>10. CASE QS!TakePending(h)
  <2>1. /\ QS!Goto(h, "held") /\ place[h] = "take" /\ locked' = 1 /\ pending' = 0
        /\ tail' = tail /\ qval' = qval /\ nxt' = nxt /\ qnext' = qnext /\ nlocked' = nlocked
    BY <1>10, Zenon DEF QS!TakePending
  <2>2. "held" \notin {"tryload", "trycas", "swap"} /\ "held" \notin {"cas", "setlocked", "waitlocked", "take"}
    OBVIOUS
  <2>3. /\ "take" \in QPlaces \ QueueAt /\ "held" \in QPlaces \ QueueAt
        /\ "held" \in HoldAt /\ "held" \notin PendAt /\ "take" \in PendAt
    BY QPlaceFacts, Zenon
  <2>4. locked = 0 /\ \A g \in Harts : g # h => place[g] \notin {"cas", "setlocked", "take"}
    BY <2>1, <2>3, Zenon DEF WordInv
  <2>5. FreshInv' /\ \E r : Line(r)'
    BY <2>1, <2>2, <2>3, OutsideStep, Zenon
  <2>6. WordInv'
    BY <2>1, <2>2, <2>3, <2>4, WordAcquire, Zenon
  <2> QED
    BY <2>5, <2>6, Zenon
<1>11. CASE QS!InitNode(h)
  <2>1. /\ QS!Goto(h, "tryload") /\ place[h] = "init" /\ qnext'[h] = QS!None /\ nlocked'[h] = 0 /\ locked' = locked
        /\ pending' = pending /\ tail' = tail /\ nxt' = nxt
        /\ \A g \in Harts : g # h => qval'[g] = qval[g] /\ qnext'[g] = qnext[g] /\ nlocked'[g] = nlocked[g]
    BY <1>11, Zenon DEF QS!InitNode, QS!TypeOK
  <2> QED
    BY <1>4, <2>1, Zenon
<1>12. CASE QS!try_obtain_load(h)
  <2>1. PICK l \in {"trycas", "swap"} : QS!Goto(h, l)
    BY <1>12, Zenon DEF QS!try_obtain_load
  <2>2. /\ place[h] = "tryload" /\ locked' = locked /\ pending' = pending /\ tail' = tail /\ nxt' = nxt
        /\ qval' = qval /\ qnext' = qnext /\ nlocked' = nlocked
    BY <1>12, Zenon DEF QS!try_obtain_load
  <2> QED
    BY <1>4, <2>1, <2>2, Zenon
<1>13. CASE QS!try_obtain_cas(h)
  <2>0. place[h] = "trycas" /\ nxt' = nxt /\ qval' = qval /\ qnext' = qnext /\ nlocked' = nlocked
    BY <1>13, Zenon DEF QS!try_obtain_cas
  <2>1. CASE QS!Cas(QS!QVal(QS!None, 0, 0), QS!QVal(QS!None, 0, 1)) /\ QS!Goto(h, "held")
    BY <1>3, <2>0, <2>1, Zenon
  <2>2. CASE QS!Goto(h, "swap") /\ UNCHANGED <<locked, pending, tail>>
    BY <1>4, <2>0, <2>2, Zenon
  <2> QED
    BY <1>13, <2>1, <2>2, Zenon DEF QS!try_obtain_cas
<1>14. CASE QS!Unlock(h)
  <2>1. /\ QS!Goto(h, "idle") /\ place[h] = "held" /\ tail' = tail /\ qnext' = qnext /\ nlocked' = nlocked
        /\ \A g \in Harts : g # h => nxt'[g] = nxt[g]
    BY <1>14, Zenon DEF QS!Unlock, QS!TypeOK
  <2>2. "idle" \notin {"tryload", "trycas", "swap"}
    OBVIOUS
  <2>3. "idle" \in QPlaces \ QueueAt /\ "held" \in QPlaces \ QueueAt
    BY <1>0, Zenon
  <2>4. FreshInv' /\ \E r : Line(r)'
    BY <2>1, <2>2, <2>3, OutsideStep, Zenon
  <2> QED
    BY <1>14, <2>4, WordRelease, Zenon
<1> QED
  BY <1>5, <1>6, <1>7, <1>8, <1>9, <1>10, <1>11, <1>12, <1>13, <1>14, Zenon

(* The way through the queue. *)
LEMMA QueueKeeps ==
  ASSUME QS!TypeOK, WordInv, FreshInv, QConstants, NEW q, Line(q), NEW h \in Harts,
         \/ QS!SwapTail(h) \/ QS!LinkPrev(h) \/ QS!WaitNode(h) \/ QS!Prefetch(h) \/ QS!WaitWord(h) \/ QS!CasLast(h)
         \/ QS!SetLocked(h) \/ QS!WaitNext(h) \/ QS!PassHead(h)
  PROVE  WordInv' /\ FreshInv' /\ \E r : Line(r)'
<1>0. /\ \A l \in {"swap", "link", "waitnode", "prefetch", "waitword"} :
           l \in QPlaces /\ l \notin HoldAt /\ l \notin PendAt
      /\ \A l \in {"prefetch", "waitword", "cas", "setlocked", "waitnext", "pass"} : l \in QPlaces /\ l \in HeadAt
      /\ \A l \in {"cas", "setlocked"} : l \notin HoldAt /\ l \notin PendAt
      /\ \A l \in {"waitnext", "pass", "held"} : l \in QPlaces /\ l \in HoldAt /\ l \notin PendAt
  BY QPlaceFacts, Zenon
<1>1. ASSUME NEW l \in {"link", "waitnode", "prefetch", "waitword"}, QS!Goto(h, l),
             place[h] \in {"swap", "link", "waitnode", "prefetch"}, locked' = locked, pending' = pending, qval' = qval
      PROVE  WordInv'
  <2>1. l \in QPlaces /\ l \notin HoldAt /\ l \notin PendAt /\ place[h] \notin HoldAt /\ place[h] \notin PendAt
    BY <1>0, <1>1, Zenon
  <2>2. l \notin {"cas", "setlocked"} /\ l \notin {"waitlocked", "take"} /\ l # "take" /\ l # "cas"
    OBVIOUS
  <2> QED
    BY <1>1, <2>1, <2>2, WordNeutral, Zenon
<1>2. \A g \in Harts : place[g] \in HeadAt => g = q[1] /\ Len(q) > 0
  BY LineFacts, Zenon
<1>3. CASE QS!SwapTail(h)
  <2>1. PICK l \in {"waitword", "link"} : QS!Goto(h, l)
    BY <1>3, Zenon DEF QS!SwapTail
  <2>2. place[h] = "swap" /\ locked' = locked /\ pending' = pending /\ qval' = qval /\ qnext' = qnext /\ nlocked' = nlocked
    BY <1>3, Zenon DEF QS!SwapTail
  <2>3. WordInv'
    BY <1>1, <2>1, <2>2, Zenon
  <2>4. l \in QPlaces /\ l \notin {"tryload", "trycas", "swap"}
    BY <1>0
  <2>5. FreshInv'
    BY <2>1, <2>2, <2>4, QGoto, Zenon DEF FreshInv
  <2> QED
    BY <1>3, <2>3, <2>5, LineJoin, Zenon
<1>4. CASE QS!LinkPrev(h)
  <2>1. /\ QS!Goto(h, "waitnode") /\ place[h] = "link" /\ locked' = locked /\ pending' = pending /\ qval' = qval
        /\ nlocked' = nlocked
    BY <1>4, Zenon DEF QS!LinkPrev
  <2>2. WordInv'
    BY <1>1, <2>1, Zenon
  <2>3. Line(q)' /\ nxt[h] \in Harts /\ place[nxt[h]] \in QueueAt
    BY <1>4, LineLink, Zenon
  <2>4. /\ "waitnode" \in QPlaces /\ "waitnode" \notin {"tryload", "trycas", "swap"}
        /\ \A l \in {"tryload", "trycas", "swap"} : l \notin QueueAt
    BY QPlaceFacts
  <2>5. \A g \in Harts : place'[g] \in {"tryload", "trycas", "swap"} => place'[g] = place[g] /\ g # nxt[h]
    BY <2>1, <2>3, <2>4, QGoto, Zenon
  <2>6. \A g \in Harts : g # nxt[h] => qnext'[g] = qnext[g]
    BY <1>4, <2>3, Zenon DEF QS!LinkPrev, QS!TypeOK
  <2>7. FreshInv'
    BY <2>1, <2>5, <2>6, Zenon DEF FreshInv
  <2> QED
    BY <2>2, <2>3, <2>7, Zenon
<1>5. CASE QS!WaitNode(h)
  <2>1. /\ QS!Goto(h, "prefetch") /\ place[h] = "waitnode" /\ nlocked[h] = 1 /\ locked' = locked /\ pending' = pending
        /\ qval' = qval /\ tail' = tail /\ qnext' = qnext /\ nlocked' = nlocked /\ nxt' = nxt
    BY <1>5, Zenon DEF QS!WaitNode
  <2>2. h = q[1] /\ Len(q) > 0
    BY <2>1, LineFacts, Zenon
  <2>3. "prefetch" # "pass" /\ "prefetch" \notin {"waitword", "cas", "setlocked"}
    OBVIOUS
  <2>4. FreshInv' /\ \E r : Line(r)'
    BY <1>0, <2>1, <2>2, <2>3, HeadStep, Zenon
  <2> QED
    BY <1>1, <2>1, <2>4, Zenon
<1>6. CASE QS!Prefetch(h)
  <2>1. /\ QS!Goto(h, "waitword") /\ place[h] = "prefetch" /\ locked' = locked /\ pending' = pending
        /\ qval' = qval /\ tail' = tail /\ qnext' = qnext /\ nlocked' = nlocked /\ nxt'[h] = qnext[h]
        /\ \A g \in Harts : g # h => nxt'[g] = nxt[g]
    BY <1>6, Zenon DEF QS!Prefetch, QS!TypeOK
  <2>2. h = q[1] /\ Len(q) > 0
    BY <1>0, <1>2, <2>1, Zenon
  <2>3. "waitword" # "pass"
    OBVIOUS
  <2>4. FreshInv' /\ \E r : Line(r)'
    BY <1>0, <2>1, <2>2, <2>3, HeadStep, Zenon
  <2> QED
    BY <1>1, <2>1, <2>4, Zenon
<1>7. CASE QS!WaitWord(h)
  <2>1. PICK l \in {"cas", "setlocked"} : QS!Goto(h, l)
    BY <1>7, Zenon DEF QS!WaitWord
  <2>2. place[h] = "waitword" /\ tail' = tail /\ qnext' = qnext /\ nlocked' = nlocked /\ nxt' = nxt
    BY <1>7, Zenon DEF QS!WaitWord
  <2>3. h = q[1] /\ Len(q) > 0
    BY <1>0, <1>2, <2>2, Zenon
  <2>4. nxt[h] \in {QS!None, qnext[h]}
    BY <2>2, <2>3, Zenon DEF Line, Front
  <2>5. l # "pass"
    OBVIOUS
  <2>6. FreshInv' /\ \E r : Line(r)'
    BY <1>0, <2>1, <2>2, <2>3, <2>4, <2>5, HeadStep, Zenon
  <2> QED
    BY <1>7, <2>6, WordSeenFree, Zenon
<1>8. ASSUME place[h] \in {"cas", "setlocked"}
      PROVE  locked = 0 /\ \A g \in Harts : g # h => place[g] \notin {"cas", "setlocked", "take"}
  <2>1. \A g \in Harts : place[g] \in {"cas", "setlocked"} => g = h
    BY <1>0, <1>2, <1>8, Zenon
  <2>2. locked = 0 /\ \A g \in Harts : place[g] \notin {"waitlocked", "take"}
    BY <1>8, Zenon DEF WordInv
  <2> QED
    BY <2>1, <2>2, Zenon
<1>9. CASE QS!CasLast(h)
  <2>0. /\ place[h] = "cas" /\ qnext' = qnext /\ nlocked' = nlocked /\ nxt' = nxt /\ qval' = qval
        /\ qval[h] = QS!QVal(h, 0, 0) /\ h = q[1] /\ Len(q) > 0 /\ place[h] \in HeadAt
        /\ place[h] \notin HoldAt /\ place[h] \notin PendAt
    BY <1>0, <1>2, <1>9, Zenon DEF QS!CasLast, WordInv
  <2>1. CASE QS!Cas(qval[h], QS!QVal(QS!None, 0, 1)) /\ QS!Goto(h, "held")
    <3>1. tail = h /\ pending = 0 /\ locked = 0 /\ tail' = QS!None /\ pending' = 0 /\ locked' = 1
      BY <2>0, <2>1, CasOps, Zenon
    <3>2. "held" \notin {"cas", "setlocked", "waitlocked", "take"} /\ "held" \notin {"tryload", "trycas", "swap"}
          /\ "held" \notin QueueAt
      BY QPlaceFacts
    <3>3. place'[h] = "held" /\ \A g \in Harts : g # h => place'[g] = place[g]
      BY <1>0, <2>1, QGoto, Zenon
    <3>4. WordInv'
      BY <1>0, <1>8, <2>0, <2>1, <3>1, <3>2, WordAcquire, Zenon
    <3>5. Line(<<>>)'
      BY <2>0, <3>1, <3>2, <3>3, LineEmpty, Zenon
    <3>6. FreshInv'
      BY <2>0, <3>2, <3>3, Zenon DEF FreshInv
    <3> QED
      BY <3>4, <3>5, <3>6, Zenon
  <2>2. CASE QS!Goto(h, "setlocked") /\ UNCHANGED <<locked, pending, tail>>
    <3>1. locked' = locked /\ pending' = pending /\ tail' = tail
      BY <2>2, Zenon
    <3>2. "setlocked" # "pass" /\ "setlocked" # "cas" /\ "setlocked" # "take" /\ "setlocked" \notin {"waitlocked", "take"}
      OBVIOUS
    <3>3. nxt[h] \in {QS!None, qnext[h]}
      BY <2>0, Zenon DEF Line, Front
    <3>4. FreshInv' /\ \E r : Line(r)'
      BY <1>0, <2>0, <2>2, <3>1, <3>2, <3>3, HeadStep, Zenon
    <3>5. WordInv'
      BY <1>0, <2>0, <2>2, <3>1, <3>2, WordNeutral, Zenon
    <3> QED
      BY <3>4, <3>5, Zenon
  <2> QED
    BY <1>9, <2>1, <2>2, Zenon DEF QS!CasLast
<1>10. CASE QS!SetLocked(h)
  <2>0. /\ place[h] = "setlocked" /\ locked' = 1 /\ pending' = pending /\ tail' = tail /\ qnext' = qnext
        /\ nlocked' = nlocked /\ nxt' = nxt /\ qval' = qval
    BY <1>10, Zenon DEF QS!SetLocked
  <2>1. PICK l : l = IF nxt[h] = QS!None THEN "waitnext" ELSE "pass"
    BY Zenon
  <2>2. QS!Goto(h, l)
    BY <1>10, <2>1, Zenon DEF QS!SetLocked
  <2>3. l \in {"waitnext", "pass"} /\ (l = "pass" => nxt[h] # QS!None)
        /\ l \notin {"cas", "setlocked", "waitlocked", "take"} /\ l \notin {"waitword", "cas", "setlocked"}
    BY <2>1
  <2>4. h = q[1] /\ Len(q) > 0 /\ place[h] \notin PendAt
    BY <1>0, <1>2, <2>0, Zenon
  <2>5. nxt[h] \in {QS!None, qnext[h]}
    BY <2>0, <2>4, Zenon DEF Line, Front
  <2>6. l = "pass" => nxt'[h] = qnext[h] /\ qnext[h] # QS!None
    BY <2>0, <2>3, <2>5, Zenon
  <2>7. l \in QPlaces /\ l \in HeadAt /\ l \in HoldAt /\ l \notin PendAt
    BY <1>0, <2>3, Zenon
  <2>8. FreshInv' /\ \E r : Line(r)'
    BY <2>0, <2>2, <2>3, <2>4, <2>6, <2>7, HeadStep, Zenon
  <2>9. WordInv'
    BY <1>8, <2>0, <2>2, <2>3, <2>4, <2>7, WordAcquire, Zenon
  <2> QED
    BY <2>8, <2>9, Zenon
<1>11. CASE QS!WaitNext(h)
  <2>0. /\ place[h] = "waitnext" /\ QS!Goto(h, "pass") /\ qnext[h] # QS!None /\ locked' = locked /\ pending' = pending
        /\ tail' = tail /\ qnext' = qnext /\ nlocked' = nlocked /\ qval' = qval /\ nxt'[h] = qnext[h]
        /\ \A g \in Harts : g # h => nxt'[g] = nxt[g]
    BY <1>11, Zenon DEF QS!WaitNext, QS!TypeOK
  <2>1. "pass" \notin {"waitword", "cas", "setlocked"} /\ "pass" \notin {"cas", "setlocked"}
        /\ "pass" \notin {"waitlocked", "take"} /\ "pass" # "take" /\ "pass" # "cas"
    OBVIOUS
  <2>2. h = q[1] /\ Len(q) > 0
    BY <1>0, <1>2, <2>0, Zenon
  <2>3. FreshInv' /\ \E r : Line(r)'
    BY <1>0, <2>0, <2>1, <2>2, HeadStep, Zenon
  <2>4. WordInv'
    BY <1>0, <2>0, <2>1, WordNeutral, Zenon
  <2> QED
    BY <2>3, <2>4, Zenon
<1>12. CASE QS!PassHead(h)
  <2>0. /\ place[h] = "pass" /\ QS!Goto(h, "held") /\ locked' = locked /\ pending' = pending /\ qnext' = qnext /\ qval' = qval
    BY <1>12, Zenon DEF QS!PassHead
  <2>1. /\ "held" \notin {"cas", "setlocked"} /\ "held" \notin {"waitlocked", "take"} /\ "held" # "take" /\ "held" # "cas"
        /\ "held" \notin {"tryload", "trycas", "swap"} /\ "waitnode" \notin {"tryload", "trycas", "swap"}
    OBVIOUS
  <2>2. (\E r : Line(r)') /\ nxt[h] \in Harts /\ place[nxt[h]] = "waitnode"
    BY <1>12, LinePass, Zenon
  <2>3. WordInv'
    BY <1>0, <2>0, <2>1, WordNeutral, Zenon
  <2>4. \A g \in Harts : g # nxt[h] => nlocked'[g] = nlocked[g]
    BY <1>12, <2>2, Zenon DEF QS!PassHead, QS!TypeOK
  <2>5. \A g \in Harts : place'[g] \in {"tryload", "trycas", "swap"} => place'[g] = place[g] /\ g # nxt[h]
    BY <1>0, <2>0, <2>1, <2>2, QGoto, Zenon
  <2>6. FreshInv'
    BY <2>0, <2>4, <2>5, Zenon DEF FreshInv
  <2> QED
    BY <2>2, <2>3, <2>6, Zenon
<1> QED
  BY <1>3, <1>4, <1>5, <1>6, <1>7, <1>9, <1>10, <1>11, <1>12, Zenon

-----------------------------------------------------------------------------
(* At the start the word is zero and the queue is empty. *)
LEMMA QInit ==
  ASSUME QConstants, QS!Init
  PROVE  QInv
<1>1. \A h \in Harts : place[h] = "idle"
  BY Zenon DEF QS!Init
<1>2. /\ "idle" \notin HoldAt /\ "idle" \notin PendAt /\ "idle" \notin QueueAt
      /\ "idle" \notin {"cas", "setlocked"} /\ "idle" # "take" /\ "idle" # "cas" /\ "idle" \notin {"tryload", "trycas", "swap"}
  BY QPlaceFacts
<1>3. QS!TypeOK
  BY DEF QS!Init, QS!TypeOK, QS!QVal, QS!Word
<1>4. locked # 1 /\ pending # 1
  BY DEF QS!Init
<1>5. WordInv
  BY <1>1, <1>2, <1>4, Zenon DEF WordInv
<1>6. FreshInv
  BY <1>1, <1>2, Zenon DEF FreshInv
<1>7. <<>> \in Seq(Harts) /\ Len(<<>>) = 0 /\ ~(Len(<<>>) > 0) /\ \A i : i \notin 1..Len(<<>>)
  OBVIOUS
<1>8. Line(<<>>)
  BY <1>1, <1>2, <1>7, Zenon DEF Line, QS!Init
<1> QED
  BY <1>3, <1>5, <1>6, <1>8, Zenon DEF QInv

LEMMA QStep ==
  ASSUME QConstants, QInv, [QS!Next]_(QS!vars)
  PROVE  QInv'
<1>1. CASE QS!Next
  <2>1. PICK h \in Harts : QS!Step(h)
    BY <1>1, Zenon DEF QS!Next
  <2>2. PICK q : Line(q)
    BY Zenon DEF QInv
  <2>3. QS!TypeOK /\ WordInv /\ FreshInv
    BY Zenon DEF QInv
  <2>4. QS!TypeOK'
    BY <2>1, <2>3, QTyped, Zenon
  <2>5. WordInv' /\ FreshInv' /\ \E r : Line(r)'
    BY <2>1, <2>2, <2>3, OutsideKeeps, QueueKeeps, Zenon DEF QS!Step
  <2> QED
    BY <2>4, <2>5, Zenon DEF QInv
<1>2. CASE UNCHANGED QS!vars
  <2>1. PICK q : Line(q)
    BY Zenon DEF QInv
  <2>2. QS!TypeOK' /\ FreshInv'
    BY <1>2, Zenon DEF QS!vars, QInv, QS!TypeOK, FreshInv
  <2>3. WordInv'
    BY <1>2, Zenon DEF QS!vars, QInv, WordInv, QS!QVal
  <2>4. Line(q)'
    BY <1>2, <2>1, Zenon DEF QS!vars, Line, Front, Behind
  <2> QED
    BY <2>2, <2>3, <2>4, Zenon DEF QInv
<1> QED
  BY <1>1, <1>2, Zenon

INSTANCE FiniteSetTheorems

(* Cardinality is the same in the instance. *)
LEMMA SameCount == \A S : QS!Cardinality(S) = Cardinality(S)
  BY Zenon DEF QS!Cardinality, Cardinality

(* A set without two different members counts at most one. *)
LEMMA QAtMostOne ==
  ASSUME NEW S, \A x, y \in S : x = y
  PROVE  Cardinality(S) <= 1
<1>1. CASE S = {}
  BY <1>1, FS_EmptySet
<1>2. CASE S # {}
  <2>0. PICK x : x \in S
    BY <1>2, Zenon
  <2>1. S = {x}
    BY <2>0
  <2> QED
    BY <2>1, FS_Singleton
<1> QED
  BY <1>1, <1>2

LEMMA QImplied ==
  ASSUME QConstants, QInv
  PROVE  QS!QMutualExclusion /\ QS!QNodeAlive /\ QS!PendingOwned
<1>0. PICK q : Line(q)
  BY Zenon DEF QInv
<1>1. QS!QMutualExclusion
  <2>1. \A x, y \in QS!Holders : x = y
    BY Zenon DEF QInv, WordInv, QS!Holders, HoldAt
  <2>2. Cardinality(QS!Holders) <= 1
    BY <2>1, QAtMostOne, Zenon
  <2>3. QS!Holders # {} => locked = 1
    BY Zenon DEF QInv, WordInv, QS!Holders, HoldAt
  <2> QED
    BY <2>2, <2>3, SameCount, Zenon DEF QS!QMutualExclusion
<1>2. ASSUME NEW h \in Harts, place[h] = "link" PROVE nxt[h] \in QS!Queued /\ qnext[nxt[h]] = QS!None
  <2>1. place[h] \in QueueAt /\ place[h] \notin HeadAt /\ place[h] # "waitnode"
    BY <1>2, QPlaceFacts
  <2>2. PICK i \in 1..Len(q) : q[i] = h
    BY <1>0, <2>1, Zenon DEF Line
  <2>3. i # 1
    <3>1. Len(q) > 0
      BY <1>0, <2>1, LineFacts, Zenon
    <3> QED
      BY <1>0, <2>1, <2>2, <3>1, Zenon DEF Line, Front
  <2>4. i > 1 /\ i - 1 \in 1..Len(q) /\ q[i - 1] \in Harts
    BY <1>0, <2>3 DEF Line
  <2>5. Behind(q[i - 1], h)
    BY <1>0, <2>2, <2>4, Zenon DEF Line
  <2>6. nxt[h] = q[i - 1] /\ qnext[q[i - 1]] = QS!None
    BY <2>1, <2>5, Zenon DEF Behind
  <2>7. place[q[i - 1]] \in QueueAt
    BY <1>0, <2>4, Zenon DEF Line
  <2>8. q[i - 1] \in QS!Queued
    BY <2>4, <2>7, Zenon DEF QS!Queued, QueueAt, HeadAt
  <2> QED
    BY <2>6, <2>8, Zenon
<1>3. ASSUME NEW h \in Harts, place[h] = "pass" PROVE place[nxt[h]] = "waitnode" /\ nlocked[nxt[h]] = 0
  <2>1. place[h] \in HeadAt
    BY <1>3, QPlaceFacts
  <2>2. h = q[1] /\ Len(q) > 0 /\ Len(q) \in Nat
    BY <1>0, <2>1, LineFacts, Zenon
  <2>3. nxt[h] = qnext[h] /\ nxt[h] # QS!None
    BY <1>0, <1>3, <2>2, Zenon DEF Line, Front
  <2>4. Len(q) # 1
    BY <1>0, <2>2, <2>3, Zenon DEF Line
  <2>5. 2 \in 1..Len(q) /\ 2 > 1 /\ 2 - 1 = 1
    <3>1. \A n \in Nat : n > 0 /\ n # 1 => 2 \in 1..n
      OBVIOUS
    <3>2. 2 > 1 /\ 2 - 1 = 1
      OBVIOUS
    <3> QED
      BY <2>2, <2>4, <3>1, <3>2, Zenon
  <2>6. Behind(h, q[2])
    BY <1>0, <2>2, <2>5, Zenon DEF Line
  <2> QED
    BY <2>3, <2>6, Zenon DEF Behind
<1>4. QS!PendingOwned
  <2>1. (pending = 1) <=> \E h \in Harts : place[h] \in PendAt
    BY Zenon DEF QInv, WordInv
  <2>2. (pending = 1) = (\E h \in Harts : place[h] \in {"unpend", "waitlocked", "take"})
    BY <2>1, Zenon DEF PendAt
  <2>3. PICK S : S = {h \in Harts : place[h] \in {"unpend", "waitlocked", "take"}}
    BY Zenon
  <2>4. \A x, y \in S : x = y
    BY <2>3, Zenon DEF QInv, WordInv, PendAt
  <2>5. Cardinality(S) <= 1
    BY <2>4, QAtMostOne, Zenon
  <2>6. (\E h \in Harts : place[h] = "take") => locked = 0 /\ ~\E h \in Harts : place[h] = "setlocked"
    BY Zenon DEF QInv, WordInv
  <2> QED
    BY <2>2, <2>3, <2>5, <2>6, SameCount, Zenon DEF QS!PendingOwned
<1> QED
  BY <1>1, <1>2, <1>3, <1>4, Zenon DEF QS!QNodeAlive

(* The queued spin lock is held by one hart at a time, writes to nobody's    *)
(* node but those of harts in the queue, and gives its pending bit to one    *)
(* hart at a time, whatever the number of harts.                             *)
THEOREM QSpinIsSafe ==
  ASSUME QConstants
  PROVE  QS!Spec => [](QS!QMutualExclusion /\ QS!QNodeAlive /\ QS!PendingOwned)
<1>1. QS!Init => QInv
  BY QInit
<1>2. QInv /\ [QS!Next]_(QS!vars) => QInv'
  BY QStep
<1>3. QInv => QS!QMutualExclusion /\ QS!QNodeAlive /\ QS!PendingOwned
  BY QImplied
<1> QED
  BY <1>1, <1>2, <1>3, PTL DEF QS!Spec
=============================================================================
