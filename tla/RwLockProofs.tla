---------------------------- MODULE RwLockProofs ----------------------------
(***************************************************************************)
(* Proofs about the two reader-writer locks, the sleeping one               *)
(* (RwSleepMutex) and the spinning one (RwSpinMutex).                       *)
(*                                                                          *)
(* RwSleepMutex, for every set of tasks: a writer is alone, the status      *)
(* counts the owners, and a reader waits only behind a writer.              *)
(***************************************************************************)
EXTENDS RwSleepMutex, Integers, FiniteSetTheorems, TLAPS

(* The types, without a bound on the number of readers. *)
Types ==
  /\ status \in Int /\ status >= Unique
  /\ shared \in Seq(Tasks) /\ unique \in Seq(Tasks)
  /\ mode \in [Tasks -> Modes] /\ granted \in [Tasks -> BOOLEAN]
  /\ next \in [Tasks -> Tasks] /\ pc \in [Tasks -> PCs] /\ notified \in [Tasks -> BOOLEAN]

(* t waits in mode m and does not have the lock. *)
Waiting(t, m) == mode[t] = m /\ pc[t] \in Waits /\ ~granted[t]

(* The queues hold the nodes of tasks that wait, once each. *)
QueueInv ==
  /\ IsInjective(shared) /\ IsInjective(unique)
  /\ \A t \in Range(shared) : Waiting(t, "shared")
  /\ \A t \in Range(unique) : Waiting(t, "unique")

(* A grant waits for its poll; a hand-over has a target of its own, which    *)
(* waits and has left the queue.                                             *)
NodeInv ==
  /\ \A t \in Tasks :
       /\ granted[t] => pc[t] \in Waits
       /\ pc[t] = "grant" => Waiting(next[t], "unique") /\ next[t] \notin Range(unique)
       /\ pc[t] = "wake" => next[t] # t
  /\ \A s, t \in Tasks : pc[s] = "grant" /\ pc[t] = "grant" /\ next[s] = next[t] => s = t

(* The lock has readers, as many as the status says, or one writer. *)
OwnInv ==
  /\ status = Unique => Owners("shared") = {} /\ \E o \in Tasks : Owners("unique") = {o}
  /\ status >= 0 => /\ Owners("unique") = {}
                    /\ IsFiniteSet(Owners("shared")) /\ Cardinality(Owners("shared")) = status

IInv == Types /\ QueueInv /\ NodeInv /\ OwnInv /\ NoNeedlessWait

-----------------------------------------------------------------------------
(* A node joins the end of a queue. *)
LEMMA AppendFacts ==
  ASSUME NEW q \in Seq(Tasks), NEW t \in Tasks, IsInjective(q), t \notin Range(q)
  PROVE  /\ Append(q, t) \in Seq(Tasks) /\ Append(q, t) # <<>>
         /\ IsInjective(Append(q, t))
         /\ \A x : x \in Range(Append(q, t)) <=> x \in Range(q) \/ x = t
<1> DEFINE r == Append(q, t)
<1>1. /\ r \in Seq(Tasks) /\ r # <<>> /\ Len(q) \in Nat
      /\ DOMAIN q = 1..Len(q) /\ DOMAIN r = 1..(Len(q) + 1)
      /\ \A i \in 1..Len(q) : r[i] = q[i]
      /\ r[Len(q) + 1] = t
  OBVIOUS
<1> HIDE DEF r
<1>2. \A i \in DOMAIN r : i \in DOMAIN q \/ i = Len(q) + 1
  BY <1>1
<1>3. \A i \in DOMAIN q : q[i] # t
  BY Zenon DEF Range
<1>4. IsInjective(r)
  BY <1>1, <1>2, <1>3, Zenon DEF IsInjective
<1>5. \A x : x \in Range(r) <=> x \in Range(q) \/ x = t
  <2>1. \A x : x \in Range(r) => x \in Range(q) \/ x = t
    BY <1>1, <1>2, Zenon DEF Range
  <2>2. \A x : x \in Range(q) => x \in Range(r)
    BY <1>1 DEF Range
  <2>3. t \in Range(r)
    BY <1>1 DEF Range
  <2> QED
    BY <2>1, <2>2, <2>3, Zenon
<1> QED
  BY <1>1, <1>4, <1>5, Zenon DEF r

(* The first node leaves a queue. *)
LEMMA TailFacts ==
  ASSUME NEW q \in Seq(Tasks), IsInjective(q), q # <<>>
  PROVE  /\ Tail(q) \in Seq(Tasks) /\ IsInjective(Tail(q))
         /\ Head(q) \in Range(q) /\ Head(q) \in Tasks
         /\ \A x : x \in Range(Tail(q)) <=> x \in Range(q) /\ x # Head(q)
<1> DEFINE r == Tail(q)
<1>1. /\ r \in Seq(Tasks) /\ Head(q) \in Tasks /\ Head(q) = q[1]
      /\ Len(q) \in Nat /\ Len(q) > 0
      /\ DOMAIN q = 1..Len(q) /\ DOMAIN r = 1..(Len(q) - 1)
      /\ \A i \in 1..(Len(q) - 1) : r[i] = q[i + 1]
  OBVIOUS
<1> HIDE DEF r
<1>2. \A i \in DOMAIN r : i + 1 \in DOMAIN q /\ i + 1 # 1 /\ r[i] = q[i + 1] /\ i \in Int
  BY <1>1
<1>3. \A i \in DOMAIN q : i = 1 \/ (i - 1 \in DOMAIN r /\ r[i - 1] = q[i])
  BY <1>1
<1>4. IsInjective(r)
  BY <1>2 DEF IsInjective
<1>5. 1 \in DOMAIN q
  BY <1>1
<1>6. \A x : x \in Range(r) => x \in Range(q) /\ x # q[1]
  BY <1>2, <1>5 DEF Range, IsInjective
<1>7. \A x : x \in Range(q) /\ x # q[1] => x \in Range(r)
  BY <1>3 DEF Range
<1>8. q[1] \in Range(q)
  BY <1>5, Zenon DEF Range
<1> QED
  BY <1>1, <1>4, <1>6, <1>7, <1>8, Zenon DEF r

(* An empty queue. *)
LEMMA EmptyFacts ==
  /\ <<>> \in Seq(Tasks) /\ IsInjective(<<>>) /\ Range(<<>>) = {} /\ Len(<<>>) = 0
  /\ \A q \in Seq(Tasks) : Len(q) \in Nat /\ (Len(q) = 0 <=> q = <<>>) /\ Range(q) \subseteq Tasks
  BY DEF IsInjective, Range

(* A queue counts its nodes. *)
LEMMA CountFacts ==
  ASSUME NEW q \in Seq(Tasks), IsInjective(q)
  PROVE  IsFiniteSet(Range(q)) /\ Cardinality(Range(q)) = Len(q)
<1>1. q \in [1..Len(q) -> Range(q)] /\ Len(q) \in Nat
  BY DEF Range
<1>2. q \in Bijection(1..Len(q), Range(q))
  BY <1>1, Zenon DEF Bijection, Injection, Surjection, IsInjective, Range
<1>3. ExistsBijection(1..Len(q), Range(q))
  BY <1>2, Zenon DEF ExistsBijection
<1> QED
  BY <1>1, <1>3, FS_NatBijection, FS_CountingElements, Zenon

-----------------------------------------------------------------------------
Has(t) == pc[t] = "hold" \/ granted[t]

NoTarget(t) == \A s \in Tasks : pc[s] = "grant" => next[s] # t

Unqueued(t) == t \notin Range(shared) /\ t \notin Range(unique)

(* A step that moves task t and no other, outside of hand-overs. *)
OneTask(t) ==
  /\ \A s \in Tasks \ {t} : pc'[s] = pc[s] /\ mode'[s] = mode[s] /\ granted'[s] = granted[s]
  /\ next' = next
  /\ pc[t] # "grant" /\ pc'[t] \notin {"grant", "wake"}
  /\ granted'[t] => pc'[t] \in Waits

(* Who is out, has a guard or has a grant is in no queue and no target. *)
LEMMA Apart ==
  ASSUME Types, QueueInv, NodeInv, NEW t \in Tasks, pc[t] \notin Waits \/ granted[t]
  PROVE  Unqueued(t) /\ NoTarget(t)
  BY DEF QueueInv, NodeInv, Waiting, Unqueued, NoTarget

(* The queues are left alone. *)
LEMMA QueueOne ==
  ASSUME Types, QueueInv, NEW t \in Tasks, OneTask(t), UNCHANGED <<shared, unique>>,
         Unqueued(t) \/ (mode'[t] = mode[t] /\ pc'[t] \in Waits /\ ~granted'[t])
  PROVE  QueueInv'
<1>1. \A x \in Range(shared) : Waiting(x, "shared")'
  BY EmptyFacts, Zenon DEF Types, QueueInv, OneTask, Unqueued, Waiting
<1>2. \A x \in Range(unique) : Waiting(x, "unique")'
  BY EmptyFacts, Zenon DEF Types, QueueInv, OneTask, Unqueued, Waiting
<1> QED
  BY <1>1, <1>2, Zenon DEF QueueInv

(* The hand-overs are left alone. *)
LEMMA NodeOne ==
  ASSUME Types, NodeInv, NEW t \in Tasks, OneTask(t),
         NoTarget(t) \/ (mode'[t] = mode[t] /\ pc'[t] \in Waits /\ ~granted'[t] /\ unique' = unique),
         \A x \in Range(unique') : x \in Range(unique) \/ x = t
  PROVE  NodeInv'
<1>1. \A s \in Tasks : pc'[s] = "grant" => s # t /\ pc[s] = "grant"
  BY Zenon DEF OneTask
<1>2. \A s \in Tasks : pc'[s] = "wake" => s # t /\ pc[s] = "wake"
  BY Zenon DEF OneTask
<1>3. \A s \in Tasks : granted'[s] => pc'[s] \in Waits
  BY Zenon DEF OneTask, NodeInv
<1>4. ASSUME NEW s \in Tasks, pc'[s] = "grant"
      PROVE  Waiting(next[s], "unique")' /\ next'[s] \notin Range(unique')
  <2>0. pc[s] = "grant" /\ next'[s] = next[s] /\ next[s] \in Tasks
    BY <1>1, <1>4, Zenon DEF OneTask, Types
  <2>1. Waiting(next[s], "unique") /\ next[s] \notin Range(unique)
    BY <2>0, Zenon DEF NodeInv
  <2>2. CASE next[s] # t
    BY <2>0, <2>1, <2>2 DEF OneTask, Waiting
  <2>3. CASE next[s] = t
    BY <2>0, <2>1, <2>3, Zenon DEF NoTarget, Waiting
  <2> QED
    BY <2>2, <2>3, Zenon
<1>5. \A s, r \in Tasks : pc'[s] = "grant" /\ pc'[r] = "grant" /\ next'[s] = next'[r] => s = r
  BY <1>1 DEF OneTask, NodeInv
<1>6. \A s \in Tasks : pc'[s] = "wake" => next'[s] # s
  BY <1>2, Zenon DEF OneTask, NodeInv
<1> QED
  BY <1>3, <1>4, <1>5, <1>6, Zenon DEF NodeInv

(* The owners but for t stay. *)
LEMMA OwnOne ==
  ASSUME Types, NEW t \in Tasks, OneTask(t), NoTarget(t), NEW m \in Modes
  PROVE  \A x : x \in Owners(m)' <=> (x \in Owners(m) /\ x # t) \/ (x = t /\ mode'[t] = m /\ Has(t)')
<1>1. \A s \in Tasks : pc'[s] = "grant" <=> pc[s] = "grant"
  BY Zenon DEF OneTask
<1>2. \A x : (\E s \in Tasks : pc'[s] = "grant" /\ next'[s] = x) <=> (\E s \in Tasks : pc[s] = "grant" /\ next[s] = x)
  BY <1>1, Zenon DEF OneTask
<1>3. ~ \E s \in Tasks : pc[s] = "grant" /\ next[s] = t
  BY Zenon DEF NoTarget
<1> QED
  BY <1>2, <1>3 DEF OneTask, Owners, Has

(* All owners stay. *)
LEMMA OwnSame ==
  ASSUME Types, NEW t \in Tasks, OneTask(t), mode'[t] = mode[t], Has(t)' <=> Has(t), NEW m \in Modes
  PROVE  Owners(m)' = Owners(m)
<1>1. \A s \in Tasks : pc'[s] = "grant" <=> pc[s] = "grant"
  BY Zenon DEF OneTask
<1>2. \A x : (\E s \in Tasks : pc'[s] = "grant" /\ next'[s] = x) <=> (\E s \in Tasks : pc[s] = "grant" /\ next[s] = x)
  BY <1>1, Zenon DEF OneTask
<1>3. \A x \in Tasks : (mode'[x] = m /\ Has(x)') <=> (mode[x] = m /\ Has(x))
  BY Zenon DEF OneTask, Has
<1> QED
  BY <1>2, <1>3 DEF Owners, Has

-----------------------------------------------------------------------------
(* A guard or a grant in mode m for t, who was out. *)
Takes(t, m) ==
  /\ pc[t] = "out" /\ mode' = [mode EXCEPT ![t] = m] /\ UNCHANGED <<shared, unique, next, notified>>
  /\ \/ pc' = [pc EXCEPT ![t] = "hold"] /\ UNCHANGED granted
     \/ pc' = [pc EXCEPT ![t] = "poll"] /\ granted' = [granted EXCEPT ![t] = TRUE]

(* What a lock that is given says of everything but the status. *)
LEMMA TakesFacts ==
  ASSUME IInv, NEW t \in Tasks, NEW m \in Modes, Takes(t, m), status' \in Int, status' >= Unique
  PROVE  /\ Types' /\ QueueInv' /\ NodeInv' /\ t \notin Owners("shared") /\ t \notin Owners("unique")
         /\ \A k \in Modes : \A x : x \in Owners(k)' <=> x \in Owners(k) \/ (x = t /\ m = k)
<1>0. Types /\ QueueInv /\ NodeInv
  BY Zenon DEF IInv
<1>1. Unqueued(t) /\ NoTarget(t)
  BY <1>0, Apart, Zenon DEF Takes, Waits
<1>2. Types'
  BY <1>0, Zenon DEF Types, Takes, PCs, Waits
<1>3. pc'[t] \in {"hold", "poll"} /\ (granted'[t] => pc'[t] = "poll") /\ Has(t)' /\ mode'[t] = m /\ ~Has(t)
  BY <1>0, Zenon DEF Types, Takes, NodeInv, Has, Waits
<1>4. \A s \in Tasks \ {t} : pc'[s] = pc[s] /\ mode'[s] = mode[s] /\ granted'[s] = granted[s]
  BY <1>0, Zenon DEF Types, Takes
<1>5. OneTask(t)
  BY <1>3, <1>4, Zenon DEF OneTask, Takes, Waits
<1>6. QueueInv'
  BY <1>0, <1>1, <1>5, QueueOne DEF Takes
<1>7. NodeInv'
  BY <1>0, <1>1, <1>5, NodeOne, Zenon DEF Takes
<1>8. t \notin Owners("shared") /\ t \notin Owners("unique")
  BY <1>1, <1>3 DEF Owners, Has, NoTarget
<1>9. \A k \in Modes : \A x : x \in Owners(k)' <=> x \in Owners(k) \/ (x = t /\ m = k)
  <2> SUFFICES ASSUME NEW k \in Modes
               PROVE  \A x : x \in Owners(k)' <=> x \in Owners(k) \/ (x = t /\ m = k)
    OBVIOUS
  <2>1. \A x : x \in Owners(k)' <=> (x \in Owners(k) /\ x # t) \/ (x = t /\ mode'[t] = k /\ Has(t)')
    BY <1>0, <1>1, <1>5, OwnOne, Zenon
  <2>2. t \notin Owners(k)
    BY <1>8, Zenon DEF Modes
  <2> QED
    BY <1>3, <2>1, <2>2, Zenon
<1> QED
  BY <1>2, <1>6, <1>7, <1>8, <1>9, Zenon

(* A reader gets the lock. *)
LEMMA ReaderIn ==
  ASSUME IInv, NEW t \in Tasks, Takes(t, "shared"), SharedAllowed, status' = status + 1
  PROVE  IInv'
<1>0. Types /\ OwnInv /\ NoNeedlessWait /\ status \in Int /\ status >= 0
  BY DEF IInv, SharedAllowed, Types, Unlock
<1>1. /\ Types' /\ QueueInv' /\ NodeInv' /\ t \notin Owners("shared")
      /\ \A k \in Modes : \A x : x \in Owners(k)' <=> x \in Owners(k) \/ (x = t /\ "shared" = k)
  BY <1>0, TakesFacts DEF Modes, Unique
<1>2. Owners("unique")' = {} /\ Owners("shared")' = Owners("shared") \cup {t}
  BY <1>0, <1>1, Zenon DEF OwnInv, Modes
<1>3. IsFiniteSet(Owners("shared")) /\ Cardinality(Owners("shared")) = status
  BY <1>0, Zenon DEF OwnInv
<1>4. IsFiniteSet(Owners("shared")') /\ Cardinality(Owners("shared")') = status + 1
  BY <1>1, <1>2, <1>3, FS_AddElement
<1>5. OwnInv'
  BY <1>0, <1>2, <1>4 DEF OwnInv, Unique
<1>6. NoNeedlessWait'
  BY <1>0, Zenon DEF NoNeedlessWait, Takes, SharedAllowed, Unlock
<1> QED
  BY <1>1, <1>5, <1>6, Zenon DEF IInv

(* A writer gets the free lock. *)
LEMMA WriterIn ==
  ASSUME IInv, NEW t \in Tasks, Takes(t, "unique"), status = Unlock, status' = Unique
  PROVE  IInv'
<1>0. Types /\ OwnInv /\ NoNeedlessWait
  BY Zenon DEF IInv
<1>1. /\ Types' /\ QueueInv' /\ NodeInv'
      /\ \A k \in Modes : \A x : x \in Owners(k)' <=> x \in Owners(k) \/ (x = t /\ "unique" = k)
  BY <1>0, TakesFacts DEF Modes, Unique
<1>2. Owners("unique") = {} /\ IsFiniteSet(Owners("shared")) /\ Cardinality(Owners("shared")) = 0
  BY <1>0 DEF OwnInv, Unlock
<1>3. Owners("shared") = {}
  BY <1>2, FS_EmptySet, Zenon
<1>4. Owners("unique")' = {t} /\ Owners("shared")' = {}
  BY <1>1, <1>2, <1>3, Zenon DEF Modes
<1>5. OwnInv'
  BY <1>4 DEF OwnInv, Unique
<1>6. NoNeedlessWait'
  BY DEF NoNeedlessWait, Unique, Unlock
<1> QED
  BY <1>1, <1>5, <1>6, Zenon DEF IInv

(* t, who was out, joins a queue. *)
Joins(t, m) ==
  /\ pc[t] = "out" /\ mode' = [mode EXCEPT ![t] = m] /\ pc' = [pc EXCEPT ![t] = "poll"]
  /\ shared' = IF m = "shared" THEN Append(shared, t) ELSE shared
  /\ unique' = IF m = "unique" THEN Append(unique, t) ELSE unique
  /\ UNCHANGED <<status, granted, next, notified>>

(* What a wait that begins says of everything but who must wait. *)
LEMMA JoinsFacts ==
  ASSUME IInv, NEW t \in Tasks, NEW m \in Modes, Joins(t, m)
  PROVE  Types' /\ QueueInv' /\ NodeInv' /\ OwnInv' /\ (IF m = "shared" THEN shared' ELSE unique') # <<>>
<1>0. Types /\ QueueInv /\ NodeInv /\ OwnInv
  BY Zenon DEF IInv
<1>1. Unqueued(t) /\ NoTarget(t)
  BY <1>0, Apart, Zenon DEF Joins, Waits
<1>2. /\ shared \in Seq(Tasks) /\ IsInjective(shared) /\ t \notin Range(shared)
      /\ unique \in Seq(Tasks) /\ IsInjective(unique) /\ t \notin Range(unique)
  BY <1>0, <1>1, Zenon DEF Types, QueueInv, Unqueued
<1>3. /\ shared' \in Seq(Tasks) /\ IsInjective(shared')
      /\ \A x : x \in Range(shared') <=> x \in Range(shared) \/ (x = t /\ m = "shared")
      /\ m = "shared" => shared' # <<>>
  <2>1. CASE m = "shared"
    BY <1>2, <2>1, AppendFacts, Zenon DEF Joins
  <2>2. CASE m # "shared"
    BY <1>2, <2>2 DEF Joins
  <2> QED
    BY <2>1, <2>2
<1>4. /\ unique' \in Seq(Tasks) /\ IsInjective(unique')
      /\ \A x : x \in Range(unique') <=> x \in Range(unique) \/ (x = t /\ m = "unique")
      /\ m = "unique" => unique' # <<>>
  <2>1. CASE m = "unique"
    BY <1>2, <2>1, AppendFacts, Zenon DEF Joins
  <2>2. CASE m # "unique"
    BY <1>2, <2>2, Zenon DEF Joins
  <2> QED
    BY <2>1, <2>2, Zenon
<1>5. Types'
  <2>1. mode' \in [Tasks -> Modes] /\ pc' \in [Tasks -> PCs]
    BY <1>0, Zenon DEF Types, Joins, PCs, Waits
  <2> QED
    BY <1>0, <1>3, <1>4, <2>1, Zenon DEF Types, Joins
<1>6. pc'[t] = "poll" /\ mode'[t] = m /\ granted'[t] = granted[t]
  BY <1>0 DEF Types, Joins
<1>7. ~granted[t] /\ ~Has(t)
  BY <1>0, Zenon DEF Joins, NodeInv, Has, Waits
<1>8. \A s \in Tasks \ {t} : pc'[s] = pc[s] /\ mode'[s] = mode[s] /\ granted'[s] = granted[s]
  BY <1>0, Zenon DEF Types, Joins
<1>9. OneTask(t)
  BY <1>6, <1>7, <1>8, Zenon DEF OneTask, Joins, Waits
<1>10. QueueInv'
  <2>1. Waiting(t, m)'
    BY <1>6, <1>7, Zenon DEF Waiting, Waits
  <2>2. \A x \in Range(shared) : x \in Tasks /\ x # t
    BY <1>2, EmptyFacts
  <2>3. \A x \in Range(unique) : x \in Tasks /\ x # t
    BY <1>2, EmptyFacts, Zenon
  <2>4. \A x \in Range(shared) : Waiting(x, "shared")'
    BY <1>0, <1>8, <2>2 DEF QueueInv, Waiting
  <2>5. \A x \in Range(unique) : Waiting(x, "unique")'
    BY <1>0, <1>8, <2>3, Zenon DEF QueueInv, Waiting
  <2> QED
    BY <1>3, <1>4, <2>1, <2>4, <2>5 DEF QueueInv
<1>11. NodeInv'
  BY <1>0, <1>1, <1>4, <1>9, NodeOne
<1>12. \A k \in Modes : Owners(k)' = Owners(k)
  <2> SUFFICES ASSUME NEW k \in Modes PROVE Owners(k)' = Owners(k)
    BY Zenon
  <2>1. \A x : x \in Owners(k)' <=> (x \in Owners(k) /\ x # t) \/ (x = t /\ mode'[t] = k /\ Has(t)')
    BY <1>0, <1>1, <1>9, OwnOne, Zenon
  <2>2. t \notin Owners(k)
    BY <1>1, <1>7, Zenon DEF Owners, Has, NoTarget
  <2>3. ~Has(t)'
    BY <1>6, <1>7, Zenon DEF Has
  <2> QED
    BY <2>1, <2>2, <2>3, Zenon
<1>13. OwnInv'
  BY <1>0, <1>12 DEF OwnInv, Modes, Joins
<1> QED
  BY <1>3, <1>4, <1>5, <1>10, <1>11, <1>13, Zenon DEF Modes

(* A waiting task polls its node or goes to sleep. *)
LEMMA Waited ==
  ASSUME IInv, NEW t \in Tasks, poll(t) \/ park(t)
  PROVE  IInv'
<1>0. Types /\ QueueInv /\ NodeInv /\ OwnInv /\ NoNeedlessWait
  BY Zenon DEF IInv
<1>1. UNCHANGED <<status, shared, unique, mode, next>> /\ pc[t] \in Waits
  BY Zenon DEF poll, park, Waits
<1>2. /\ \E l \in {"hold", "park", "poll", "parked"} : pc' = [pc EXCEPT ![t] = l]
      /\ granted' = granted \/ granted' = [granted EXCEPT ![t] = FALSE]
      /\ notified' = notified \/ notified' = [notified EXCEPT ![t] = FALSE]
  BY Zenon DEF poll, park, Goto
<1>3. Types'
  <2>1. pc' \in [Tasks -> PCs]
    BY <1>0, <1>2, Zenon DEF Types, PCs, Waits
  <2>2. granted' \in [Tasks -> BOOLEAN] /\ notified' \in [Tasks -> BOOLEAN]
    BY <1>0, <1>2, Zenon DEF Types
  <2> QED
    BY <1>0, <1>1, <2>1, <2>2, Zenon DEF Types
<1>4. \A s \in Tasks \ {t} : pc'[s] = pc[s] /\ mode'[s] = mode[s] /\ granted'[s] = granted[s]
  BY <1>0, <1>1, <1>2 DEF Types
<1>5. \/ granted[t] /\ pc'[t] = "hold" /\ ~granted'[t]
      \/ (granted'[t] <=> granted[t]) /\ pc'[t] \in Waits
  <2>1. CASE poll(t) /\ granted[t]
    BY <1>0, <2>1, Zenon DEF Types, poll, Goto
  <2>2. CASE poll(t) /\ ~granted[t]
    BY <1>0, <2>2, Zenon DEF Types, poll, Goto, Waits
  <2>3. CASE park(t)
    BY <1>0, <2>3, Zenon DEF Types, park, Goto, Waits
  <2> QED
    BY <2>1, <2>2, <2>3, Zenon
<1>6. OneTask(t)
  BY <1>1, <1>4, <1>5 DEF OneTask, Waits
<1>7. (Unqueued(t) /\ NoTarget(t)) \/ (mode'[t] = mode[t] /\ pc'[t] \in Waits /\ ~granted'[t])
  BY <1>0, <1>1, <1>5, Apart, Zenon
<1>8. QueueInv'
  BY <1>0, <1>1, <1>6, <1>7, QueueOne
<1>9. NodeInv'
  BY <1>0, <1>1, <1>6, <1>7, NodeOne
<1>10. mode'[t] = mode[t] /\ (Has(t)' <=> Has(t))
  BY <1>1, <1>5 DEF Has, Waits
<1>11. Owners("shared")' = Owners("shared") /\ Owners("unique")' = Owners("unique")
  BY <1>0, <1>6, <1>10, OwnSame, Zenon DEF Modes
<1>12. OwnInv' /\ NoNeedlessWait'
  BY <1>0, <1>1, <1>11 DEF OwnInv, NoNeedlessWait
<1> QED
  BY <1>3, <1>8, <1>9, <1>12, Zenon DEF IInv

-----------------------------------------------------------------------------
(* What is known of the owners when t drops its guard. *)
LEMMA Holder ==
  ASSUME IInv, NEW t \in Tasks, pc[t] = "hold"
  PROVE  /\ mode[t] = "shared" => status > 0 /\ (status = 1 => Owners("shared") = {t}) /\ Owners("unique") = {}
         /\ mode[t] = "unique" => status = Unique /\ Owners("unique") = {t} /\ Owners("shared") = {}
         /\ Unqueued(t) /\ NoTarget(t) /\ ~granted[t]
<1>0. Types /\ QueueInv /\ NodeInv /\ OwnInv
  BY Zenon DEF IInv
<1>1. Unqueued(t) /\ NoTarget(t)
  BY <1>0, Apart, Zenon DEF Waits
<1>2. ~granted[t]
  BY <1>0, Zenon DEF NodeInv, Waits
<1>3. status = Unique \/ status >= 0
  BY <1>0 DEF Types, Unique
<1>4. CASE mode[t] = "shared"
  <2>1. t \in Owners("shared")
    BY <1>4 DEF Owners
  <2>2. status >= 0 /\ status # Unique
    BY <1>0, <1>3, <2>1, Zenon DEF OwnInv, Unique
  <2>3. /\ Owners("unique") = {}
        /\ IsFiniteSet(Owners("shared")) /\ Cardinality(Owners("shared")) = status
    BY <1>0, <2>2 DEF OwnInv
  <2>4. status # 0
    BY <2>1, <2>3, FS_EmptySet, Zenon
  <2>5. ASSUME status = 1 PROVE Owners("shared") = {t}
    <3>1. \E x : Owners("shared") = {x}
      BY <2>3, <2>5, FS_Singleton, Zenon
    <3> QED
      BY <2>1, <3>1
  <2>6. status > 0
    BY <1>0, <2>2, <2>4 DEF Types
  <2> QED
    BY <1>1, <1>2, <1>4, <2>3, <2>5, <2>6, Zenon
<1>5. CASE mode[t] = "unique"
  <2>1. t \in Owners("unique")
    BY <1>5, Zenon DEF Owners
  <2>2. status = Unique
    BY <1>0, <1>3, <2>1 DEF OwnInv
  <2> QED
    BY <1>0, <1>1, <1>2, <1>5, <2>1, <2>2, Zenon DEF OwnInv
<1>6. mode[t] \in {"shared", "unique"}
  BY <1>0, Zenon DEF Types, Modes
<1> QED
  BY <1>4, <1>5, <1>6, Zenon

(* A reader leaves others inside. *)
LEMMA ReaderOut ==
  ASSUME IInv, NEW t \in Tasks, drop_shared(t), status > 1
  PROVE  IInv'
<1>0. Types /\ QueueInv /\ NodeInv /\ OwnInv /\ NoNeedlessWait
  BY Zenon DEF IInv
<1>1. /\ pc[t] = "hold" /\ mode[t] = "shared" /\ status' = status - 1 /\ pc' = [pc EXCEPT ![t] = "out"]
      /\ UNCHANGED <<shared, unique, mode, granted, next, notified>>
  BY Zenon DEF drop_shared, Goto
<1>2. Unqueued(t) /\ NoTarget(t) /\ ~granted[t] /\ Owners("unique") = {}
  BY <1>1, Holder, Zenon
<1>3. status \in Int /\ status' \in Int /\ status' > 0
  BY <1>0, <1>1 DEF Types
<1>4. Types'
  <2>1. pc' \in [Tasks -> PCs]
    BY <1>0, <1>1, Zenon DEF Types, PCs, Waits
  <2> QED
    BY <1>0, <1>1, <1>3, <2>1 DEF Types, Unique
<1>5. \A s \in Tasks \ {t} : pc'[s] = pc[s] /\ mode'[s] = mode[s] /\ granted'[s] = granted[s]
  BY <1>0, <1>1 DEF Types
<1>6. pc'[t] = "out" /\ ~granted'[t]
  BY <1>0, <1>1, <1>2, Zenon DEF Types
<1>7. OneTask(t)
  BY <1>1, <1>5, <1>6 DEF OneTask
<1>8. QueueInv' /\ NodeInv'
  BY <1>0, <1>1, <1>2, <1>7, QueueOne, NodeOne, Zenon
<1>9. \A k \in Modes : \A x : x \in Owners(k)' <=> x \in Owners(k) /\ x # t
  <2>1. ~Has(t)'
    BY <1>6, Zenon DEF Has
  <2> QED
    BY <1>0, <1>2, <1>7, <2>1, OwnOne
<1>10. Owners("unique")' = {} /\ Owners("shared")' = Owners("shared") \ {t}
  BY <1>2, <1>9 DEF Modes
<1>11. t \in Owners("shared") /\ IsFiniteSet(Owners("shared")) /\ Cardinality(Owners("shared")) = status
  BY <1>0, <1>1, <1>3 DEF Owners, OwnInv
<1>12. IsFiniteSet(Owners("shared")') /\ Cardinality(Owners("shared")') = status - 1
  BY <1>10, <1>11, FS_RemoveElement, Zenon
<1>13. OwnInv'
  BY <1>1, <1>3, <1>10, <1>12 DEF OwnInv, Unique
<1>14. NoNeedlessWait'
  BY <1>0, <1>1, <1>3 DEF NoNeedlessWait, Unlock
<1> QED
  BY <1>4, <1>8, <1>13, <1>14 DEF IInv

(* The last owner leaves the lock to all waiting readers. *)
LEMMA ReadersReleased ==
  ASSUME IInv, NEW t \in Tasks, pc[t] = "hold", release_shared(t), UNCHANGED mode,
         \A x \in Owners("shared") : x = t, \A x \in Owners("unique") : x = t,
         shared = <<>> => unique = <<>>
  PROVE  IInv'
<1>0. Types /\ QueueInv /\ NodeInv
  BY Zenon DEF IInv
<1>1. Unqueued(t) /\ NoTarget(t) /\ ~granted[t]
  BY Holder, Zenon
<1>2. /\ status' = Len(shared) /\ shared' = <<>> /\ UNCHANGED <<unique, mode, next>>
      /\ granted' = [s \in Tasks |-> granted[s] \/ s \in Range(shared)]
      /\ notified' = [s \in Tasks |-> notified[s] \/ (s \in Range(shared) /\ pc[s] # "parked")]
  BY Zenon DEF release_shared
<1>3. \A s \in Tasks : pc'[s] = IF s = t THEN "out" ELSE IF s \in Range(shared) /\ pc[s] = "parked" THEN "poll" ELSE pc[s]
  BY Zenon DEF release_shared
<1>4. \A s \in Tasks : granted'[s] <=> granted[s] \/ s \in Range(shared)
  BY <1>2, Zenon
<1>5. \A s \in Range(shared) : s \in Tasks /\ Waiting(s, "shared") /\ s # t
  BY <1>0, <1>1, EmptyFacts DEF Types, QueueInv, Unqueued
<1>6. Types'
  <2>1. pc' \in [Tasks -> PCs]
    <3>1. DOMAIN pc' = Tasks /\ pc' = [s \in Tasks |-> pc'[s]]
      BY Zenon DEF release_shared
    <3>2. \A s \in Tasks : pc'[s] \in PCs
      BY <1>0, <1>3, Zenon DEF Types, PCs, Waits
    <3> QED
      BY <3>1, <3>2, Zenon
  <2>2. granted' \in [Tasks -> BOOLEAN] /\ notified' \in [Tasks -> BOOLEAN]
    BY <1>2, Zenon
  <2>3. Len(shared) \in Int /\ Len(shared) >= Unique /\ shared' \in Seq(Tasks)
    BY <1>0, <1>2, EmptyFacts DEF Types, Unique
  <2> QED
    BY <1>0, <1>2, <2>1, <2>2, <2>3, Zenon DEF Types
<1>7. ASSUME NEW s \in Tasks, Waiting(s, "unique") PROVE Waiting(s, "unique")'
  <2>1. s # t /\ s \notin Range(shared)
    BY <1>5, <1>7, Zenon DEF Waiting, Waits
  <2> QED
    BY <1>2, <1>3, <1>4, <1>7, <2>1, Zenon DEF Waiting
<1>8. QueueInv'
  <2>1. IsInjective(shared') /\ Range(shared') = {}
    BY <1>2, EmptyFacts, Zenon
  <2>2. \A x \in Range(unique) : x \in Tasks /\ Waiting(x, "unique")
    BY <1>0, EmptyFacts DEF Types, QueueInv
  <2> QED
    BY <1>0, <1>2, <1>7, <2>1, <2>2, Zenon DEF QueueInv
<1>9. \A s \in Tasks : /\ pc'[s] = "grant" <=> pc[s] = "grant"
                       /\ pc'[s] = "wake" <=> pc[s] = "wake"
  BY <1>3, <1>5, Zenon DEF Waiting, Waits
<1>10. NodeInv'
  <2>1. \A s \in Tasks : granted'[s] => pc'[s] \in Waits
    BY <1>0, <1>1, <1>3, <1>4, <1>5 DEF NodeInv, Waiting, Waits
  <2>2. ASSUME NEW s \in Tasks, pc'[s] = "grant"
        PROVE  Waiting(next[s], "unique")' /\ next'[s] \notin Range(unique')
    <3>1. pc[s] = "grant" /\ next'[s] = next[s] /\ next[s] \in Tasks
      BY <1>0, <1>2, <1>9, <2>2, Zenon DEF Types
    <3>2. Waiting(next[s], "unique") /\ next[s] \notin Range(unique)
      BY <1>0, <3>1, Zenon DEF NodeInv
    <3>3. PICK n \in Tasks : n = next[s]
      BY <3>1, Zenon
    <3>4. Waiting(n, "unique")'
      BY <1>7, <3>2, <3>3
    <3> QED
      BY <1>2, <3>1, <3>2, <3>3, <3>4 DEF Waiting
  <2> QED
    BY <1>0, <1>2, <1>9, <2>1, <2>2 DEF NodeInv
<1>11. \A x : x \in Owners("shared")' <=> x \in Range(shared)
  <2>1. \A x \in Tasks : mode[x] = "shared" /\ (pc[x] = "hold" \/ granted[x]) => x = t
    BY Zenon DEF Owners
  <2>2. \A x : x \in Owners("shared")' <=> x \in Tasks /\ mode'[x] = "shared" /\ (pc'[x] = "hold" \/ granted'[x])
    BY Zenon DEF Owners
  <2>3. \A x \in Range(shared) : x \in Owners("shared")'
    BY <1>2, <1>4, <1>5, <2>2 DEF Waiting
  <2>4. \A x \in Tasks : pc'[x] = "hold" => pc[x] = "hold" /\ x # t
    BY <1>3, Zenon
  <2>5. ~granted'[t]
    BY <1>1, <1>4, <1>5
  <2>6. \A x : x \in Owners("shared")' => x \in Range(shared)
    BY <1>2, <1>4, <2>1, <2>2, <2>4, <2>5
  <2> QED
    BY <2>3, <2>6, Zenon
<1>12. \A x : x \notin Owners("unique")'
  BY <1>1, <1>2, <1>3, <1>4, <1>5, <1>9 DEF Owners, Waiting, Waits, NoTarget
<1>13. OwnInv'
  <2>1. IsFiniteSet(Range(shared)) /\ Cardinality(Range(shared)) = Len(shared)
    BY <1>0, CountFacts, Zenon DEF Types, QueueInv
  <2>2. Owners("shared")' = Range(shared) /\ Owners("unique")' = {}
    BY <1>11, <1>12, Zenon
  <2>3. Len(shared) # Unique
    BY <1>0, EmptyFacts DEF Types, Unique
  <2> QED
    BY <1>2, <2>1, <2>2, <2>3, Zenon DEF OwnInv
<1>14. NoNeedlessWait'
  <2>1. Len(shared) = 0 => shared = <<>>
    BY <1>0, EmptyFacts, Zenon DEF Types
  <2> QED
    BY <1>2, <2>1, Zenon DEF NoNeedlessWait, Unlock
<1> QED
  BY <1>6, <1>8, <1>10, <1>13, <1>14, Zenon DEF IInv

(* The last owner pops the first waiting writer. *)
LEMMA WriterPopped ==
  ASSUME IInv, NEW t \in Tasks, pc[t] = "hold", unique # <<>>, pop_unique(t), UNCHANGED mode,
         \A x \in Owners("shared") : x = t, \A x \in Owners("unique") : x = t
  PROVE  IInv'
<1>0. Types /\ QueueInv /\ NodeInv
  BY Zenon DEF IInv
<1>1. Unqueued(t) /\ NoTarget(t) /\ ~granted[t]
  BY Holder, Zenon
<1>2. PICK h : h = Head(unique)
  BY Zenon
<1>3. /\ status' = Unique /\ next' = [next EXCEPT ![t] = h] /\ unique' = Tail(unique)
      /\ pc' = [pc EXCEPT ![t] = "grant"] /\ UNCHANGED <<shared, mode, granted, notified>>
  BY <1>2, Zenon DEF pop_unique, Goto
<1>4. /\ unique' \in Seq(Tasks) /\ IsInjective(unique') /\ h \in Range(unique) /\ h \in Tasks
      /\ \A x : x \in Range(unique') <=> x \in Range(unique) /\ x # h
  <2>1. unique \in Seq(Tasks) /\ IsInjective(unique)
    BY <1>0 DEF Types, QueueInv
  <2> QED
    BY <1>2, <1>3, <2>1, TailFacts, Zenon
<1>5. Types'
  <2>1. pc' \in [Tasks -> PCs] /\ next' \in [Tasks -> Tasks]
    BY <1>0, <1>3, <1>4 DEF Types, PCs
  <2> QED
    BY <1>0, <1>3, <1>4, <2>1 DEF Types, Unique
<1>6. /\ \A s \in Tasks : pc'[s] = IF s = t THEN "grant" ELSE pc[s]
      /\ \A s \in Tasks : next'[s] = IF s = t THEN h ELSE next[s]
  BY <1>0, <1>3 DEF Types
<1>7. \A s \in Tasks : \A m \in Modes : Waiting(s, m) => Waiting(s, m)' /\ s # t
  BY <1>3, <1>6, Zenon DEF Waiting, Waits
<1>8. /\ \A x \in Range(shared) : x \in Tasks /\ Waiting(x, "shared")
      /\ \A x \in Range(unique) : x \in Tasks /\ Waiting(x, "unique")
  BY <1>0, EmptyFacts DEF Types, QueueInv
<1>9. QueueInv'
  BY <1>0, <1>3, <1>4, <1>7, <1>8, Zenon DEF QueueInv, Modes
<1>10. NodeInv'
  <2>1. \A s \in Tasks : granted'[s] => pc'[s] \in Waits
    BY <1>0, <1>1, <1>3, <1>6, Zenon DEF NodeInv
  <2>2. \A s \in Tasks : pc'[s] = "grant" /\ s # t => pc[s] = "grant" /\ next'[s] = next[s] /\ next[s] # h
    BY <1>0, <1>4, <1>6 DEF NodeInv
  <2>3. ASSUME NEW s \in Tasks, pc'[s] = "grant"
        PROVE  Waiting(next[s], "unique")' /\ next'[s] \notin Range(unique')
    <3>1. PICK n \in Tasks : n = next'[s]
      BY <1>5, Zenon DEF Types
    <3>2. Waiting(n, "unique") /\ n \notin Range(unique')
      BY <1>0, <1>4, <1>6, <1>8, <2>2, <2>3, <3>1 DEF NodeInv
    <3>3. Waiting(n, "unique")'
      BY <1>7, <3>2, Zenon DEF Modes
    <3> QED
      BY <3>1, <3>2, <3>3, Zenon DEF Waiting
  <2>4. \A s, r \in Tasks : pc'[s] = "grant" /\ pc'[r] = "grant" /\ next'[s] = next'[r] => s = r
    BY <1>0, <1>6, <2>2 DEF NodeInv
  <2>5. \A s \in Tasks : pc'[s] = "wake" => next'[s] # s
    BY <1>0, <1>6, Zenon DEF NodeInv
  <2> QED
    BY <2>1, <2>3, <2>4, <2>5, Zenon DEF NodeInv
<1>11. \A x : x \notin Owners("shared")'
  <2>1. \A x \in Tasks : mode[x] = "shared" /\ (pc[x] = "hold" \/ granted[x]) => x = t
    BY Zenon DEF Owners
  <2>2. ~granted'[t] /\ pc'[t] = "grant"
    BY <1>1, <1>3, <1>6, Zenon
  <2> QED
    BY <1>3, <1>6, <2>1, <2>2 DEF Owners
<1>12. \A x : x \in Owners("unique")' <=> x = h
  <2>1. /\ \A x \in Tasks : mode[x] = "unique" /\ (pc[x] = "hold" \/ granted[x]) => x = t
        /\ \A s \in Tasks : pc[s] # "grant"
    BY <1>0, <1>1, Zenon DEF Owners, Types, NoTarget
  <2>2. ~granted'[t] /\ pc'[t] = "grant" /\ next'[t] = h
    BY <1>1, <1>3, <1>6
  <2>3. \A s \in Tasks : pc'[s] = "grant" <=> s = t
    BY <1>6, <2>1, Zenon
  <2> QED
    BY <1>3, <1>4, <1>6, <2>1, <2>2, <2>3 DEF Owners
<1>13. OwnInv'
  <2>1. Owners("shared")' = {} /\ Owners("unique")' = {h}
    BY <1>11, <1>12, Zenon
  <2> QED
    BY <1>3, <1>4, <2>1 DEF OwnInv, Unique
<1>14. NoNeedlessWait'
  BY <1>3 DEF NoNeedlessWait, Unique, Unlock
<1> QED
  BY <1>5, <1>9, <1>10, <1>13, <1>14 DEF IInv

(* The popped writer is granted the lock. *)
LEMMA WriterGranted ==
  ASSUME IInv, NEW t \in Tasks, set_granted(t)
  PROVE  IInv'
<1>0. Types /\ QueueInv /\ NodeInv /\ OwnInv /\ NoNeedlessWait
  BY Zenon DEF IInv
<1>1. PICK n \in Tasks : n = next[t]
  BY <1>0, Zenon DEF Types
<1>2. /\ pc[t] = "grant" /\ granted' = [granted EXCEPT ![n] = TRUE] /\ pc' = [pc EXCEPT ![t] = "wake"]
      /\ UNCHANGED <<status, shared, unique, mode, next, notified>>
  BY <1>1, Zenon DEF set_granted, Goto
<1>3. Waiting(n, "unique") /\ n \notin Range(unique) /\ n # t
  BY <1>0, <1>1, <1>2, Zenon DEF NodeInv, Waiting, Waits
<1>4. Types'
  BY <1>0, <1>2, Zenon DEF Types, PCs
<1>5. /\ \A s \in Tasks : pc'[s] = IF s = t THEN "wake" ELSE pc[s]
      /\ \A s \in Tasks : granted'[s] <=> granted[s] \/ s = n
  <2>1. \A s \in Tasks : pc'[s] = IF s = t THEN "wake" ELSE pc[s]
    BY <1>0, <1>2, Zenon DEF Types
  <2>2. \A s \in Tasks : granted'[s] <=> granted[s] \/ s = n
    BY <1>0, <1>2, Zenon DEF Types
  <2> QED
    BY <2>1, <2>2, Zenon
<1>6. \A s \in Tasks : \A m \in Modes : Waiting(s, m) /\ s # n => Waiting(s, m)'
  BY <1>2, <1>5, Zenon DEF Waiting, Waits
<1>7. /\ \A x \in Range(shared) : x \in Tasks /\ x # n /\ Waiting(x, "shared")
      /\ \A x \in Range(unique) : x \in Tasks /\ x # n /\ Waiting(x, "unique")
  BY <1>0, <1>3, EmptyFacts DEF Types, QueueInv, Waiting
<1>8. QueueInv'
  BY <1>0, <1>2, <1>6, <1>7, Zenon DEF QueueInv, Modes
<1>9. \A s \in Tasks : pc'[s] = "grant" => pc[s] = "grant" /\ s # t /\ next[s] # n
  BY <1>0, <1>1, <1>2, <1>5 DEF NodeInv
<1>10. NodeInv'
  <2>1. \A s \in Tasks : granted'[s] => pc'[s] \in Waits
    BY <1>0, <1>2, <1>3, <1>5 DEF NodeInv, Waiting, Waits
  <2>2. ASSUME NEW s \in Tasks, pc'[s] = "grant"
        PROVE  Waiting(next[s], "unique")' /\ next'[s] \notin Range(unique')
    <3>1. PICK k \in Tasks : k = next[s]
      BY <1>0 DEF Types
    <3>2. Waiting(k, "unique") /\ k \notin Range(unique) /\ k # n
      BY <1>0, <1>9, <2>2, <3>1 DEF NodeInv
    <3>3. Waiting(k, "unique")'
      BY <1>6, <3>2 DEF Modes
    <3> QED
      BY <1>2, <3>1, <3>2, <3>3, Zenon DEF Waiting
  <2>3. \A s, r \in Tasks : pc'[s] = "grant" /\ pc'[r] = "grant" /\ next'[s] = next'[r] => s = r
    BY <1>0, <1>2, <1>9, Zenon DEF NodeInv
  <2>4. \A s \in Tasks : pc'[s] = "wake" => next'[s] # s
    BY <1>0, <1>1, <1>2, <1>3, <1>5 DEF NodeInv
  <2> QED
    BY <2>1, <2>2, <2>3, <2>4, Zenon DEF NodeInv
<1>11. Owners("shared")' = Owners("shared")
  BY <1>2, <1>3, <1>5 DEF Owners, Waiting
<1>12. Owners("unique")' = Owners("unique")
  <2>1. \A x : (\E s \in Tasks : pc[s] = "grant" /\ next[s] = x) <=> x = n \/ (\E s \in Tasks : pc'[s] = "grant" /\ next'[s] = x)
    BY <1>1, <1>2, <1>5, Zenon
  <2>2. \A x \in Tasks : mode'[x] = "unique" /\ (pc'[x] = "hold" \/ granted'[x]) <=> x = n \/ (mode[x] = "unique" /\ (pc[x] = "hold" \/ granted[x]))
    BY <1>2, <1>3, <1>5 DEF Waiting
  <2> QED
    BY <2>1, <2>2 DEF Owners
<1>13. OwnInv' /\ NoNeedlessWait'
  BY <1>0, <1>2, <1>11, <1>12, Zenon DEF OwnInv, NoNeedlessWait
<1> QED
  BY <1>4, <1>8, <1>10, <1>13, Zenon DEF IInv

(* The writer's task is woken, whatever it does by now. *)
LEMMA WriterWoken ==
  ASSUME IInv, NEW t \in Tasks, wake(t)
  PROVE  IInv'
<1>0. Types /\ QueueInv /\ NodeInv /\ OwnInv /\ NoNeedlessWait
  BY Zenon DEF IInv
<1>1. PICK n \in Tasks : n = next[t]
  BY <1>0, Zenon DEF Types
<1>2. /\ pc[t] = "wake" /\ pc' = [pc EXCEPT ![t] = "out", ![n] = IF @ = "parked" THEN "poll" ELSE @]
      /\ notified' = [notified EXCEPT ![n] = pc[n] # "parked"] /\ next' = [next EXCEPT ![t] = t]
      /\ UNCHANGED <<status, shared, unique, mode, granted>>
  BY <1>1 DEF wake
<1>3. n # t
  BY <1>0, <1>1, <1>2, Zenon DEF NodeInv
<1>4. /\ \A s \in Tasks : pc'[s] = IF s = t THEN "out" ELSE IF s = n /\ pc[s] = "parked" THEN "poll" ELSE pc[s]
      /\ \A s \in Tasks : s # t => next'[s] = next[s]
  BY <1>0, <1>2, <1>3 DEF Types
<1>5. Types'
  <2>1. pc' \in [Tasks -> PCs] /\ next' \in [Tasks -> Tasks]
    BY <1>0, <1>2, Zenon DEF Types, PCs, Waits
  <2>2. notified' \in [Tasks -> BOOLEAN]
    BY <1>0, <1>2, Zenon DEF Types
  <2> QED
    BY <1>0, <1>2, <2>1, <2>2, Zenon DEF Types
<1>w. pc[t] = "wake" /\ UNCHANGED <<status, shared, unique, mode, granted>>
  BY <1>2, Zenon
<1>6. /\ \A s \in Tasks : pc[s] \in Waits <=> pc'[s] \in Waits
      /\ \A s \in Tasks : \A l \in {"hold", "grant"} : pc[s] = l <=> pc'[s] = l
      /\ \A s \in Tasks : pc'[s] = "wake" => s # t /\ pc[s] = "wake"
  BY <1>w, <1>4, Zenon DEF Waits
<1>7. \A s \in Tasks : \A m \in Modes : Waiting(s, m)' <=> Waiting(s, m)
  BY <1>w, <1>6, Zenon DEF Waiting
<1>8. QueueInv'
  <2>1. /\ \A x \in Range(shared) : x \in Tasks /\ Waiting(x, "shared")
        /\ \A x \in Range(unique) : x \in Tasks /\ Waiting(x, "unique")
    BY <1>0, EmptyFacts DEF Types, QueueInv
  <2> QED
    BY <1>0, <1>w, <1>7, <2>1, Zenon DEF QueueInv, Modes
<1>9. NodeInv'
  <2>1. \A s \in Tasks : granted'[s] => pc'[s] \in Waits
    BY <1>0, <1>w, <1>6, Zenon DEF NodeInv
  <2>2. \A s \in Tasks : pc'[s] = "grant" => pc[s] = "grant" /\ next'[s] = next[s]
    BY <1>w, <1>4, <1>6, Zenon
  <2>3. ASSUME NEW s \in Tasks, pc'[s] = "grant"
        PROVE  Waiting(next[s], "unique")' /\ next'[s] \notin Range(unique')
    <3>1. PICK k \in Tasks : k = next[s]
      BY <1>0, Zenon DEF Types
    <3>2. Waiting(k, "unique") /\ k \notin Range(unique)
      BY <1>0, <2>2, <2>3, <3>1 DEF NodeInv
    <3>3. Waiting(k, "unique")'
      BY <1>7, <3>2, Zenon DEF Modes
    <3> QED
      BY <1>w, <2>2, <2>3, <3>1, <3>2, <3>3 DEF Waiting
  <2>4. \A s, r \in Tasks : pc'[s] = "grant" /\ pc'[r] = "grant" /\ next'[s] = next'[r] => s = r
    BY <1>0, <2>2 DEF NodeInv
  <2>5. \A s \in Tasks : pc'[s] = "wake" => next'[s] # s
    BY <1>0, <1>4, <1>6, Zenon DEF NodeInv
  <2> QED
    BY <2>1, <2>3, <2>4, <2>5, Zenon DEF NodeInv
<1>10. \A m \in Modes : Owners(m)' = Owners(m)
  <2>1. \A x : (\E s \in Tasks : pc[s] = "grant" /\ next[s] = x) <=> (\E s \in Tasks : pc'[s] = "grant" /\ next'[s] = x)
    BY <1>w, <1>4, <1>6, Zenon
  <2>2. \A x \in Tasks : pc[x] = "hold" <=> pc'[x] = "hold"
    BY <1>6, Zenon
  <2> QED
    BY <1>w, <2>1, <2>2 DEF Owners
<1>11. OwnInv' /\ NoNeedlessWait'
  BY <1>0, <1>w, <1>10, Zenon DEF OwnInv, NoNeedlessWait, Modes
<1> QED
  BY <1>5, <1>8, <1>9, <1>11, Zenon DEF IInv

-----------------------------------------------------------------------------
(* The free lock. *)
LEMMA InitInv == Init => IInv
<1> SUFFICES ASSUME Init PROVE IInv
  BY Zenon
<1>1. Types
  BY EmptyFacts DEF Init, Types, Unlock, Unique, Modes, PCs, Waits
<1>2. QueueInv
  BY EmptyFacts, Zenon DEF Init, QueueInv
<1>3. NodeInv
  BY Zenon DEF Init, NodeInv
<1>4. Owners("shared") = {} /\ Owners("unique") = {}
  BY Zenon DEF Init, Owners
<1>5. OwnInv
  BY <1>4, FS_EmptySet DEF OwnInv, Init, Unlock, Unique
<1>6. NoNeedlessWait
  BY Zenon DEF Init, NoNeedlessWait
<1> QED
  BY <1>1, <1>2, <1>3, <1>5, <1>6 DEF IInv

(* The lock attempts. *)
LEMMA Attempts ==
  ASSUME IInv, NEW t \in Tasks, try_shared_lock(t) \/ try_unique_lock(t) \/ shared_lock(t) \/ unique_lock(t)
  PROVE  IInv'
<1>0. Types /\ NoNeedlessWait
  BY Zenon DEF IInv
<1>1. CASE try_shared_lock(t)
  <2>1. Takes(t, "shared") /\ SharedAllowed /\ status' = status + 1
    BY <1>1 DEF try_shared_lock, Takes, Goto
  <2> QED
    BY <2>1, ReaderIn, Zenon
<1>2. CASE try_unique_lock(t)
  <2>1. Takes(t, "unique") /\ status = Unlock /\ status' = Unique
    BY <1>2 DEF try_unique_lock, Takes, Goto
  <2> QED
    BY <2>1, WriterIn, Zenon
<1>3. CASE shared_lock(t) /\ SharedAllowed
  <2>1. Takes(t, "shared") /\ status' = status + 1
    BY <1>3 DEF shared_lock, Takes, Goto
  <2> QED
    BY <1>3, <2>1, ReaderIn, Zenon
<1>4. CASE shared_lock(t) /\ ~SharedAllowed
  <2>1. Joins(t, "shared")
    BY <1>4, Zenon DEF shared_lock, Joins, Goto
  <2>2. Types' /\ QueueInv' /\ NodeInv' /\ OwnInv'
    BY <2>1, JoinsFacts, Zenon DEF Modes
  <2>3. NoNeedlessWait'
    <3>1. status' = status /\ unique' = unique
      BY <2>1, Zenon DEF Joins
    <3> QED
      BY <1>0, <1>4, <3>1 DEF NoNeedlessWait, SharedAllowed, Types, Unlock
  <2> QED
    BY <2>2, <2>3, Zenon DEF IInv
<1>5. CASE unique_lock(t) /\ status = Unlock
  <2>1. Takes(t, "unique") /\ status' = Unique
    BY <1>5 DEF unique_lock, Takes, Goto
  <2> QED
    BY <1>5, <2>1, WriterIn, Zenon
<1>6. CASE unique_lock(t) /\ status # Unlock
  <2>1. Joins(t, "unique")
    BY <1>6, Zenon DEF unique_lock, Joins, Goto
  <2>2. Types' /\ QueueInv' /\ NodeInv' /\ OwnInv' /\ unique' # <<>>
    BY <2>1, JoinsFacts, Zenon DEF Modes
  <2>3. NoNeedlessWait'
    BY <1>6, <2>1, <2>2 DEF NoNeedlessWait, Joins
  <2> QED
    BY <2>2, <2>3, Zenon DEF IInv
<1> QED
  BY <1>1, <1>2, <1>3, <1>4, <1>5, <1>6, Zenon

(* The drops of the guards. *)
LEMMA Drops ==
  ASSUME IInv, NEW t \in Tasks, drop_shared(t) \/ drop_unique(t)
  PROVE  IInv'
<1>0. Types /\ NoNeedlessWait
  BY Zenon DEF IInv
<1>1. CASE drop_shared(t) /\ status > 1
  BY <1>1, ReaderOut, Zenon
<1>2. CASE drop_shared(t) /\ ~(status > 1)
  <2>1. pc[t] = "hold" /\ mode[t] = "shared" /\ UNCHANGED mode
    BY <1>2, Zenon DEF drop_shared
  <2>2. status = 1 /\ Owners("shared") = {t} /\ Owners("unique") = {}
    BY <1>0, <1>2, <2>1, Holder DEF Types
  <2>3. CASE unique # <<>>
    <3>1. pop_unique(t)
      BY <1>2, <2>3, Zenon DEF drop_shared
    <3> QED
      BY <2>1, <2>2, <2>3, <3>1, WriterPopped
  <2>4. CASE unique = <<>>
    <3>1. release_shared(t)
      BY <1>2, <2>4, Zenon DEF drop_shared
    <3> QED
      BY <2>1, <2>2, <2>4, <3>1, ReadersReleased
  <2> QED
    BY <2>3, <2>4, Zenon
<1>3. CASE drop_unique(t)
  <2>1. pc[t] = "hold" /\ mode[t] = "unique" /\ UNCHANGED mode
    BY <1>3, Zenon DEF drop_unique
  <2>2. Owners("shared") = {} /\ Owners("unique") = {t}
    BY <2>1, Holder
  <2>3. CASE shared = <<>> /\ unique # <<>>
    <3>1. pop_unique(t)
      BY <1>3, <2>3, Zenon DEF drop_unique
    <3> QED
      BY <2>1, <2>2, <2>3, <3>1, WriterPopped
  <2>4. CASE ~(shared = <<>> /\ unique # <<>>)
    <3>1. release_shared(t)
      BY <1>3, <2>4, Zenon DEF drop_unique
    <3> QED
      BY <2>1, <2>2, <2>4, <3>1, ReadersReleased, Zenon
  <2> QED
    BY <2>3, <2>4, Zenon
<1> QED
  BY <1>1, <1>2, <1>3, Zenon

(* The invariant is inductive. *)
LEMMA StepInv == IInv /\ [Next]_vars => IInv'
<1> SUFFICES ASSUME IInv, [Next]_vars PROVE IInv'
  BY Zenon
<1>1. CASE UNCHANGED vars
  <2>1. UNCHANGED <<status, shared, unique, mode, granted, next, pc, notified>>
    BY <1>1, Zenon DEF vars
  <2>2. Types' /\ QueueInv' /\ NodeInv' /\ NoNeedlessWait'
    BY <2>1, Zenon DEF IInv, Types, QueueInv, NodeInv, NoNeedlessWait, Waiting
  <2>3. \A m \in Modes : Owners(m)' = Owners(m)
    BY <2>1, Zenon DEF Owners
  <2>4. OwnInv'
    BY <2>1, <2>3 DEF IInv, OwnInv, Modes
  <2> QED
    BY <2>2, <2>4, Zenon DEF IInv
<1>2. CASE Next
  <2>1. PICK t \in Tasks : \/ try_shared_lock(t) \/ try_unique_lock(t) \/ shared_lock(t) \/ unique_lock(t)
                           \/ Proceed(t)
    BY <1>2, Zenon DEF Next
  <2> QED
    BY <2>1, Attempts, Waited, Drops, WriterGranted, WriterWoken, Zenon DEF Proceed
<1> QED
  BY <1>1, <1>2, Zenon

(* For any tasks: a writer holds its guard alone; the status counts guards,   *)
(* grants and hand-overs exactly, so that the panics in the Drop of the two   *)
(* guards cannot fire; and a reader waits only behind a writer.               *)
THEOREM RwSleepMutexIsSafe == Spec => []RwSleepMutexSafe
<1>1. Init => IInv
  BY InitInv, Zenon
<1>2. IInv /\ [Next]_vars => IInv'
  BY StepInv, Zenon
<1>3. IInv => RwSleepMutexSafe
  <2> SUFFICES ASSUME IInv PROVE RwSleepMutexSafe
    BY Zenon
  <2>0. Types /\ OwnInv /\ NoNeedlessWait
    BY Zenon DEF IInv
  <2>1. Exclusion
    <3> SUFFICES ASSUME NEW s \in Tasks, NEW t \in Tasks, pc[s] = "hold", pc[t] = "hold", mode[s] = "unique"
                 PROVE  s = t
      BY Zenon DEF Exclusion
    <3>1. Owners("unique") = {s} /\ Owners("shared") = {}
      BY Holder, Zenon
    <3>2. t \in Owners("unique") \/ t \in Owners("shared")
      BY <2>0, Zenon DEF Owners, Types, Modes
    <3> QED
      BY <3>1, <3>2, Zenon
  <2>2. StatusExact
    <3>1. CASE status = Unique
      <4>1. PICK o \in Tasks : Owners("unique") = {o}
        BY <2>0, <3>1, Zenon DEF OwnInv
      <4>2. Cardinality(Owners("unique")) = 1
        BY <4>1, FS_Singleton, Zenon
      <4>3. Cardinality(Owners("shared")) = 0
        BY <2>0, <3>1, FS_EmptySet DEF OwnInv
      <4> QED
        BY <3>1, <4>2, <4>3 DEF StatusExact, Unique
    <3>2. CASE status # Unique
      <4>1. status >= 0
        BY <2>0, <3>2 DEF Types, Unique
      <4>2. Cardinality(Owners("shared")) = status /\ Owners("unique") = {}
        BY <2>0, <4>1, Zenon DEF OwnInv
      <4>3. Cardinality(Owners("unique")) = 0
        BY <4>2, FS_EmptySet, Zenon
      <4> QED
        BY <2>0, <3>2, <4>1, <4>2, <4>3 DEF StatusExact, Types
    <3> QED
      BY <3>1, <3>2, Zenon
  <2> QED
    BY <2>0, <2>1, <2>2, Zenon DEF RwSleepMutexSafe
<1> QED
  BY <1>1, <1>2, <1>3, PTL DEF Spec

(* Two queues without a common node, each with every node once. *)
LEMMA ConcatFacts ==
  ASSUME NEW q \in Seq(Tasks), NEW r \in Seq(Tasks), IsInjective(q), IsInjective(r),
         \A x \in Range(q) : x \notin Range(r)
  PROVE  IsInjective(q \o r)
<1> DEFINE c == q \o r
<1>1. /\ Len(q) \in Nat /\ Len(r) \in Nat /\ DOMAIN q = 1..Len(q) /\ DOMAIN r = 1..Len(r)
      /\ DOMAIN c = 1..(Len(q) + Len(r))
      /\ \A i \in DOMAIN c : c[i] = IF i <= Len(q) THEN q[i] ELSE r[i - Len(q)]
  OBVIOUS
<1> HIDE DEF c
<1>2. ASSUME NEW i \in DOMAIN c
      PROVE  i \in Int /\ \/ i \in DOMAIN q /\ c[i] = q[i] /\ c[i] \in Range(q)
                          \/ i - Len(q) \in DOMAIN r /\ c[i] = r[i - Len(q)] /\ c[i] \in Range(r)
  <2>1. CASE i <= Len(q)
    BY <1>1, <2>1 DEF Range
  <2>2. CASE ~(i <= Len(q))
    <3>1. i - Len(q) \in DOMAIN r /\ c[i] = r[i - Len(q)] /\ i \in Int
      BY <1>1, <2>2
    <3> QED
      BY <3>1, Zenon DEF Range
  <2> QED
    BY <2>1, <2>2, Zenon
<1>3. ASSUME NEW i \in DOMAIN c, NEW j \in DOMAIN c, c[i] = c[j] PROVE i = j
  <2>1. \/ i \in DOMAIN q /\ j \in DOMAIN q /\ q[i] = q[j]
        \/ i - Len(q) \in DOMAIN r /\ j - Len(q) \in DOMAIN r /\ r[i - Len(q)] = r[j - Len(q)]
    BY <1>2, <1>3, Zenon
  <2>2. i = j \/ i - Len(q) = j - Len(q)
    BY <2>1, Zenon DEF IsInjective
  <2> QED
    BY <1>1, <1>2, <2>2
<1> QED
  BY <1>3, Zenon DEF IsInjective, c

(* With finitely many tasks the readers are counted within their number; no   *)
(* node is ever linked twice.                                                 *)
THEOREM RwTypesAreKept == ASSUME IsFiniteSet(Tasks) PROVE Spec => []TypeOK
<1>1. Init => IInv
  BY InitInv, Zenon
<1>2. IInv /\ [Next]_vars => IInv'
  BY StepInv
<1>3. IInv => TypeOK
  <2> SUFFICES ASSUME IInv PROVE TypeOK
    BY Zenon
  <2>0. Types /\ OwnInv /\ QueueInv
    BY Zenon DEF IInv
  <2>1. IsInjective(shared \o unique)
    <3>1. \A x \in Range(shared) : x \notin Range(unique)
      BY <2>0, Zenon DEF QueueInv, Waiting
    <3> QED
      BY <2>0, <3>1, ConcatFacts DEF Types, QueueInv
  <2>2. status \in {Unique} \cup 0..Cardinality(Tasks)
    <3>1. CASE status >= 0
      <4>1. Owners("shared") \subseteq Tasks
        BY Zenon DEF Owners
      <4>2. Cardinality(Owners("shared")) <= Cardinality(Tasks)
        BY <4>1, FS_Subset, Zenon
      <4>3. Cardinality(Tasks) \in Nat
        BY FS_CardinalityType, Zenon
      <4> QED
        BY <2>0, <3>1, <4>2, <4>3 DEF OwnInv, Types
    <3> QED
      BY <2>0, <3>1 DEF Types, Unique
  <2> QED
    BY <2>0, <2>1, <2>2, Zenon DEF TypeOK, Types
<1> QED
  BY <1>1, <1>2, <1>3, PTL DEF Spec

(***************************************************************************)
(* The reader-writer spin lock (RwSpinMutex), for every finite set of harts *)
(* smaller than IMax: a writer holds alone, and the word counts the readers *)
(* exactly, the waiting ones included.  The two need each other: what a     *)
(* hart may do depends on the sign of the word, which tells whether there   *)
(* is a writer because the readers alone cannot make up for IMax.           *)
(***************************************************************************)
CONSTANTS Harts, IMax, Width

VARIABLES word, seen, spot  \* the variables of RwSpinMutex; spot is its pc

RW == INSTANCE RwSpinMutex WITH pc <- spot

(* The word has room for all harts below the writer's share. *)
RwConstants == IsFiniteSet(Harts) /\ IMax \in Nat /\ Cardinality(Harts) < IMax

(* The local cur of try_shared_lock showed no writer. *)
SeenInv == \A h \in Harts : spot[h] = "stry" => seen[h] >= 0

RwInv == RW!TypeOK /\ RW!RwExclusion /\ RW!WordExact /\ SeenInv

Sharing == {"swait", "shared"}
RwPlaces == {"idle", "utry", "uspin", "ucas", "unique", "swait", "stry", "shared"}

(* Cardinality is the same in the instance. *)
LEMMA SameCount == \A S : RW!Cardinality(S) = Cardinality(S)
  BY Zenon DEF RW!Cardinality, Cardinality

(* Readers and writers after a step of hart h to l. *)
LEMMA RwGoto ==
  ASSUME RwConstants, RW!TypeOK, NEW h \in Harts, NEW l \in RwPlaces, RW!Goto(h, l)
  PROVE  /\ spot' \in [Harts -> RwPlaces] /\ spot'[h] = l /\ \A g \in Harts : g # h => spot'[g] = spot[g]
         /\ IsFiniteSet(RW!Readers) /\ Cardinality(RW!Readers) \in Nat /\ Cardinality(RW!Readers) < IMax
         /\ Cardinality(RW!Readers') \in Nat
         /\ (spot[h] \in Sharing <=> l \in Sharing) => Cardinality(RW!Readers') = Cardinality(RW!Readers)
         /\ spot[h] \notin Sharing /\ l \in Sharing => Cardinality(RW!Readers') = Cardinality(RW!Readers) + 1
         /\ spot[h] \in Sharing /\ l \notin Sharing => Cardinality(RW!Readers') = Cardinality(RW!Readers) - 1
         /\ (spot[h] = "unique" <=> l = "unique") => RW!Writers' = RW!Writers
<1>1. spot' \in [Harts -> RwPlaces] /\ spot'[h] = l /\ \A g \in Harts : g # h => spot'[g] = spot[g]
  BY Zenon DEF RW!Goto, RW!TypeOK, RwPlaces
<1>2. RW!Readers \subseteq Harts /\ RW!Readers' \subseteq Harts
  BY Zenon DEF RW!Readers
<1>3. IsFiniteSet(RW!Readers) /\ IsFiniteSet(RW!Readers')
  BY <1>2, FS_Subset, Zenon DEF RwConstants
<1>4. Cardinality(RW!Readers) \in Nat /\ Cardinality(RW!Readers') \in Nat /\ Cardinality(Harts) \in Nat
  BY <1>3, FS_CardinalityType, Zenon DEF RwConstants
<1>5. Cardinality(RW!Readers) <= Cardinality(Harts)
  BY <1>2, FS_Subset, Zenon DEF RwConstants
<1>6. Cardinality(RW!Readers) < IMax
  BY <1>4, <1>5 DEF RwConstants
<1>7. (spot[h] \in Sharing <=> l \in Sharing) => RW!Readers' = RW!Readers
  BY <1>1, Zenon DEF RW!Readers, Sharing
<1>8. ASSUME spot[h] \notin Sharing, l \in Sharing PROVE Cardinality(RW!Readers') = Cardinality(RW!Readers) + 1
  <2>1. RW!Readers' = RW!Readers \cup {h} /\ h \notin RW!Readers
    BY <1>1, <1>8, Zenon DEF RW!Readers, Sharing
  <2> QED
    BY <1>3, <2>1, FS_AddElement, Zenon
<1>9. ASSUME spot[h] \in Sharing, l \notin Sharing PROVE Cardinality(RW!Readers') = Cardinality(RW!Readers) - 1
  <2>1. RW!Readers' = RW!Readers \ {h} /\ h \in RW!Readers
    BY <1>1, <1>9, Zenon DEF RW!Readers, Sharing
  <2> QED
    BY <1>3, <2>1, FS_RemoveElement, Zenon
<1>10. (spot[h] = "unique" <=> l = "unique") => RW!Writers' = RW!Writers
  BY <1>1, Zenon DEF RW!Writers
<1> QED
  BY <1>1, <1>3, <1>4, <1>6, <1>7, <1>8, <1>9, <1>10, Zenon

(* What the word tells: not negative without a writer only, and 0 when the   *)
(* lock is free.                                                             *)
LEMMA WordTells ==
  ASSUME RwConstants, RW!TypeOK, RW!WordExact
  PROVE  /\ word >= 0 => RW!Writers = {}
         /\ word = 0 => RW!Readers = {}
         /\ RW!Writers # {} => word < 0
<1>1. RW!Readers \subseteq Harts
  BY Zenon DEF RW!Readers
<1>2. IsFiniteSet(RW!Readers) /\ Cardinality(RW!Readers) <= Cardinality(Harts)
  BY <1>1, FS_Subset, Zenon DEF RwConstants
<1>3. Cardinality(RW!Readers) \in Nat /\ Cardinality(Harts) \in Nat
  BY <1>2, FS_CardinalityType, Zenon DEF RwConstants
<1>4. PICK n, k : n = Cardinality(RW!Readers) /\ k = Cardinality(Harts)
  BY Zenon
<1>5. n \in Nat /\ k \in Nat /\ n <= k /\ k < IMax /\ IMax \in Nat
  BY <1>2, <1>3, <1>4, Zenon DEF RwConstants
<1>6. n < IMax
  BY <1>5
<1>7. CASE RW!Writers = {}
  <2>1. word = n - 0
    BY <1>4, <1>7, SameCount, Zenon DEF RW!WordExact
  <2>2. word = n
    BY <1>5, <2>1
  <2>3. word = 0 => RW!Readers = {}
    BY <1>2, <1>4, <2>2, FS_EmptySet, Zenon
  <2> QED
    BY <1>7, <2>3, Zenon
<1>8. CASE RW!Writers # {}
  <2>1. word = n - IMax
    BY <1>4, <1>8, SameCount, Zenon DEF RW!WordExact
  <2>2. word < 0 /\ ~(word >= 0) /\ word # 0
    BY <1>5, <1>6, <2>1
  <2> QED
    BY <1>8, <2>2, Zenon
<1> QED
  BY <1>7, <1>8, Zenon

(* A step that neither takes nor drops. *)
LEMMA RwPlain ==
  ASSUME RwConstants, RwInv, NEW h \in Harts, NEW l \in RwPlaces, RW!Goto(h, l), word' = word,
         seen' \in [Harts -> Int], (l = "stry" => seen'[h] >= 0), \A g \in Harts : g # h => seen'[g] = seen[g],
         \/ (spot[h] \notin Sharing \cup {"unique"} /\ l \notin Sharing \cup {"unique"})
         \/ (spot[h] = "swait" /\ l = "shared" /\ word > 0)
  PROVE  RwInv'
<1>i. RW!TypeOK /\ RW!RwExclusion /\ RW!WordExact /\ SeenInv
  BY Zenon DEF RwInv
<1>p. spot' \in [Harts -> RwPlaces] /\ spot'[h] = l /\ \A g \in Harts : g # h => spot'[g] = spot[g]
  BY <1>i, RwGoto, Zenon
<1>1. RW!TypeOK'
  BY <1>i, <1>p, Zenon DEF RW!TypeOK, RwPlaces
<1>2. SeenInv'
  BY <1>i, <1>p, Zenon DEF SeenInv
<1>3. RW!WordExact'
  <2>1. (spot[h] \in Sharing <=> l \in Sharing) /\ spot[h] # "unique" /\ l # "unique"
    BY Zenon DEF Sharing
  <2>2. Cardinality(RW!Readers') = Cardinality(RW!Readers) /\ RW!Writers' = RW!Writers
    BY <1>i, <2>1, RwGoto, Zenon
  <2> QED
    BY <1>i, <2>2, SameCount, Zenon DEF RW!WordExact
<1>4. RW!RwExclusion'
  <2>1. CASE spot[h] \notin Sharing \cup {"unique"} /\ l \notin Sharing \cup {"unique"}
    BY <1>i, <1>p, <2>1, Zenon DEF RW!RwExclusion, Sharing
  <2>2. CASE spot[h] = "swait" /\ l = "shared" /\ word > 0
    <3>1. word >= 0
      BY <1>i, <2>2 DEF RW!TypeOK
    <3>2. \A g \in Harts : spot[g] # "unique"
      BY <1>i, <3>1, WordTells, Zenon DEF RW!Writers
    <3>3. \A g \in Harts : spot'[g] # "unique"
      BY <1>p, <2>2, <3>2, Zenon
    <3> QED
      BY <3>3, Zenon DEF RW!RwExclusion
  <2> QED
    BY <2>1, <2>2, Zenon
<1> QED
  BY <1>1, <1>2, <1>3, <1>4, Zenon DEF RwInv

(* A reader adds itself, beside a writer only to wait; and takes itself off. *)
LEMMA RwShare ==
  ASSUME RwConstants, RwInv, NEW h \in Harts, NEW l \in RwPlaces, RW!Goto(h, l),
         seen' \in [Harts -> Int], \A g \in Harts : g # h => seen'[g] = seen[g],
         \/ (spot[h] \notin Sharing \cup {"unique"} /\ l = "shared" /\ word >= 0 /\ word' = word + 1)
         \/ (spot[h] \notin Sharing \cup {"unique"} /\ l = "swait" /\ word' = word + 1)
         \/ (spot[h] = "shared" /\ l = "idle" /\ word' = word - 1)
  PROVE  RwInv'
<1>i. RW!TypeOK /\ RW!RwExclusion /\ RW!WordExact /\ SeenInv /\ word \in Int
  BY Zenon DEF RwInv, RW!TypeOK
<1>p. spot' \in [Harts -> RwPlaces] /\ spot'[h] = l /\ \A g \in Harts : g # h => spot'[g] = spot[g]
  BY <1>i, RwGoto, Zenon
<1>l. l # "stry" /\ l # "unique" /\ spot[h] # "unique"
  BY Zenon
<1>1. RW!TypeOK'
  <2>1. word' \in Int
    BY <1>i
  <2> QED
    BY <1>i, <1>p, <2>1, Zenon DEF RW!TypeOK, RwPlaces
<1>2. SeenInv'
  BY <1>i, <1>p, <1>l, Zenon DEF SeenInv
<1>3. RW!WordExact'
  <2>0. RW!Writers' = RW!Writers
    BY <1>i, <1>l, RwGoto, Zenon
  <2>1. PICK n, w, n1 : n = Cardinality(RW!Readers) /\ n1 = Cardinality(RW!Readers') /\ w = IF RW!Writers = {} THEN 0 ELSE IMax
    BY Zenon
  <2>2. n \in Nat /\ n1 \in Nat /\ w \in Nat
    <3>1. n \in Nat /\ n1 \in Nat
      BY <1>i, <2>1, RwGoto, Zenon
    <3>2. IMax \in Nat
      BY Zenon DEF RwConstants
    <3> QED
      BY <2>1, <3>1, <3>2
  <2>3. word = n - w
    BY <1>i, <2>1, SameCount, Zenon DEF RW!WordExact
  <2>4. (word' = word + 1 /\ n1 = n + 1) \/ (word' = word - 1 /\ n1 = n - 1)
    <3>1. CASE spot[h] \notin Sharing /\ l \in Sharing /\ word' = word + 1
      BY <1>i, <2>1, <3>1, RwGoto, Zenon
    <3>2. CASE spot[h] \in Sharing /\ l \notin Sharing /\ word' = word - 1
      BY <1>i, <2>1, <3>2, RwGoto, Zenon
    <3> QED
      BY <3>1, <3>2, Zenon DEF Sharing
  <2>5. word' = n1 - w
    BY <2>2, <2>3, <2>4
  <2> QED
    BY <2>0, <2>1, <2>5, SameCount, Zenon DEF RW!WordExact
<1>4. RW!RwExclusion'
  <2>1. CASE l # "shared"
    BY <1>i, <1>p, <1>l, <2>1, Zenon DEF RW!RwExclusion
  <2>2. CASE l = "shared"
    <3>1. word >= 0
      BY <2>2, Zenon
    <3>2. \A g \in Harts : spot[g] # "unique"
      BY <1>i, <3>1, WordTells, Zenon DEF RW!Writers
    <3> QED
      BY <1>p, <2>2, <3>2, Zenon DEF RW!RwExclusion
  <2> QED
    BY <2>1, <2>2, Zenon
<1> QED
  BY <1>1, <1>2, <1>3, <1>4, Zenon DEF RwInv

(* The writer takes a free word, and gives it back. *)
LEMMA RwUnique ==
  ASSUME RwConstants, RwInv, NEW h \in Harts, seen' = seen,
         \/ (spot[h] \in {"utry", "ucas"} /\ word = 0 /\ word' = -IMax /\ RW!Goto(h, "unique"))
         \/ (spot[h] = "unique" /\ word' = word + IMax /\ RW!Goto(h, "idle"))
  PROVE  RwInv'
<1>i. RW!TypeOK /\ RW!RwExclusion /\ RW!WordExact /\ SeenInv /\ word \in Int /\ IMax \in Nat
  BY Zenon DEF RwInv, RW!TypeOK, RwConstants
<1>l. PICK l \in {"unique", "idle"} : RW!Goto(h, l)
  BY Zenon
<1>p. spot' \in [Harts -> RwPlaces] /\ spot'[h] = l /\ \A g \in Harts : g # h => spot'[g] = spot[g]
  BY <1>i, <1>l, RwGoto, Zenon DEF RwPlaces
<1>c. Cardinality(RW!Readers') = Cardinality(RW!Readers) /\ Cardinality(RW!Readers) \in Nat
  <2>1. spot[h] \notin Sharing /\ l \notin Sharing /\ l \in RwPlaces
    BY <1>l, Zenon DEF Sharing, RwPlaces
  <2> QED
    BY <1>i, <1>l, <2>1, RwGoto, Zenon
<1>1. RW!TypeOK'
  <2>1. word' \in Int
    BY <1>i
  <2> QED
    BY <1>i, <1>p, <2>1, Zenon DEF RW!TypeOK, RwPlaces
<1>2. SeenInv'
  BY <1>i, <1>l, <1>p, Zenon DEF SeenInv
<1>3. CASE spot[h] \in {"utry", "ucas"} /\ word = 0 /\ word' = -IMax /\ RW!Goto(h, "unique")
  <2>0. spot'[h] = "unique"
    BY <1>3, <1>i, RwGoto, Zenon DEF RwPlaces
  <2>1. RW!Readers = {} /\ RW!Writers = {}
    <3>1. word >= 0
      BY <1>3
    <3> QED
      BY <1>3, <1>i, <3>1, WordTells, Zenon
  <2>2. RW!RwExclusion'
    <3>1. \A g \in Harts : spot[g] \notin {"unique", "shared"}
      BY <2>1, Zenon DEF RW!Readers, RW!Writers
    <3> QED
      BY <1>p, <3>1, Zenon DEF RW!RwExclusion
  <2>3. Cardinality(RW!Readers') = 0
    BY <1>c, <2>1, FS_EmptySet, Zenon
  <2>4. RW!Writers' # {}
    BY <2>0, Zenon DEF RW!Writers
  <2>5. word' = 0 - IMax
    BY <1>3, <1>i
  <2>6. RW!WordExact'
    BY <2>3, <2>4, <2>5, SameCount, Zenon DEF RW!WordExact
  <2> QED
    BY <1>1, <1>2, <2>2, <2>6, Zenon DEF RwInv
<1>4. CASE spot[h] = "unique" /\ word' = word + IMax /\ RW!Goto(h, "idle")
  <2>0. spot'[h] = "idle"
    BY <1>4, <1>i, RwGoto, Zenon DEF RwPlaces
  <2>1. RW!Writers # {} /\ RW!Writers' = {}
    BY <1>4, <1>i, <1>p, <2>0, Zenon DEF RW!Writers, RW!RwExclusion
  <2>2. RW!RwExclusion'
    BY <1>i, <1>p, <2>0, Zenon DEF RW!RwExclusion
  <2>3. PICK n \in Nat : n = Cardinality(RW!Readers)
    BY <1>c, Zenon
  <2>4. word = n - IMax
    BY <1>i, <2>1, <2>3, SameCount, Zenon DEF RW!WordExact
  <2>5. word' = n - 0
    BY <1>4, <1>i, <2>3, <2>4
  <2>6. RW!WordExact'
    BY <1>c, <2>1, <2>3, <2>5, SameCount, Zenon DEF RW!WordExact
  <2> QED
    BY <1>1, <1>2, <2>2, <2>6, Zenon DEF RwInv
<1> QED
  BY <1>3, <1>4, Zenon

(* Nobody holds the lock at the start. *)
LEMMA RwInit == ASSUME RwConstants, RW!Init PROVE RwInv
<1>1. RW!TypeOK
  BY DEF RW!Init, RW!TypeOK
<1>2. RW!Readers = {} /\ RW!Writers = {} /\ word = 0
  BY Zenon DEF RW!Init, RW!Readers, RW!Writers
<1>3. RW!WordExact
  <2>1. Cardinality(RW!Readers) = 0 /\ 0 = 0 - 0
    BY <1>2, FS_EmptySet
  <2> QED
    BY <1>2, <2>1, SameCount, Zenon DEF RW!WordExact
<1>4. RW!RwExclusion /\ SeenInv
  BY Zenon DEF RW!Init, RW!RwExclusion, SeenInv
<1> QED
  BY <1>1, <1>3, <1>4, Zenon DEF RwInv

(* Every step of a hart. *)
LEMMA RwStep == ASSUME RwConstants, RwInv, NEW h \in Harts, RW!Step(h) PROVE RwInv'
<1>i. RW!TypeOK /\ word \in Int /\ seen \in [Harts -> Int] /\ spot[h] \in RwPlaces
  BY Zenon DEF RwInv, RW!TypeOK, RwPlaces
<1>s. seen[h] \in Int /\ (spot[h] = "stry" => seen[h] >= 0)
  BY <1>i, Zenon DEF RwInv, SeenInv
<1>1. CASE RW!try_unique_lock(h) \/ RW!unique_lock(h) \/ RW!UniqueSpin(h) \/ RW!SharedSpin(h)
  <2>1. word' = word /\ seen' = seen
    BY <1>1, Zenon DEF RW!try_unique_lock, RW!unique_lock, RW!UniqueSpin, RW!SharedSpin
  <2>2. \/ (spot[h] = "idle" /\ RW!Goto(h, "utry")) \/ (spot[h] = "idle" /\ RW!Goto(h, "uspin"))
        \/ (spot[h] = "uspin" /\ RW!Goto(h, "ucas")) \/ (spot[h] = "swait" /\ word > 0 /\ RW!Goto(h, "shared"))
    BY <1>1, Zenon DEF RW!try_unique_lock, RW!unique_lock, RW!UniqueSpin, RW!SharedSpin
  <2> QED
    BY <1>i, <2>1, <2>2, RwPlain, Zenon DEF Sharing, RwPlaces
<1>2. CASE RW!UniqueCas(h)
  <2>1. CASE word = 0
    BY <1>2, <2>1, RwUnique, Zenon DEF RW!UniqueCas
  <2>2. CASE word # 0
    <3>1. /\ spot[h] \in {"utry", "ucas"} /\ word' = word /\ seen' = seen
          /\ RW!Goto(h, "idle") \/ RW!Goto(h, "uspin")
      BY <1>2, <2>2, Zenon DEF RW!UniqueCas
    <3> QED
      BY <1>i, <3>1, RwPlain, Zenon DEF Sharing, RwPlaces
  <2> QED
    BY <2>1, <2>2, Zenon
<1>3. CASE RW!shared_lock(h) \/ RW!DropShared(h)
  <2>1. seen' = seen
    BY <1>3, Zenon DEF RW!shared_lock, RW!DropShared
  <2>2. \/ (spot[h] = "idle" /\ RW!Goto(h, "shared") /\ word >= 0 /\ word' = word + 1)
        \/ (spot[h] = "idle" /\ RW!Goto(h, "swait") /\ word' = word + 1)
        \/ (spot[h] = "shared" /\ RW!Goto(h, "idle") /\ word' = word - 1)
    BY <1>3, Zenon DEF RW!shared_lock, RW!DropShared
  <2> QED
    BY <1>i, <2>1, <2>2, RwShare, Zenon DEF Sharing, RwPlaces
<1>4. CASE RW!try_shared_lock(h)
  <2>1. /\ spot[h] = "idle" /\ RW!Goto(h, "stry") /\ word' = word /\ word >= 0
        /\ seen' = [seen EXCEPT ![h] = word]
    BY <1>4, Zenon DEF RW!try_shared_lock
  <2>2. seen' \in [Harts -> Int] /\ seen'[h] >= 0 /\ \A g \in Harts : g # h => seen'[g] = seen[g]
    BY <1>i, <2>1, Zenon
  <2> QED
    BY <1>i, <2>1, <2>2, RwPlain, Zenon DEF Sharing, RwPlaces
<1>5. CASE RW!SharedCas(h)
  <2>0. spot[h] = "stry"
    BY <1>5, Zenon DEF RW!SharedCas
  <2>1. CASE word = seen[h]
    <3>1. word' = word + 1 /\ RW!Goto(h, "shared") /\ seen' = [seen EXCEPT ![h] = 0] /\ word >= 0
      BY <1>5, <1>s, <2>0, <2>1, Zenon DEF RW!SharedCas
    <3>2. seen' \in [Harts -> Int] /\ \A g \in Harts : g # h => seen'[g] = seen[g]
      BY <1>i, <3>1
    <3> QED
      BY <1>i, <2>0, <3>1, <3>2, RwShare, Zenon DEF Sharing, RwPlaces
  <2>2. CASE word # seen[h] /\ word >= 0
    <3>1. word' = word /\ RW!Goto(h, "stry") /\ seen' = [seen EXCEPT ![h] = word]
      BY <1>5, <2>2, Zenon DEF RW!SharedCas
    <3>2. seen' \in [Harts -> Int] /\ seen'[h] >= 0 /\ \A g \in Harts : g # h => seen'[g] = seen[g]
      BY <1>i, <2>2, <3>1, Zenon
    <3> QED
      BY <1>i, <2>0, <3>1, <3>2, RwPlain, Zenon DEF Sharing, RwPlaces
  <2>3. CASE word # seen[h] /\ ~(word >= 0)
    <3>1. word' = word /\ RW!Goto(h, "idle") /\ seen' = [seen EXCEPT ![h] = 0]
      BY <1>5, <2>3, Zenon DEF RW!SharedCas
    <3>2. seen' \in [Harts -> Int] /\ \A g \in Harts : g # h => seen'[g] = seen[g]
      BY <1>i, <3>1
    <3> QED
      BY <1>i, <2>0, <3>1, <3>2, RwPlain, Zenon DEF Sharing, RwPlaces
  <2> QED
    BY <2>1, <2>2, <2>3, Zenon
<1>6. CASE RW!DropUnique(h)
  BY <1>6, RwUnique, Zenon DEF RW!DropUnique
<1> QED
  BY <1>1, <1>2, <1>3, <1>4, <1>5, <1>6, Zenon DEF RW!Step

(* The reader-writer spin lock: a writer holds alone, and the word is the    *)
(* number of readers, waiting ones included, less IMax for the writer.       *)
THEOREM RwSpinIsSafe == ASSUME RwConstants PROVE RW!Spec => [](RW!RwExclusion /\ RW!WordExact)
<1>1. RW!Init => RwInv
  BY RwInit, Zenon
<1>2. RwInv /\ [RW!Next]_(RW!vars) => RwInv'
  <2> SUFFICES ASSUME RwInv, [RW!Next]_(RW!vars) PROVE RwInv'
    OBVIOUS
  <2>1. CASE RW!Next
    BY <2>1, RwStep, Zenon DEF RW!Next
  <2>2. CASE UNCHANGED RW!vars
    <3>1. word' = word /\ seen' = seen /\ spot' = spot
      BY <2>2, Zenon DEF RW!vars
    <3> QED
      BY <3>1, SameCount, Zenon DEF RwInv, RW!TypeOK, RW!RwExclusion, RW!WordExact, SeenInv, RW!Readers, RW!Writers
  <2> QED
    BY <2>1, <2>2, Zenon
<1>3. RwInv => RW!RwExclusion /\ RW!WordExact
  BY Zenon DEF RwInv
<1> QED
  BY <1>1, <1>2, <1>3, PTL DEF RW!Spec
=============================================================================
