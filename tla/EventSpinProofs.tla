-------------------------- MODULE EventSpinProofs ---------------------------
(***************************************************************************)
(* Proofs about the event bus (EventBus) and the spin lock that switches    *)
(* interrupts off (SpinNoIrq).                                              *)
(*                                                                         *)
(* The event bus wakes nodes that exist and loses no event, for any number  *)
(* of threads, notifiers and events.                                        *)
(***************************************************************************)
EXTENDS EventBus, TLAPS

Waiting == {"park", "parked", "poll", "remove", "remove_locked"}

(* The setter inside the lock, and it only, walks the list. *)
Locking ==
  \A a \in Actors :
    /\ pc[a] \in Walking <=> lk = a
    /\ pc[a] \in Walking \ {"scan"} => scan # <<>>

(* A thread has a node exactly while it waits.  A node that is linked is in  *)
(* the list, and one that is not was marked.                                 *)
NodeInv ==
  \A t \in Threads :
    /\ t \in Nodes(wakers) <=> node[t] = "linked"
    /\ node[t] # "none" <=> pc[t] \in Waiting
    /\ node[t] = "self" => suspend[t] # {}
    /\ node[t] = "none" => suspend[t] = {}

(* What the setter has still to visit is linked, but for the node it has     *)
(* just unlinked; the node at which it stands is marked.                     *)
WalkInv ==
  /\ Once(scan)
  /\ \A a \in Actors :
       /\ pc[a] \in {"scan", "wake", "unlink"} => Nodes(scan) \subseteq Nodes(wakers)
       /\ pc[a] = "store_next" => /\ Nodes(Tail(scan)) \subseteq Nodes(wakers)
                                  /\ Head(scan) \notin Nodes(wakers)
       /\ pc[a] \in {"wake", "unlink"} => suspend[Head(scan)] # {}

(* A node that stays in the list waits for no event that is set, and is      *)
(* summed up in suspend_event, or in acc once the setter has passed it.      *)
CoverInv ==
  /\ lk = Nobody => /\ event \cap suspend_event = {}
                    /\ \A t \in Nodes(wakers) : mask[t] \subseteq suspend_event
  /\ lk # Nobody => /\ event \cap acc = {}
                    /\ \A t \in Nodes(wakers) \ Nodes(scan) : mask[t] \subseteq acc

(* t was marked and the setter is about to wake it. *)
WakeComing(t) == lk # Nobody /\ pc[lk] = "wake" /\ Head(scan) = t

(* A marked thread is awake, will be when it parks, or is about to be woken. *)
MarkInv ==
  \A t \in Threads : suspend[t] # {} =>
    /\ pc[t] = "parked" => WakeComing(t)
    /\ pc[t] = "park" => notified[t] \/ WakeComing(t)

QuietInv == closed => \A t \in Threads : pc[t] = "dead"

BusInv == TypeOK /\ Locking /\ NodeInv /\ WalkInv /\ CoverInv /\ MarkInv /\ QuietInv
-----------------------------------------------------------------------------
(* What the operations on the list do to the set of nodes in it. *)
LEMMA NodesDef == ASSUME NEW s, NEW t PROVE t \in Nodes(s) <=> \E i \in 1..Len(s) : s[i] = t
  BY Zenon DEF Nodes

(* Linking a node at the end. *)
LEMMA NodesAppend ==
  ASSUME NEW s \in Seq(Threads), Once(s), NEW t \in Threads, t \notin Nodes(s)
  PROVE  /\ Append(s, t) \in Seq(Threads) /\ Once(Append(s, t))
         /\ Nodes(Append(s, t)) = Nodes(s) \cup {t}
<1> DEFINE r == Append(s, t)
<1>1. /\ r \in Seq(Threads) /\ Len(r) = Len(s) + 1 /\ r[Len(s) + 1] = t /\ Len(s) \in Nat
      /\ \A i \in 1..Len(s) : r[i] = s[i]
  OBVIOUS
<1>2. \A i \in 1..Len(r) : i \in 1..Len(s) \/ i = Len(s) + 1
  BY <1>1
<1>3. \A u : u \in Nodes(r) <=> u \in Nodes(s) \/ u = t
  <2> SUFFICES ASSUME NEW u PROVE u \in Nodes(r) <=> u \in Nodes(s) \/ u = t
    OBVIOUS
  <2>1. ASSUME u \in Nodes(r) PROVE u \in Nodes(s) \/ u = t
    <3>1. PICK i \in 1..Len(r) : r[i] = u
      BY <2>1, NodesDef, Zenon
    <3>2. CASE i = Len(s) + 1
      BY <1>1, <3>1, <3>2, Zenon
    <3>3. CASE i \in 1..Len(s)
      BY <1>1, <3>1, <3>3, NodesDef, Zenon
    <3> QED
      BY <1>2, <3>2, <3>3, Zenon
  <2>2. ASSUME u \in Nodes(s) \/ u = t PROVE u \in Nodes(r)
    <3>1. Len(s) + 1 \in 1..Len(r) /\ \A i \in 1..Len(s) : i \in 1..Len(r)
      BY <1>1
    <3>2. CASE u = t
      BY <1>1, <3>1, <3>2, NodesDef, Zenon
    <3>3. CASE u \in Nodes(s)
      <4>1. PICK i \in 1..Len(s) : s[i] = u
        BY <3>3, NodesDef, Zenon
      <4>2. i \in 1..Len(r) /\ r[i] = u
        BY <1>1, <3>1, <4>1, Zenon
      <4> QED
        BY <4>2, NodesDef, Zenon
    <3> QED
      BY <2>2, <3>2, <3>3, Zenon
  <2> QED
    BY <2>1, <2>2
<1>4. Once(r)
  <2> SUFFICES ASSUME NEW i \in 1..Len(r), NEW j \in 1..Len(r), r[i] = r[j] PROVE i = j
    BY DEF Once
  <2>1. \A k \in 1..Len(s) : s[k] # t
    BY NodesDef
  <2> QED
    BY <1>1, <1>2, <2>1 DEF Once
<1> QED
  BY <1>1, <1>3, <1>4

(* Passing a node. *)
LEMMA NodesTail ==
  ASSUME NEW s \in Seq(Threads), Once(s), s # <<>>
  PROVE  /\ Tail(s) \in Seq(Threads) /\ Once(Tail(s)) /\ Head(s) \in Threads
         /\ Nodes(s) = Nodes(Tail(s)) \cup {Head(s)} /\ Head(s) \notin Nodes(Tail(s))
<1> DEFINE r == Tail(s)
<1>1. /\ r \in Seq(Threads) /\ Len(s) = Len(r) + 1 /\ Len(r) \in Nat /\ Head(s) = s[1] /\ Head(s) \in Threads
      /\ \A i \in 1..Len(r) : r[i] = s[i + 1]
  OBVIOUS
<1>2. \A i \in 1..Len(s) : i = 1 \/ i - 1 \in 1..Len(r)
  BY <1>1
<1>3. \A i \in 1..Len(r) : i + 1 \in 1..Len(s) /\ i + 1 # 1
  BY <1>1
<1>4. \A u : u \in Nodes(s) <=> u \in Nodes(r) \/ u = Head(s)
  <2> SUFFICES ASSUME NEW u PROVE u \in Nodes(s) <=> u \in Nodes(r) \/ u = Head(s)
    OBVIOUS
  <2>1. ASSUME u \in Nodes(s) PROVE u \in Nodes(r) \/ u = Head(s)
    <3>1. PICK i \in 1..Len(s) : s[i] = u
      BY <2>1, NodesDef, Zenon
    <3>2. CASE i = 1
      BY <1>1, <3>1, <3>2
    <3>3. CASE i - 1 \in 1..Len(r)
      <4>1. r[i - 1] = u
        BY <1>1, <3>1, <3>3
      <4> QED
        BY <3>3, <4>1, NodesDef, Zenon
    <3> QED
      BY <1>2, <3>2, <3>3
  <2>2. ASSUME u \in Nodes(r) \/ u = Head(s) PROVE u \in Nodes(s)
    <3>1. 1 \in 1..Len(s)
      BY <1>1
    <3>2. CASE u = Head(s)
      BY <1>1, <3>1, <3>2, NodesDef, Zenon
    <3>3. CASE u \in Nodes(r)
      <4>1. PICK i \in 1..Len(r) : r[i] = u
        BY <3>3, NodesDef, Zenon
      <4>2. i + 1 \in 1..Len(s) /\ s[i + 1] = u
        BY <1>1, <1>3, <4>1, Zenon
      <4> QED
        BY <4>2, NodesDef, Zenon
    <3> QED
      BY <2>2, <3>2, <3>3, Zenon
  <2> QED
    BY <2>1, <2>2
<1>5. Once(r)
  BY <1>1, <1>3 DEF Once
<1>6. Head(s) \notin Nodes(r)
  <2> SUFFICES ASSUME NEW i \in 1..Len(r), r[i] = Head(s) PROVE FALSE
    BY NodesDef, Zenon
  <2> QED
    BY <1>1, <1>3 DEF Once
<1> QED
  BY <1>1, <1>4, <1>5, <1>6

(* Unlinking a node, wherever it is in the list. *)
LEMMA NodesPop ==
  ASSUME NEW s \in Seq(Threads), Once(s), NEW t
  PROVE  /\ pop_self(s, t) \in Seq(Threads) /\ Once(pop_self(s, t))
         /\ Nodes(pop_self(s, t)) = Nodes(s) \ {t}
<1>1. CASE t \notin Nodes(s)
  BY <1>1, Zenon DEF pop_self
<1>2. CASE t \in Nodes(s)
  <2> DEFINE at == CHOOSE i \in 1..Len(s) : s[i] = t
             r == [i \in 1..(Len(s) - 1) |-> s[IF i < at THEN i ELSE i + 1]]
  <2>1. at \in 1..Len(s) /\ s[at] = t
    BY <1>2, NodesDef
  <2>2. pop_self(s, t) = r
    BY <1>2 DEF pop_self
  <2> HIDE DEF at
  <2>3. Len(s) \in Nat /\ Len(s) - 1 \in Nat /\ \A i \in 1..Len(s) : s[i] \in Threads
    BY <2>1
  <2>4. \A i \in 1..(Len(s) - 1) : (IF i < at THEN i ELSE i + 1) \in (1..Len(s)) \ {at}
    BY <2>1, <2>3
  <2>5. r \in Seq(Threads) /\ Len(r) = Len(s) - 1
    BY <2>3, <2>4
  <2>6. Once(r)
    BY <2>1, <2>3, <2>4, <2>5 DEF Once
  <2>7. ASSUME NEW u \in Nodes(r) PROVE u \in Nodes(s) /\ u # t
    <3>1. PICK i \in 1..Len(r) : r[i] = u
      BY <2>7, NodesDef, Zenon
    <3>2. PICK j \in (1..Len(s)) \ {at} : s[j] = u
      BY <2>4, <2>5, <3>1, Zenon
    <3> QED
      BY <2>1, <3>2, NodesDef DEF Once
  <2>8. ASSUME NEW u \in Nodes(s), u # t PROVE u \in Nodes(r)
    <3>1. PICK i \in 1..Len(s) : s[i] = u
      BY <2>8, NodesDef, Zenon
    <3>2. i # at
      BY <2>1, <2>8, <3>1
    <3>3. CASE i < at
      <4>1. i \in 1..Len(r) /\ r[i] = u
        BY <2>1, <2>3, <2>5, <3>1, <3>3
      <4> QED
        BY <4>1, NodesDef, Zenon
    <3>4. CASE i > at
      <4>1. i - 1 \in 1..Len(r) /\ r[i - 1] = u
        BY <2>1, <2>3, <2>5, <3>1, <3>4
      <4> QED
        BY <4>1, NodesDef, Zenon
    <3> QED
      BY <2>1, <2>3, <3>1, <3>2, <3>3, <3>4
  <2>9. Nodes(r) = Nodes(s) \ {t}
    BY <2>7, <2>8
  <2> QED
    BY <2>2, <2>5, <2>6, <2>9
<1> QED
  BY <1>1, <1>2

-----------------------------------------------------------------------------
(* Nobody is not an actor, and threads are. *)
LEMMA ActorFacts == Nobody \notin Actors /\ \A t \in Threads : t \in Actors
  BY BusAssumption, Zenon DEF Actors

(* A step of an actor to another place. *)
LEMMA GotoFacts ==
  ASSUME TypeOK, NEW a \in Actors, NEW l \in PCs, Goto(a, l)
  PROVE  /\ pc' \in [Actors -> PCs] /\ pc'[a] = l
         /\ \A b \in Actors : b # a => pc'[b] = pc[b]
  BY Zenon DEF Goto, TypeOK

(* A wake makes a parked thread run and is remembered by one that runs. *)
LEMMA WakeFacts ==
  ASSUME TypeOK, NEW t \in Threads, NEW a \in Actors, NEW l \in PCs, l # "parked", WakeAnd(t, a, l)
  PROVE  /\ pc' \in [Actors -> PCs] /\ notified' \in [Threads -> BOOLEAN]
         /\ pc'[a] = l /\ pc'[t] # "parked"
         /\ \A b \in Actors : b # a /\ (b # t \/ pc[t] # "parked") => pc'[b] = pc[b]
         /\ t # a /\ pc[t] = "parked" => pc'[t] = "poll"
         /\ t = a \/ pc[t] # "parked" => notified'[t]
         /\ \A u \in Threads : u # t => notified'[u] = notified[u]
<1> DEFINE pcs == [pc EXCEPT ![a] = l]
<1>0. t \in Actors /\ "poll" \in PCs
  BY ActorFacts, Zenon DEF PCs
<1>1. /\ pcs \in [Actors -> PCs] /\ pcs[a] = l
      /\ \A b \in Actors : b # a => pcs[b] = pc[b]
  BY Zenon DEF TypeOK
<1>2. /\ pc' = IF pcs[t] = "parked" THEN [pcs EXCEPT ![t] = "poll"] ELSE pcs
      /\ notified' = [notified EXCEPT ![t] = @ \/ pcs[t] # "parked"]
  BY Zenon DEF WakeAnd
<1> HIDE DEF pcs
<1>3. pc' \in [Actors -> PCs]
  BY <1>0, <1>1, <1>2
<1>4. notified \in [Threads -> BOOLEAN]
  BY Zenon DEF TypeOK
<1>5. notified' \in [Threads -> BOOLEAN] /\ \A u \in Threads : u # t => notified'[u] = notified[u]
  BY <1>2, <1>4, Zenon
<1>6. CASE pcs[t] = "parked"
  <2>1. t # a /\ pc[t] = "parked"
    BY <1>0, <1>1, <1>6, Zenon
  <2>2. pc'[t] = "poll" /\ pc'[a] = l /\ \A b \in Actors : b # a /\ b # t => pc'[b] = pc[b]
    BY <1>0, <1>1, <1>2, <1>6, <2>1, Zenon
  <2> QED
    BY <1>3, <1>5, <2>1, <2>2, Zenon
<1>7. CASE pcs[t] # "parked"
  <2>1. t = a \/ pc[t] # "parked"
    BY <1>0, <1>1, <1>7, Zenon
  <2>2. pc'[a] = l /\ (\A b \in Actors : b # a => pc'[b] = pc[b]) /\ pc'[t] # "parked"
    BY <1>1, <1>2, <1>7, Zenon
  <2>3. notified'[t]
    BY <1>2, <1>4, <1>7, Zenon
  <2> QED
    BY <1>3, <1>5, <2>1, <2>2, <2>3, Zenon
<1> QED
  BY <1>6, <1>7, Zenon

(* A thread that wakes itself remembers it. *)
LEMMA WakeSelf ==
  ASSUME TypeOK, NEW t \in Threads, NEW l \in PCs, l # "parked", WakeAnd(t, t, l)
  PROVE  /\ pc' \in [Actors -> PCs] /\ notified' \in [Threads -> BOOLEAN]
         /\ pc'[t] = l /\ notified'[t]
         /\ \A b \in Actors : b # t => pc'[b] = pc[b]
         /\ \A u \in Threads : u # t => notified'[u] = notified[u]
<1>1. t \in Actors
  BY ActorFacts, Zenon
<1> QED
  BY <1>1, WakeFacts

(* The places of a waiting thread. *)
LEMMA WaitingPlaces ==
  ASSUME NEW l \in Waiting
  PROVE  l \in PCs /\ l \notin Walking /\ l # "dead" /\ l # "idle" /\ l # "register"
  BY DEF Waiting, Walking, PCs

(* The holder of the lock is the only actor that walks the list. *)
LEMMA Holder ==
  ASSUME Locking, NEW a \in Actors
  PROVE  /\ pc[a] \in Walking => lk = a /\ \A b \in Actors : b # a => pc[b] \notin Walking
         /\ pc[a] \notin Walking => lk # a
         /\ lk = Nobody => \A b \in Actors : pc[b] \notin Walking
  BY ActorFacts, Zenon DEF Locking

(* A thread that waits takes a step of its own: unless it is marked and goes *)
(* back to sleep without a setter about to wake it, nothing is lost.         *)
LEMMA ThreadStep ==
  ASSUME BusInv, NEW t \in Threads, NEW l \in Waiting, pc[t] \in Waiting, Goto(t, l),
         notified' \in [Threads -> BOOLEAN], \A u \in Threads : u # t => notified'[u] = notified[u],
         UNCHANGED <<busvars, wakers, lk, nodevars, loopvars>>,
         suspend[t] # {} => l # "park" /\ (l = "parked" => WakeComing(t))
  PROVE  BusInv'
<1> USE ActorFacts
<1>u. /\ event' = event /\ suspend_event' = suspend_event /\ closed' = closed /\ wakers' = wakers /\ lk' = lk
      /\ mask' = mask /\ suspend' = suspend /\ node' = node /\ arg' = arg /\ scan' = scan /\ acc' = acc
  BY DEF busvars, nodevars, loopvars
<1>i. TypeOK /\ Locking /\ NodeInv /\ WalkInv /\ CoverInv /\ MarkInv /\ QuietInv
  BY Zenon DEF BusInv
<1>l. l \in PCs /\ l \notin Walking /\ l # "dead"
  BY WaitingPlaces, Zenon
<1>p. /\ pc' \in [Actors -> PCs] /\ pc'[t] = l
      /\ \A b \in Actors : b # t => pc'[b] = pc[b]
  BY <1>i, <1>l, GotoFacts, Zenon
<1>w. pc[t] \notin Walking /\ lk # t
  BY <1>i, WaitingPlaces, Holder, Zenon
<1>1. TypeOK'
  BY <1>i, <1>u, <1>p, Zenon DEF TypeOK
<1>2. Locking'
  BY <1>i, <1>u, <1>p, <1>l, <1>w, Zenon DEF Locking
<1>3. NodeInv'
  BY <1>i, <1>u, <1>p, Zenon DEF NodeInv
<1>s. \A b \in Actors : pc'[b] \in Walking => pc'[b] = pc[b]
  BY <1>p, <1>l, Zenon
<1>4. WalkInv'
  <2>1. \A b \in Actors : pc'[b] \in {"scan", "wake", "unlink", "store_next"} => pc'[b] = pc[b]
    BY <1>s, Zenon DEF Walking
  <2> QED
    BY <1>i, <1>u, <2>1, Zenon DEF WalkInv
<1>5. CoverInv'
  BY <1>i, <1>u, Zenon DEF CoverInv
<1>6. \A u \in Threads : WakeComing(u) => WakeComing(u)'
  <2>1. lk # Nobody => lk \in Actors /\ pc'[lk] = pc[lk]
    BY <1>i, <1>p, <1>w, Zenon DEF TypeOK
  <2> QED
    BY <1>u, <2>1, Zenon DEF WakeComing
<1>7. MarkInv'
  BY <1>i, <1>u, <1>p, <1>6, Zenon DEF MarkInv
<1>8. QuietInv'
  BY <1>i, <1>u, WaitingPlaces, Zenon DEF QuietInv
<1> QED
  BY <1>1, <1>2, <1>3, <1>4, <1>5, <1>7, <1>8, Zenon DEF BusInv

(* park, spurious, poll and cancel are such steps. *)
LEMMA WaiterSteps ==
  ASSUME BusInv, NEW t \in Threads, park(t) \/ spurious(t) \/ poll(t) \/ cancel(t)
  PROVE  BusInv'
<1>i. /\ notified \in [Threads -> BOOLEAN]
      /\ suspend[t] # {} => /\ pc[t] = "parked" => WakeComing(t)
                            /\ pc[t] = "park" => notified[t] \/ WakeComing(t)
  BY Zenon DEF BusInv, TypeOK, MarkInv
<1>w. "park" \in Waiting /\ "parked" \in Waiting /\ "poll" \in Waiting /\ "remove" \in Waiting
  BY Zenon DEF Waiting
<1>1. CASE park(t)
  <2> DEFINE l == IF notified[t] THEN "poll" ELSE "parked"
  <2>1. /\ pc[t] = "park" /\ Goto(t, l) /\ UNCHANGED <<busvars, wakers, lk, nodevars, loopvars>>
        /\ notified' = [notified EXCEPT ![t] = FALSE]
    BY <1>1, Zenon DEF park
  <2>2. notified' \in [Threads -> BOOLEAN] /\ \A u \in Threads : u # t => notified'[u] = notified[u]
    BY <1>i, <2>1, Zenon
  <2>3. l \in Waiting /\ (suspend[t] # {} => l # "park" /\ (l = "parked" => WakeComing(t)))
    BY <1>i, <1>w, <2>1
  <2> HIDE DEF l
  <2> QED
    BY <1>w, <2>1, <2>2, <2>3, ThreadStep, Zenon
<1>2. CASE spurious(t)
  <2>1. /\ pc[t] = "parked" /\ Goto(t, "poll") /\ UNCHANGED <<busvars, wakers, lk, nodevars, loopvars>>
        /\ notified' = notified
    BY <1>2, Zenon DEF spurious
  <2> QED
    BY <1>i, <1>w, <2>1, ThreadStep, Zenon
<1>3. CASE poll(t)
  <2> DEFINE l == IF suspend[t] # {} THEN "remove" ELSE "park"
  <2>1. /\ pc[t] = "poll" /\ Goto(t, l) /\ UNCHANGED <<busvars, wakers, lk, nodevars, loopvars>>
        /\ notified' = notified
    BY <1>3, Zenon DEF poll
  <2>2. l \in Waiting /\ (suspend[t] # {} => l = "remove")
    BY <1>w, Zenon
  <2> HIDE DEF l
  <2> QED
    BY <1>i, <1>w, <2>1, <2>2, ThreadStep, Zenon
<1>4. CASE cancel(t)
  <2>1. /\ pc[t] = "poll" /\ Goto(t, "remove") /\ UNCHANGED <<busvars, wakers, lk, nodevars, loopvars>>
        /\ notified' = notified
    BY <1>4, Zenon DEF cancel
  <2> QED
    BY <1>i, <1>w, <2>1, ThreadStep, Zenon
<1> QED
  BY <1>1, <1>2, <1>3, <1>4, Zenon

(* A list of threads has threads as nodes, and one that is empty has none. *)
LEMMA NodesTypes ==
  ASSUME NEW s \in Seq(Threads)
  PROVE  /\ \A t \in Nodes(s) : t \in Threads
         /\ (\A t \in Threads : t \notin Nodes(s)) => s = <<>>
         /\ s = <<>> => Nodes(s) = {}
<1>1. \A t \in Nodes(s) : t \in Threads
  BY DEF Nodes
<1>2. ASSUME s # <<>> PROVE \E t \in Threads : t \in Nodes(s)
  <2>1. 1 \in 1..Len(s) /\ s[1] \in Threads
    BY <1>2
  <2> QED
    BY <2>1, Zenon DEF Nodes
<1>3. s = <<>> => Nodes(s) = {}
  BY DEF Nodes
<1> QED
  BY <1>1, <1>2, <1>3, Zenon

(* An actor without a node that stays outside the lock: it may set events    *)
(* nobody registered for, if the lock is free, and change its own mask.      *)
LEMMA OutsideStep ==
  ASSUME BusInv, NEW a \in Actors, NEW l \in PCs, Goto(a, l),
         pc[a] \notin Walking, pc[a] \notin Waiting, l \notin Walking, l \notin Waiting,
         UNCHANGED <<suspend_event, wakers, lk, notified, suspend, node, scan, acc>>,
         mask' \in [Threads -> SUBSET Events], \A u \in Threads : u # a => mask'[u] = mask[u],
         event' \in SUBSET Events, event' = event \/ (lk = Nobody /\ event' \cap suspend_event = {}),
         arg' \in [Actors -> (SUBSET Events) \X (SUBSET Events)],
         closed' \in BOOLEAN, closed' => \A t \in Threads : pc'[t] = "dead"
  PROVE  BusInv'
<1> USE ActorFacts
<1>u. /\ suspend_event' = suspend_event /\ wakers' = wakers /\ lk' = lk /\ notified' = notified
      /\ suspend' = suspend /\ node' = node /\ scan' = scan /\ acc' = acc
  OBVIOUS
<1>i. TypeOK /\ Locking /\ NodeInv /\ WalkInv /\ CoverInv /\ MarkInv /\ QuietInv
  BY Zenon DEF BusInv
<1>p. /\ pc' \in [Actors -> PCs] /\ pc'[a] = l
      /\ \A b \in Actors : b # a => pc'[b] = pc[b]
  BY <1>i, GotoFacts, Zenon
<1>w. lk # a
  BY <1>i, Holder, Zenon
<1>1. TypeOK'
  BY <1>i, <1>u, <1>p, Zenon DEF TypeOK
<1>2. Locking'
  BY <1>i, <1>u, <1>p, <1>w, Zenon DEF Locking
<1>3. NodeInv'
  BY <1>i, <1>u, <1>p, Zenon DEF NodeInv
<1>4. WalkInv'
  <2>1. \A b \in Actors : pc'[b] \in {"scan", "wake", "unlink", "store_next"} => pc'[b] = pc[b]
    BY <1>p, Zenon DEF Walking
  <2> QED
    BY <1>i, <1>u, <2>1, Zenon DEF WalkInv
<1>5. CoverInv'
  <2>1. wakers \in Seq(Threads) /\ \A t \in Threads : t \in Nodes(wakers) => node[t] = "linked" /\ pc[t] \in Waiting
    BY <1>i, Zenon DEF NodeInv, TypeOK
  <2>2. \A t \in Nodes(wakers) : mask'[t] = mask[t]
    BY <2>1, NodesTypes, Zenon
  <2> QED
    BY <1>i, <1>u, <2>2, Zenon DEF CoverInv
<1>6. \A u \in Threads : WakeComing(u) => WakeComing(u)'
  <2>1. lk # Nobody => lk \in Actors /\ pc'[lk] = pc[lk]
    BY <1>i, <1>p, <1>w, Zenon DEF TypeOK
  <2> QED
    BY <1>u, <2>1, Zenon DEF WakeComing
<1>7. MarkInv'
  <2>1. \A t \in Threads : pc'[t] \in {"park", "parked"} => pc'[t] = pc[t]
    BY <1>p, Zenon DEF Waiting
  <2> QED
    BY <1>i, <1>u, <1>6, <2>1, Zenon DEF MarkInv
<1>8. QuietInv'
  BY Zenon DEF QuietInv
<1> QED
  BY <1>1, <1>2, <1>3, <1>4, <1>5, <1>7, <1>8, Zenon DEF BusInv

(* The places outside the list. *)
LEMMA OutsidePlaces ==
  ASSUME NEW l \in {"idle", "update", "register", "dead"}
  PROVE  l \in PCs /\ l \notin Walking /\ l \notin Waiting
  BY DEF PCs, Walking, Waiting

(* The calls of clear_then_set and of wait_for_event, before they lock. *)
LEMMA CallSteps ==
  ASSUME BusInv, NEW a \in Actors,
         \/ \E u \in Updates : clear_then_set(a, u)
         \/ a \in Threads /\ \E m \in (SUBSET Events) \ {{}} : wait_for_event(a, m)
  PROVE  BusInv'
<1> USE ActorFacts
<1>i. TypeOK /\ QuietInv
  BY Zenon DEF BusInv
<1>p. \A l \in {"idle", "update", "register"} : l \in PCs /\ l \notin Walking /\ l \notin Waiting
  BY OutsidePlaces, Zenon
<1>1. ASSUME NEW u \in Updates, clear_then_set(a, u) PROVE BusInv'
  <2>1. /\ pc[a] = "idle" /\ Goto(a, "update") /\ arg' = [arg EXCEPT ![a] = u] /\ ~closed
        /\ event' = event /\ suspend_event' = suspend_event /\ closed' = closed
        /\ wakers' = wakers /\ lk' = lk /\ notified' = notified
        /\ mask' = mask /\ suspend' = suspend /\ node' = node /\ scan' = scan /\ acc' = acc
    BY <1>1 DEF clear_then_set, busvars, nodevars
  <2>2. u \in (SUBSET Events) \X (SUBSET Events)
    BY BusAssumption, Zenon
  <2>3. arg' \in [Actors -> (SUBSET Events) \X (SUBSET Events)]
    BY <1>i, <2>1, <2>2, Zenon DEF TypeOK
  <2>4. mask' \in [Threads -> SUBSET Events] /\ event' \in SUBSET Events /\ closed' \in BOOLEAN
    BY <1>i, <2>1, Zenon DEF TypeOK
  <2>5. /\ pc[a] \notin Walking /\ pc[a] \notin Waiting
        /\ "update" \in PCs /\ "update" \notin Walking /\ "update" \notin Waiting
    BY <1>p, <2>1, Zenon
  <2>6. UNCHANGED <<suspend_event, wakers, lk, notified, suspend, node, scan, acc>>
    BY <2>1, Zenon
  <2>7. (\A v \in Threads : v # a => mask'[v] = mask[v]) /\ event' = event /\ ~closed' /\ Goto(a, "update")
    BY <2>1, <2>3, <2>4, Zenon
  <2> QED
    BY <2>3, <2>4, <2>5, <2>6, <2>7, OutsideStep, Zenon
<1>2. ASSUME a \in Threads, NEW m \in (SUBSET Events) \ {{}}, wait_for_event(a, m) PROVE BusInv'
  <2>1. /\ pc[a] = "idle" /\ Goto(a, "register") /\ mask' = [mask EXCEPT ![a] = m]
        /\ event' = event /\ suspend_event' = suspend_event /\ closed' = closed
        /\ wakers' = wakers /\ lk' = lk /\ notified' = notified
        /\ suspend' = suspend /\ node' = node /\ arg' = arg /\ scan' = scan /\ acc' = acc
    BY <1>2 DEF wait_for_event, busvars, loopvars
  <2>2. mask' \in [Threads -> SUBSET Events] /\ \A u \in Threads : u # a => mask'[u] = mask[u]
    BY <1>i, <2>1, Zenon DEF TypeOK
  <2>3. /\ arg' \in [Actors -> (SUBSET Events) \X (SUBSET Events)] /\ event' \in SUBSET Events
        /\ closed' \in BOOLEAN
    BY <1>i, <2>1, Zenon DEF TypeOK
  <2>4. ~closed
    BY <1>2, <1>i, <2>1, Zenon DEF QuietInv
  <2>5. /\ pc[a] \notin Walking /\ pc[a] \notin Waiting
        /\ "register" \in PCs /\ "register" \notin Walking /\ "register" \notin Waiting
    BY <1>p, <2>1, Zenon
  <2>6. UNCHANGED <<suspend_event, wakers, lk, notified, suspend, node, scan, acc>>
    BY <2>1, Zenon
  <2>7. (\A v \in Threads : v # a => mask'[v] = mask[v]) /\ event' = event /\ ~closed' /\ Goto(a, "register")
    BY <2>1, <2>2, <2>3, <2>4, Zenon
  <2> QED
    BY <2>2, <2>3, <2>5, <2>6, <2>7, OutsideStep, Zenon
<1> QED
  BY <1>1, <1>2, Zenon

(* An update that no registered thread waits for leaves the lock at once. *)
LEMMA UpdateInv ==
  ASSUME BusInv, NEW a \in Actors, update(a)
  PROVE  BusInv'
<1> USE ActorFacts
<1>i. TypeOK /\ Locking /\ NodeInv /\ WalkInv /\ CoverInv /\ MarkInv /\ QuietInv
  BY Zenon DEF BusInv
<1>1. /\ pc[a] = "update" /\ lk = Nobody /\ arg' = [arg EXCEPT ![a] = <<{}, {}>>]
      /\ suspend_event' = suspend_event /\ closed' = closed /\ wakers' = wakers /\ notified' = notified
      /\ mask' = mask /\ suspend' = suspend /\ node' = node
  BY DEF update, nodevars
<1>2. pc[a] \notin Walking /\ pc[a] \notin Waiting
  BY <1>1, OutsidePlaces, Zenon
<1>3. arg' \in [Actors -> (SUBSET Events) \X (SUBSET Events)]
  <2>1. <<{}, {}>> \in (SUBSET Events) \X (SUBSET Events)
    OBVIOUS
  <2> QED
    BY <1>i, <1>1, <2>1, Zenon DEF TypeOK
<1>4. event \in SUBSET Events /\ closed \in BOOLEAN /\ Updated(arg[a]) \in SUBSET Events
  <2>1. arg[a] \in (SUBSET Events) \X (SUBSET Events) /\ event \in SUBSET Events /\ closed \in BOOLEAN
    BY <1>i, Zenon DEF TypeOK
  <2> QED
    BY <2>1 DEF Updated
<1>5. mask' \in [Threads -> SUBSET Events] /\ (\A v \in Threads : v # a => mask'[v] = mask[v])
  BY <1>i, <1>1, Zenon DEF TypeOK
<1>6. "idle" \in PCs /\ "idle" \notin Walking /\ "idle" \notin Waiting
  BY OutsidePlaces, Zenon
<1>7. CASE ~(~closed /\ should_suspend(event'))
  <2>1. /\ Goto(a, "idle") /\ lk' = lk /\ scan' = scan /\ acc' = acc
        /\ event' = event \/ (event' = Updated(arg[a]) /\ ~closed)
    BY <1>7 DEF update
  <2>2. event' \in SUBSET Events
    BY <1>4, <2>1, Zenon
  <2>3. event' = event \/ (lk = Nobody /\ event' \cap suspend_event = {})
    BY <1>1, <1>7, <2>1, Zenon DEF should_suspend
  <2>4. closed' => \A t \in Threads : pc'[t] = "dead"
    <3>1. "idle" # "dead" /\ pc[a] # "dead" /\ \A b \in Actors : b # a => pc'[b] = pc[b]
      BY <1>i, <1>1, <1>6, <2>1, GotoFacts, Zenon
    <3> QED
      BY <1>i, <1>1, <3>1, Zenon DEF QuietInv
  <2>5. UNCHANGED <<suspend_event, wakers, lk, notified, suspend, node, scan, acc>> /\ closed' \in BOOLEAN
    BY <1>1, <1>4, <2>1, Zenon
  <2> QED
    BY <1>2, <1>3, <1>5, <1>6, <2>1, <2>2, <2>3, <2>4, <2>5, OutsideStep, Zenon
<1>8. CASE ~closed /\ should_suspend(event')
  <2>1. /\ event' = Updated(arg[a]) /\ lk' = a /\ scan' = wakers /\ acc' = {} /\ Goto(a, "scan")
    BY <1>8, Zenon DEF update
  <2>s. "scan" \in PCs /\ "scan" \in Walking /\ "scan" \notin Waiting
    BY DEF PCs, Walking, Waiting
  <2>p. /\ pc' \in [Actors -> PCs] /\ pc'[a] = "scan"
        /\ \A b \in Actors : b # a => pc'[b] = pc[b]
    BY <1>i, <2>1, <2>s, GotoFacts, Zenon
  <2>n. \A b \in Actors : pc[b] \notin Walking
    BY <1>i, <1>1, Holder, Zenon
  <2>2. TypeOK'
    <3>1. event' \in SUBSET Events /\ acc' \in SUBSET Events /\ lk' \in Actors
      BY <1>4, <2>1, Zenon
    <3> QED
      BY <1>i, <1>1, <1>3, <2>1, <2>p, <3>1, Zenon DEF TypeOK
  <2>3. Locking'
    <3>1. pc'[a] \notin Walking \ {"scan"}
      BY <2>p, Zenon
    <3> QED
      BY <2>1, <2>p, <2>n, <2>s, <3>1, Zenon DEF Locking
  <2>4. NodeInv'
    BY <1>i, <1>1, <1>2, <2>p, <2>s, Zenon DEF NodeInv
  <2>5. WalkInv'
    <3>1. \A b \in Actors : pc'[b] \in {"scan", "wake", "unlink", "store_next"} => b = a /\ pc'[b] = "scan"
      BY <2>p, <2>n, Zenon DEF Walking
    <3>2. Once(scan') /\ Nodes(scan') = Nodes(wakers')
      BY <1>i, <1>1, <2>1, Zenon DEF TypeOK
    <3> QED
      BY <3>1, <3>2, Zenon DEF WalkInv
  <2>6. CoverInv'
    <3>1. Nodes(wakers') \ Nodes(scan') = {} /\ lk' # Nobody /\ event' \cap acc' = {}
      BY <1>1, <2>1, Zenon
    <3> QED
      BY <3>1, Zenon DEF CoverInv
  <2>7. MarkInv'
    <3>1. \A t \in Threads : ~WakeComing(t)
      BY <1>1, Zenon DEF WakeComing
    <3>2. \A t \in Threads : pc'[t] \in {"park", "parked"} => pc'[t] = pc[t]
      BY <2>p, Zenon
    <3> QED
      BY <1>i, <1>1, <3>1, <3>2, Zenon DEF MarkInv
  <2>8. QuietInv'
    BY <1>1, <1>8, Zenon DEF QuietInv
  <2> QED
    BY <2>2, <2>3, <2>4, <2>5, <2>6, <2>7, <2>8, Zenon DEF BusInv
<1> QED
  BY <1>7, <1>8, Zenon

(* The last thread to leave closes a bus whose list is empty already. *)
LEMMA ExitInv ==
  ASSUME BusInv, NEW t \in Threads, exit(t)
  PROVE  BusInv'
<1> USE ActorFacts
<1>i. TypeOK /\ Locking /\ NodeInv /\ WalkInv /\ CoverInv /\ MarkInv /\ QuietInv
  BY Zenon DEF BusInv
<1>1. /\ pc[t] = "idle" /\ Goto(t, "dead")
      /\ event' = event /\ suspend_event' = suspend_event /\ lk' = lk /\ notified' = notified
      /\ mask' = mask /\ suspend' = suspend /\ node' = node /\ arg' = arg /\ scan' = scan /\ acc' = acc
      /\ \/ closed' = closed /\ wakers' = wakers
         \/ closed' = TRUE /\ wakers' = <<>> /\ \A u \in Threads \ {t} : pc[u] = "dead"
  BY DEF exit, nodevars, loopvars
<1>2. /\ pc[t] \notin Walking /\ pc[t] \notin Waiting
      /\ "dead" \in PCs /\ "dead" \notin Walking /\ "dead" \notin Waiting
  BY <1>1, OutsidePlaces, Zenon
<1>3. pc'[t] = "dead" /\ \A b \in Actors : b # t => pc'[b] = pc[b]
  BY <1>i, <1>1, <1>2, GotoFacts, Zenon
<1>4. ~closed
  BY <1>i, <1>1, Zenon DEF QuietInv
<1>5. wakers' = wakers
  <2>1. ASSUME wakers' = <<>>, \A u \in Threads \ {t} : pc[u] = "dead" PROVE wakers = <<>>
    <3>1. \A u \in Threads : pc[u] \notin Waiting
      BY <1>2, <2>1
    <3>2. \A u \in Threads : u \notin Nodes(wakers)
      <4>1. "linked" # "none"
        OBVIOUS
      <4> QED
        BY <1>i, <3>1, <4>1, Zenon DEF NodeInv
    <3> QED
      BY <1>i, <3>2, NodesTypes, Zenon DEF TypeOK
  <2> QED
    BY <1>1, <2>1, Zenon
<1>6. closed' \in BOOLEAN /\ (closed' => \A u \in Threads : pc'[u] = "dead")
  <2>1. closed \in BOOLEAN /\ TRUE \in BOOLEAN
    BY <1>i, Zenon DEF TypeOK
  <2>2. closed' => \A u \in Threads \ {t} : pc[u] = "dead"
    BY <1>1, <1>4, Zenon
  <2> QED
    BY <1>1, <1>3, <2>1, <2>2, Zenon
<1>7. UNCHANGED <<suspend_event, wakers, lk, notified, suspend, node, scan, acc>>
  BY <1>1, <1>5, Zenon
<1>8. /\ mask' \in [Threads -> SUBSET Events] /\ (\A v \in Threads : v # t => mask'[v] = mask[v])
      /\ event' \in SUBSET Events /\ arg' \in [Actors -> (SUBSET Events) \X (SUBSET Events)]
  BY <1>i, <1>1, Zenon DEF TypeOK
<1> QED
  BY <1>1, <1>2, <1>6, <1>7, <1>8, OutsideStep, Zenon

(* The node at which the setter stands. *)
LEMMA HeadFacts ==
  ASSUME TypeOK, WalkInv, scan # <<>>
  PROVE  /\ Tail(scan) \in Seq(Threads) /\ Once(Tail(scan)) /\ Head(scan) \in Threads
         /\ Nodes(scan) = Nodes(Tail(scan)) \cup {Head(scan)} /\ Head(scan) \notin Nodes(Tail(scan))
         /\ Head(scan) \in Nodes(scan) /\ \A v \in Nodes(Tail(scan)) : v \in Nodes(scan)
<1>1. scan \in Seq(Threads) /\ Once(scan)
  BY Zenon DEF TypeOK, WalkInv
<1>2. /\ Tail(scan) \in Seq(Threads) /\ Once(Tail(scan)) /\ Head(scan) \in Threads
      /\ Nodes(scan) = Nodes(Tail(scan)) \cup {Head(scan)} /\ Head(scan) \notin Nodes(Tail(scan))
  BY <1>1, NodesTail, Zenon
<1> QED
  BY <1>2, Zenon

(* A thread frees its node: the node is out of the list, and the list        *)
(* changes only under the lock.                                              *)
LEMMA FreeStep ==
  ASSUME BusInv, NEW t \in Threads, pc[t] \in Waiting, Free(t),
         UNCHANGED <<busvars, lk, notified, loopvars>>,
         wakers' \in Seq(Threads), Once(wakers'), Nodes(wakers') = Nodes(wakers) \ {t},
         lk = Nobody \/ t \notin Nodes(wakers)
  PROVE  BusInv'
<1> USE ActorFacts
<1>i. TypeOK /\ Locking /\ NodeInv /\ WalkInv /\ CoverInv /\ MarkInv /\ QuietInv
  BY Zenon DEF BusInv
<1>u. /\ event' = event /\ suspend_event' = suspend_event /\ closed' = closed /\ lk' = lk
      /\ notified' = notified /\ arg' = arg /\ scan' = scan /\ acc' = acc
  BY DEF busvars, loopvars
<1>f. /\ node' = [node EXCEPT ![t] = "none"] /\ suspend' = [suspend EXCEPT ![t] = {}]
      /\ mask' = [mask EXCEPT ![t] = {}] /\ Goto(t, "idle")
  BY Zenon DEF Free
<1>n. /\ mask' \in [Threads -> SUBSET Events] /\ suspend' \in [Threads -> SUBSET Events]
      /\ node' \in [Threads -> {"none", "self", "linked"}]
      /\ node'[t] = "none" /\ suspend'[t] = {}
      /\ \A v \in Threads : v # t => node'[v] = node[v] /\ suspend'[v] = suspend[v] /\ mask'[v] = mask[v]
  <2>1. {} \in SUBSET Events /\ "none" \in {"none", "self", "linked"}
    OBVIOUS
  <2> QED
    BY <1>i, <1>f, <2>1, Zenon DEF TypeOK
<1>o. "idle" \in PCs /\ "idle" \notin Walking /\ "idle" \notin Waiting
  BY OutsidePlaces, Zenon
<1>p. /\ pc' \in [Actors -> PCs] /\ pc'[t] = "idle"
      /\ \A b \in Actors : b # t => pc'[b] = pc[b]
  BY <1>i, <1>f, <1>o, GotoFacts, Zenon
<1>w. pc[t] \notin Walking /\ lk # t
  BY <1>i, WaitingPlaces, Holder, Zenon
<1>1. TypeOK'
  BY <1>i, <1>u, <1>n, <1>p, Zenon DEF TypeOK
<1>2. Locking'
  BY <1>i, <1>u, <1>p, <1>o, <1>w, Zenon DEF Locking
<1>3. NodeInv'
  <2>1. /\ t \notin Nodes(wakers') /\ "none" # "linked" /\ "none" # "self"
        /\ \A v \in Threads : v # t => (v \in Nodes(wakers') <=> v \in Nodes(wakers))
    BY Zenon
  <2>2. \A v \in Threads : v # t => pc'[v] = pc[v]
    BY <1>p, Zenon
  <2>3. ~(pc'[t] \in Waiting)
    BY <1>p, <1>o, Zenon
  <2> QED
    BY <1>i, <1>n, <2>1, <2>2, <2>3, Zenon DEF NodeInv
<1>s. \A b \in Actors : pc'[b] \in Walking => pc'[b] = pc[b] /\ t \notin Nodes(wakers)
  BY <1>i, <1>p, <1>o, Holder, Zenon
<1>4. WalkInv'
  <2>1. \A b \in Actors : pc'[b] \in {"scan", "wake", "unlink", "store_next"} =>
          pc'[b] = pc[b] /\ Nodes(wakers') = Nodes(wakers) /\ t \notin Nodes(wakers)
    BY <1>s, Zenon DEF Walking
  <2>2. ASSUME NEW b \in Actors, pc'[b] \in {"wake", "unlink"} PROVE suspend'[Head(scan)] # {}
    <3>1. pc[b] \in {"wake", "unlink"} /\ t \notin Nodes(wakers)
      BY <2>1, <2>2, Zenon
    <3>2. scan # <<>>
      BY <1>i, <3>1, Zenon DEF Locking, Walking
    <3>3. Head(scan) \in Threads /\ Head(scan) \in Nodes(scan)
      BY <1>i, <3>2, HeadFacts, Zenon
    <3>4. Head(scan) # t /\ suspend[Head(scan)] # {}
      BY <1>i, <3>1, <3>3, Zenon DEF WalkInv
    <3> QED
      BY <1>n, <3>3, <3>4, Zenon
  <2> QED
    BY <1>i, <1>u, <2>1, <2>2, Zenon DEF WalkInv
<1>5. CoverInv'
  <2>1. \A v \in Nodes(wakers') : v \in Nodes(wakers) /\ mask'[v] = mask[v]
    BY <1>i, <1>n, NodesTypes, Zenon DEF TypeOK
  <2> QED
    BY <1>i, <1>u, <2>1, Zenon DEF CoverInv
<1>6. \A v \in Threads : WakeComing(v) => WakeComing(v)'
  <2>1. lk # Nobody => lk \in Actors /\ pc'[lk] = pc[lk]
    BY <1>i, <1>p, <1>w, Zenon DEF TypeOK
  <2> QED
    BY <1>u, <2>1, Zenon DEF WakeComing
<1>7. MarkInv'
  BY <1>i, <1>u, <1>n, <1>p, <1>6, Zenon DEF MarkInv
<1>8. QuietInv'
  BY <1>i, <1>u, WaitingPlaces, Zenon DEF QuietInv
<1> QED
  BY <1>1, <1>2, <1>3, <1>4, <1>5, <1>7, <1>8, Zenon DEF BusInv

(* remove frees a node the setter has unlinked; remove_locked unlinks first. *)
LEMMA RemoveInv ==
  ASSUME BusInv, NEW t \in Threads, remove(t) \/ remove_locked(t)
  PROVE  BusInv'
<1>i. TypeOK /\ NodeInv
  BY Zenon DEF BusInv
<1>w. "remove" \in Waiting /\ "remove_locked" \in Waiting /\ "remove_locked" # "park" /\ "remove_locked" # "parked"
  BY DEF Waiting
<1>1. CASE remove(t) /\ node[t] = "self"
  <2>1. pc[t] = "remove" /\ Free(t) /\ UNCHANGED <<busvars, lk, notified, loopvars>> /\ wakers' = wakers
    BY <1>1, Zenon DEF remove
  <2>2. t \notin Nodes(wakers)
    <3>1. "self" # "linked"
      OBVIOUS
    <3> QED
      BY <1>i, <1>1, <3>1, Zenon DEF NodeInv
  <2>3. wakers' \in Seq(Threads) /\ Once(wakers') /\ Nodes(wakers') = Nodes(wakers) \ {t}
    BY <1>i, <2>1, <2>2, Zenon DEF TypeOK
  <2> QED
    BY <1>w, <2>1, <2>2, <2>3, FreeStep, Zenon
<1>2. CASE remove(t) /\ node[t] # "self"
  <2>1. /\ pc[t] = "remove" /\ Goto(t, "remove_locked")
        /\ UNCHANGED <<busvars, wakers, lk, nodevars, loopvars>> /\ notified' = notified
    BY <1>2, Zenon DEF remove
  <2>2. notified' \in [Threads -> BOOLEAN] /\ \A v \in Threads : v # t => notified'[v] = notified[v]
    BY <1>i, <2>1, Zenon DEF TypeOK
  <2> QED
    BY <1>w, <2>1, <2>2, ThreadStep, Zenon
<1>3. CASE remove_locked(t)
  <2>1. /\ pc[t] = "remove_locked" /\ lk = Nobody /\ Free(t) /\ wakers' = pop_self(wakers, t)
        /\ UNCHANGED <<busvars, lk, notified, loopvars>>
    BY <1>3, Zenon DEF remove_locked
  <2>2. wakers' \in Seq(Threads) /\ Once(wakers') /\ Nodes(wakers') = Nodes(wakers) \ {t}
    BY <1>i, <2>1, NodesPop, Zenon DEF TypeOK
  <2> QED
    BY <1>w, <2>1, <2>2, FreeStep, Zenon
<1> QED
  BY <1>1, <1>2, <1>3, Zenon

(* A node is marked at once or linked behind the lock, and its thread will   *)
(* not sleep on a mark.                                                      *)
LEMMA RegisterInv ==
  ASSUME BusInv, NEW t \in Threads, register(t)
  PROVE  BusInv'
<1> USE ActorFacts
<1>i. TypeOK /\ Locking /\ NodeInv /\ WalkInv /\ CoverInv /\ MarkInv /\ QuietInv
  BY Zenon DEF BusInv
<1>r. /\ pc[t] = "register" /\ lk = Nobody
      /\ event' = event /\ closed' = closed /\ lk' = lk /\ mask' = mask
      /\ arg' = arg /\ scan' = scan /\ acc' = acc
  BY DEF register, loopvars
<1>o. /\ pc[t] \notin Walking /\ pc[t] \notin Waiting
      /\ "park" \in PCs /\ "park" \in Waiting /\ "park" \notin Walking /\ "park" # "parked"
  BY <1>r DEF PCs, Walking, Waiting
<1>n. /\ node[t] = "none" /\ suspend[t] = {} /\ t \notin Nodes(wakers)
      /\ "none" # "linked" /\ "none" # "self" /\ "self" # "linked"
  <2>1. "none" # "linked" /\ "none" # "self" /\ "self" # "linked"
    OBVIOUS
  <2> QED
    BY <1>i, <1>o, <2>1, Zenon DEF NodeInv
<1>c. ~closed
  BY <1>i, <1>r, Zenon DEF QuietInv
<1>w. \A b \in Actors : pc[b] \notin Walking
  BY <1>i, <1>r, Holder, Zenon
<1>s. \A v \in Threads : suspend[v] # {} => pc[v] # "parked" /\ (pc[v] = "park" => notified[v])
  BY <1>i, <1>r, Zenon DEF MarkInv, WakeComing
<1> DEFINE PcOK == /\ pc' \in [Actors -> PCs] /\ pc'[t] = "park"
                   /\ \A b \in Actors : b # t => pc'[b] = pc[b]
<1>a. ASSUME PcOK PROVE Locking' /\ QuietInv' /\ \A b \in Actors : pc'[b] \notin Walking
  <2>1. \A b \in Actors : pc'[b] \notin Walking
    BY <1>a, <1>o, <1>w, Zenon
  <2> QED
    BY <1>r, <1>c, <2>1, Zenon DEF Locking, QuietInv
<1>b. ASSUME \A b \in Actors : pc'[b] \notin Walking PROVE WalkInv'
  <2>1. \A b \in Actors : pc'[b] \notin {"scan", "wake", "unlink", "store_next"}
    BY <1>b, Zenon DEF Walking
  <2> QED
    BY <1>i, <1>r, <2>1, Zenon DEF WalkInv
<1>1. CASE event \cap mask[t] # {}
  <2>1. /\ suspend' = [suspend EXCEPT ![t] = event] /\ node' = [node EXCEPT ![t] = "self"]
        /\ WakeAnd(t, t, "park") /\ suspend_event' = suspend_event /\ wakers' = wakers
    BY <1>1, Zenon DEF register
  <2>2. PcOK /\ notified' \in [Threads -> BOOLEAN] /\ notified'[t]
        /\ \A v \in Threads : v # t => notified'[v] = notified[v]
    BY <1>i, <1>o, <2>1, WakeSelf, Zenon
  <2>3. /\ suspend' \in [Threads -> SUBSET Events] /\ node' \in [Threads -> {"none", "self", "linked"}]
        /\ node'[t] = "self" /\ suspend'[t] # {}
        /\ \A v \in Threads : v # t => node'[v] = node[v] /\ suspend'[v] = suspend[v]
    <3>1. "self" \in {"none", "self", "linked"} /\ event # {}
      BY <1>1, Zenon
    <3> QED
      BY <1>i, <2>1, <3>1, Zenon DEF TypeOK
  <2>4. TypeOK'
    BY <1>i, <1>r, <2>1, <2>2, <2>3, Zenon DEF TypeOK
  <2>5. NodeInv'
    <3>1. \A v \in Threads : v # t => pc'[v] = pc[v]
      BY <2>2, Zenon
    <3>2. pc'[t] \in Waiting
      BY <1>o, <2>2, Zenon
    <3> QED
      BY <1>i, <1>n, <2>1, <2>3, <3>1, <3>2, Zenon DEF NodeInv
  <2>6. CoverInv'
    BY <1>i, <1>r, <2>1, Zenon DEF CoverInv
  <2>7. MarkInv'
    <3>1. \A v \in Threads : v # t => pc'[v] = pc[v] /\ suspend'[v] = suspend[v] /\ notified'[v] = notified[v]
      BY <2>2, <2>3, Zenon
    <3>2. pc'[t] # "parked" /\ notified'[t]
      BY <1>o, <2>2, Zenon
    <3> QED
      BY <1>s, <3>1, <3>2, Zenon DEF MarkInv
  <2> QED
    BY <1>a, <1>b, <2>2, <2>4, <2>5, <2>6, <2>7, Zenon DEF BusInv
<1>2. CASE event \cap mask[t] = {}
  <2>1. /\ suspend_event' = suspend_event \cup mask[t] /\ wakers' = Append(wakers, t)
        /\ node' = [node EXCEPT ![t] = "linked"] /\ Goto(t, "park")
        /\ suspend' = suspend /\ notified' = notified
    BY <1>2, Zenon DEF register
  <2>2. PcOK
    BY <1>i, <1>o, <2>1, GotoFacts, Zenon
  <2>3. /\ node' \in [Threads -> {"none", "self", "linked"}] /\ node'[t] = "linked"
        /\ \A v \in Threads : v # t => node'[v] = node[v]
    BY <1>i, <2>1, Zenon DEF TypeOK
  <2>l. wakers' \in Seq(Threads) /\ Once(wakers') /\ Nodes(wakers') = Nodes(wakers) \cup {t}
    <3>1. wakers \in Seq(Threads) /\ Once(wakers)
      BY <1>i, Zenon DEF TypeOK
    <3> QED
      BY <1>n, <2>1, <3>1, NodesAppend, Zenon
  <2>4. TypeOK'
    <3>1. suspend_event' \in SUBSET Events
      BY <1>i, <2>1, Zenon DEF TypeOK
    <3> QED
      BY <1>i, <1>r, <2>1, <2>2, <2>3, <2>l, <3>1, Zenon DEF TypeOK
  <2>5. NodeInv'
    <3>1. \A v \in Threads : v # t => pc'[v] = pc[v] /\ (v \in Nodes(wakers') <=> v \in Nodes(wakers))
      BY <2>2, <2>l, Zenon
    <3>2. pc'[t] \in Waiting /\ t \in Nodes(wakers')
      BY <1>o, <2>2, <2>l, Zenon
    <3> QED
      BY <1>i, <1>n, <2>1, <2>3, <3>1, <3>2, Zenon DEF NodeInv
  <2>6. CoverInv'
    <3>1. event \cap suspend_event = {} /\ \A v \in Nodes(wakers) : mask[v] \subseteq suspend_event
      BY <1>i, <1>r, Zenon DEF CoverInv
    <3>2. event' \cap suspend_event' = {} /\ \A v \in Nodes(wakers') : mask'[v] \subseteq suspend_event'
      BY <1>r, <1>2, <2>1, <2>l, <3>1, Zenon
    <3> QED
      BY <1>r, <3>2, Zenon DEF CoverInv
  <2>7. MarkInv'
    BY <1>n, <1>s, <2>1, <2>2, Zenon DEF MarkInv
  <2> QED
    BY <1>a, <1>b, <2>2, <2>4, <2>5, <2>6, <2>7, Zenon DEF BusInv
<1> QED
  BY <1>1, <1>2, Zenon

(* The setter takes a step inside the lock to another place inside it: what  *)
(* that means for the lock and the closed flag.                              *)
LEMMA WalkerStep ==
  ASSUME BusInv, NEW a \in Actors, pc[a] \in Walking, lk' = lk, closed' = closed,
         pc'[a] \in Walking, pc'[a] = "scan" \/ scan' # <<>>,
         \A b \in Actors : b # a => pc'[b] = pc[b] \/ (pc[b] = "parked" /\ pc'[b] = "poll")
  PROVE  /\ Locking' /\ QuietInv' /\ lk = a /\ lk # Nobody
         /\ \A b \in Actors : b # a => pc'[b] \notin Walking /\ pc[b] \notin Walking
<1> USE ActorFacts
<1>i. Locking /\ QuietInv
  BY Zenon DEF BusInv
<1>1. lk = a /\ \A b \in Actors : b # a => pc[b] \notin Walking
  BY <1>i, Holder, Zenon
<1>2. \A b \in Actors : b # a => pc'[b] \notin Walking
  <2>1. "poll" \notin Walking
    BY DEF Walking
  <2> QED
    BY <1>1, <2>1, Zenon
<1>3. Locking'
  <2>1. pc'[a] \in Walking \ {"scan"} => scan' # <<>>
    BY Zenon
  <2> QED
    BY <1>1, <1>2, <2>1, Zenon DEF Locking
<1>4. QuietInv'
  <2>1. \A b \in Actors : pc[b] = "dead" => b = a \/ pc'[b] = "dead"
    OBVIOUS
  <2>2. pc[a] # "dead"
    BY DEF Walking
  <2> QED
    BY <1>i, <2>1, <2>2, Zenon DEF QuietInv
<1> QED
  BY <1>1, <1>2, <1>3, <1>4, Zenon

(* The setter passes a node that waits for other events. *)
LEMMA KeepInv ==
  ASSUME BusInv, NEW a \in Actors, keep(a)
  PROVE  BusInv'
<1> USE ActorFacts
<1>i. TypeOK /\ Locking /\ NodeInv /\ WalkInv /\ CoverInv /\ MarkInv /\ QuietInv
  BY Zenon DEF BusInv
<1> DEFINE h == Head(scan)
<1>k. /\ pc[a] = "scan" /\ scan # <<>> /\ mask[h] \cap event = {}
      /\ acc' = acc \cup mask[h] /\ scan' = Tail(scan)
      /\ event' = event /\ suspend_event' = suspend_event /\ closed' = closed
      /\ wakers' = wakers /\ lk' = lk /\ pc' = pc /\ notified' = notified
      /\ mask' = mask /\ suspend' = suspend /\ node' = node /\ arg' = arg
  BY DEF keep, busvars, nodevars
<1>h. /\ Tail(scan) \in Seq(Threads) /\ Once(Tail(scan)) /\ h \in Threads
      /\ Nodes(scan) = Nodes(Tail(scan)) \cup {h} /\ h \in Nodes(scan)
      /\ \A v \in Nodes(Tail(scan)) : v \in Nodes(scan)
  BY <1>i, <1>k, HeadFacts, Zenon
<1> HIDE DEF h
<1>w. /\ Locking' /\ QuietInv' /\ lk = a /\ lk # Nobody
      /\ \A b \in Actors : b # a => pc[b] \notin Walking
  <2>1. pc[a] \in Walking
    BY <1>k, Zenon DEF Walking
  <2> QED
    BY <1>k, <2>1, WalkerStep, Zenon
<1>1. TypeOK'
  <2>1. acc' \in SUBSET Events
    <3>1. acc \in SUBSET Events /\ mask[h] \in SUBSET Events
      BY <1>i, <1>h, Zenon DEF TypeOK
    <3> QED
      BY <1>k, <3>1, Zenon
  <2> QED
    BY <1>i, <1>k, <1>h, <2>1, Zenon DEF TypeOK
<1>2. NodeInv'
  BY <1>i, <1>k, Zenon DEF NodeInv
<1>3. WalkInv'
  <2>1. \A b \in Actors : pc'[b] \in {"scan", "wake", "unlink", "store_next"} => b = a /\ pc'[b] = "scan"
    BY <1>k, <1>w, Zenon DEF Walking
  <2>2. Once(scan') /\ Nodes(scan') \subseteq Nodes(wakers')
    BY <1>i, <1>k, <1>h, Zenon DEF WalkInv
  <2> QED
    BY <2>1, <2>2, Zenon DEF WalkInv
<1>4. CoverInv'
  <2>1. event \cap acc = {} /\ \A v \in Nodes(wakers) \ Nodes(scan) : mask[v] \subseteq acc
    BY <1>i, <1>w, Zenon DEF CoverInv
  <2>2. event' \cap acc' = {}
    BY <1>k, <2>1, Zenon
  <2>3. \A v \in Nodes(wakers') \ Nodes(scan') : mask'[v] \subseteq acc'
    BY <1>k, <1>h, <2>1, Zenon
  <2> QED
    BY <1>k, <1>w, <2>2, <2>3, Zenon DEF CoverInv
<1>5. MarkInv'
  BY <1>i, <1>k, <1>w, Zenon DEF MarkInv, WakeComing
<1> QED
  BY <1>1, <1>w, <1>2, <1>3, <1>4, <1>5, Zenon DEF BusInv

(* The setter marks a node: its thread is not the setter, which has none. *)
LEMMA MarkStepInv ==
  ASSUME BusInv, NEW a \in Actors, mark(a)
  PROVE  BusInv'
<1> USE ActorFacts
<1>i. TypeOK /\ Locking /\ NodeInv /\ WalkInv /\ CoverInv /\ MarkInv /\ QuietInv
  BY Zenon DEF BusInv
<1>d. PICK h : h = Head(scan)
  OBVIOUS
<1>k. /\ pc[a] = "scan" /\ scan # <<>> /\ mask[h] \cap event # {}
      /\ suspend' = [suspend EXCEPT ![h] = event] /\ Goto(a, "wake")
      /\ event' = event /\ suspend_event' = suspend_event /\ closed' = closed
      /\ wakers' = wakers /\ lk' = lk /\ notified' = notified
      /\ mask' = mask /\ node' = node /\ arg' = arg /\ scan' = scan /\ acc' = acc
  BY <1>d DEF mark, busvars, loopvars
<1>h. h \in Threads /\ h \in Nodes(scan)
  BY <1>i, <1>d, <1>k, HeadFacts, Zenon
<1>o. h = Head(scan')
  BY <1>d, <1>k, Zenon
<1>p. /\ pc' \in [Actors -> PCs] /\ pc'[a] = "wake" /\ "wake" \in Walking /\ "wake" \notin Waiting
      /\ "scan" \in Walking /\ "scan" \notin Waiting
      /\ \A b \in Actors : b # a => pc'[b] = pc[b]
  <2>1. /\ "wake" \in PCs /\ "wake" \in Walking /\ "wake" \notin Waiting
        /\ "scan" \in Walking /\ "scan" \notin Waiting
    BY DEF PCs, Walking, Waiting
  <2> QED
    BY <1>i, <1>k, <2>1, GotoFacts, Zenon
<1>w. /\ Locking' /\ QuietInv' /\ lk = a /\ lk # Nobody
      /\ \A b \in Actors : b # a => pc'[b] \notin Walking /\ pc[b] \notin Walking
  <2>1. pc[a] \in Walking /\ pc'[a] \in Walking
    BY <1>k, <1>p, Zenon
  <2>2. \A b \in Actors : b # a => pc'[b] = pc[b] \/ (pc[b] = "parked" /\ pc'[b] = "poll")
    BY <1>p, Zenon
  <2> QED
    BY <1>k, <2>1, <2>2, WalkerStep, Zenon
<1>n. /\ suspend' \in [Threads -> SUBSET Events] /\ suspend'[h] # {}
      /\ \A v \in Threads : v # h => suspend'[v] = suspend[v]
  BY <1>i, <1>k, <1>h, Zenon DEF TypeOK
<1>l. node[h] = "linked" /\ h \in Nodes(wakers)
  BY <1>i, <1>k, <1>h, Zenon DEF NodeInv, WalkInv
<1>1. TypeOK'
  BY <1>i, <1>k, <1>p, <1>n, Zenon DEF TypeOK
<1>2. NodeInv'
  <2>1. \A v \in Threads : pc'[v] \in Waiting <=> pc[v] \in Waiting
    BY <1>k, <1>p, Zenon
  <2>2. "linked" # "none"
    OBVIOUS
  <2> QED
    BY <1>i, <1>k, <1>n, <1>l, <2>1, <2>2, Zenon DEF NodeInv
<1>3. WalkInv'
  <2>1. \A b \in Actors : pc'[b] \in {"scan", "wake", "unlink", "store_next"} => b = a /\ pc'[b] = "wake"
    BY <1>p, <1>w, Zenon DEF Walking
  <2>2. Once(scan') /\ Nodes(scan') \subseteq Nodes(wakers') /\ suspend'[Head(scan')] # {}
    BY <1>i, <1>k, <1>n, <1>o, Zenon DEF WalkInv
  <2> QED
    BY <2>1, <2>2, Zenon DEF WalkInv
<1>4. CoverInv'
  BY <1>i, <1>k, Zenon DEF CoverInv
<1>5. MarkInv'
  <2>1. WakeComing(h)'
    BY <1>k, <1>p, <1>w, <1>o, Zenon DEF WakeComing
  <2>2. \A v \in Threads : ~WakeComing(v)
    BY <1>k, <1>w, Zenon DEF WakeComing
  <2>3. \A v \in Threads : pc'[v] \in {"park", "parked"} => pc'[v] = pc[v]
    BY <1>p, Zenon
  <2> QED
    BY <1>i, <1>k, <1>n, <2>1, <2>2, <2>3, Zenon DEF MarkInv
<1> QED
  BY <1>1, <1>w, <1>2, <1>3, <1>4, <1>5, Zenon DEF BusInv

(* The setter wakes the thread of the node it has marked. *)
LEMMA WakeStepInv ==
  ASSUME BusInv, NEW a \in Actors, wake(a)
  PROVE  BusInv'
<1> USE ActorFacts
<1>i. TypeOK /\ Locking /\ NodeInv /\ WalkInv /\ CoverInv /\ MarkInv /\ QuietInv
  BY Zenon DEF BusInv
<1>d. PICK h : h = Head(scan)
  OBVIOUS
<1>k. /\ pc[a] = "wake" /\ WakeAnd(h, a, "unlink")
      /\ event' = event /\ suspend_event' = suspend_event /\ closed' = closed
      /\ wakers' = wakers /\ lk' = lk
      /\ mask' = mask /\ suspend' = suspend /\ node' = node /\ arg' = arg /\ scan' = scan /\ acc' = acc
  BY <1>d DEF wake, busvars, nodevars, loopvars
<1>o. /\ "unlink" \in PCs /\ "unlink" \in Walking /\ "unlink" \notin Waiting /\ "unlink" # "parked"
      /\ "wake" \in Walking \ {"scan"} /\ "wake" \notin Waiting
      /\ "parked" \in Waiting /\ "poll" \in Waiting /\ "poll" # "park"
  BY DEF PCs, Walking, Waiting
<1>e. scan # <<>>
  BY <1>i, <1>k, <1>o, Zenon DEF Locking
<1>h. h \in Threads /\ h \in Nodes(wakers)
  <2>1. Head(scan) \in Threads /\ Head(scan) \in Nodes(scan)
    BY <1>i, <1>e, HeadFacts, Zenon
  <2> QED
    BY <1>i, <1>d, <1>k, <2>1, Zenon DEF WalkInv
<1>l. h # a
  <2>1. pc[h] \in Waiting
    <3>1. "linked" # "none"
      OBVIOUS
    <3> QED
      BY <1>i, <1>h, <3>1, Zenon DEF NodeInv
  <2> QED
    BY <1>k, <1>o, <2>1, Zenon
<1>p. /\ pc' \in [Actors -> PCs] /\ notified' \in [Threads -> BOOLEAN]
      /\ pc'[a] = "unlink" /\ pc'[h] # "parked"
      /\ \A b \in Actors : b # a /\ (b # h \/ pc[h] # "parked") => pc'[b] = pc[b]
      /\ h # a /\ pc[h] = "parked" => pc'[h] = "poll"
      /\ h = a \/ pc[h] # "parked" => notified'[h]
      /\ \A u \in Threads : u # h => notified'[u] = notified[u]
  BY <1>i, <1>k, <1>o, <1>h, WakeFacts, Zenon
<1>q. \A b \in Actors : b # a => pc'[b] = pc[b] \/ (pc[b] = "parked" /\ pc'[b] = "poll")
  BY <1>l, <1>p, Zenon
<1>w. /\ Locking' /\ QuietInv' /\ lk = a /\ lk # Nobody
      /\ \A b \in Actors : b # a => pc'[b] \notin Walking /\ pc[b] \notin Walking
  <2>1. pc[a] \in Walking /\ pc'[a] \in Walking /\ scan' # <<>>
    BY <1>k, <1>o, <1>e, <1>p, Zenon
  <2> QED
    BY <1>k, <1>q, <2>1, WalkerStep, Zenon
<1>1. TypeOK'
  BY <1>i, <1>k, <1>p, Zenon DEF TypeOK
<1>2. NodeInv'
  <2>1. \A v \in Threads : pc'[v] \in Waiting <=> pc[v] \in Waiting
    BY <1>k, <1>o, <1>p, <1>q, Zenon
  <2> QED
    BY <1>i, <1>k, <2>1, Zenon DEF NodeInv
<1>3. WalkInv'
  <2>1. \A b \in Actors : pc'[b] \in {"scan", "wake", "unlink", "store_next"} => b = a /\ pc'[b] = "unlink"
    BY <1>p, <1>w, Zenon DEF Walking
  <2>2. Once(scan') /\ Nodes(scan') \subseteq Nodes(wakers') /\ suspend'[Head(scan')] # {}
    BY <1>i, <1>k, Zenon DEF WalkInv
  <2> QED
    BY <2>1, <2>2, Zenon DEF WalkInv
<1>4. CoverInv'
  BY <1>i, <1>k, Zenon DEF CoverInv
<1>5. MarkInv'
  <2>1. \A v \in Threads : v # h => ~WakeComing(v)
    BY <1>d, Zenon DEF WakeComing
  <2>2. \A v \in Threads : v # h /\ pc'[v] \in {"park", "parked"} => pc'[v] = pc[v]
    BY <1>p, Zenon
  <2>3. \A v \in Threads : v # h /\ suspend'[v] # {} => pc'[v] # "parked" /\ (pc'[v] = "park" => notified'[v])
    BY <1>i, <1>k, <1>p, <2>1, <2>2, Zenon DEF MarkInv
  <2>4. pc'[h] # "parked" /\ (pc'[h] = "park" => notified'[h])
    BY <1>l, <1>o, <1>p, Zenon
  <2> QED
    BY <2>3, <2>4, Zenon DEF MarkInv
<1> QED
  BY <1>1, <1>w, <1>2, <1>3, <1>4, <1>5, Zenon DEF BusInv

(* The setter unlinks a node it has marked. *)
LEMMA UnlinkInv ==
  ASSUME BusInv, NEW a \in Actors, unlink(a)
  PROVE  BusInv'
<1> USE ActorFacts
<1>i. TypeOK /\ Locking /\ NodeInv /\ WalkInv /\ CoverInv /\ MarkInv /\ QuietInv
  BY Zenon DEF BusInv
<1>d. PICK h : h = Head(scan)
  OBVIOUS
<1>k. /\ pc[a] = "unlink" /\ Goto(a, "store_next")
      /\ wakers' = pop_self(wakers, h) /\ node' = [node EXCEPT ![h] = "self"]
      /\ event' = event /\ suspend_event' = suspend_event /\ closed' = closed
      /\ lk' = lk /\ notified' = notified
      /\ mask' = mask /\ suspend' = suspend /\ arg' = arg /\ scan' = scan /\ acc' = acc
  BY <1>d DEF unlink, busvars, loopvars
<1>o. /\ "store_next" \in PCs /\ "store_next" \in Walking /\ "store_next" \notin Waiting
      /\ "unlink" \in Walking \ {"scan"} /\ "unlink" \notin Waiting
  BY DEF PCs, Walking, Waiting
<1>e. scan # <<>>
  BY <1>i, <1>k, <1>o, Zenon DEF Locking
<1>t. /\ h \in Threads /\ h \in Nodes(scan) /\ h \notin Nodes(Tail(scan))
      /\ \A v \in Nodes(Tail(scan)) : v \in Nodes(scan)
  BY <1>i, <1>d, <1>e, HeadFacts, Zenon
<1>h. h \in Nodes(wakers) /\ suspend[h] # {} /\ Nodes(scan) \subseteq Nodes(wakers)
  BY <1>i, <1>d, <1>k, <1>t, Zenon DEF WalkInv
<1>p. /\ pc' \in [Actors -> PCs] /\ pc'[a] = "store_next"
      /\ \A b \in Actors : b # a => pc'[b] = pc[b]
  BY <1>i, <1>k, <1>o, GotoFacts, Zenon
<1>w. /\ Locking' /\ QuietInv' /\ lk = a /\ lk # Nobody
      /\ \A b \in Actors : b # a => pc'[b] \notin Walking /\ pc[b] \notin Walking
  <2>1. pc[a] \in Walking /\ pc'[a] \in Walking /\ scan' # <<>>
    BY <1>k, <1>o, <1>e, <1>p, Zenon
  <2>2. \A b \in Actors : b # a => pc'[b] = pc[b] \/ (pc[b] = "parked" /\ pc'[b] = "poll")
    BY <1>p, Zenon
  <2> QED
    BY <1>k, <2>1, <2>2, WalkerStep, Zenon
<1>n. /\ node' \in [Threads -> {"none", "self", "linked"}] /\ node'[h] = "self"
      /\ \A v \in Threads : v # h => node'[v] = node[v]
  BY <1>i, <1>k, <1>t, Zenon DEF TypeOK
<1>l. wakers' \in Seq(Threads) /\ Once(wakers') /\ Nodes(wakers') = Nodes(wakers) \ {h}
  <2>1. wakers \in Seq(Threads) /\ Once(wakers)
    BY <1>i, Zenon DEF TypeOK
  <2> QED
    BY <1>k, <2>1, NodesPop, Zenon
<1>1. TypeOK'
  BY <1>i, <1>k, <1>p, <1>n, <1>l, Zenon DEF TypeOK
<1>2. NodeInv'
  <2>1. \A v \in Threads : pc'[v] \in Waiting <=> pc[v] \in Waiting
    BY <1>k, <1>o, <1>p, Zenon
  <2>2. \A v \in Threads : v # h => (v \in Nodes(wakers') <=> v \in Nodes(wakers))
    BY <1>l, Zenon
  <2>3. h \notin Nodes(wakers') /\ "self" # "linked" /\ "self" # "none" /\ "linked" # "none"
    BY <1>l, Zenon
  <2> QED
    BY <1>i, <1>k, <1>n, <1>h, <1>t, <2>1, <2>2, <2>3, Zenon DEF NodeInv
<1>3. WalkInv'
  <2>1. \A b \in Actors : pc'[b] \in {"scan", "wake", "unlink", "store_next"} => b = a /\ pc'[b] = "store_next"
    BY <1>p, <1>w, Zenon DEF Walking
  <2>2. Nodes(Tail(scan)) \subseteq Nodes(wakers') /\ h \notin Nodes(wakers')
    BY <1>t, <1>h, <1>l, Zenon
  <2>3. Once(scan') /\ Nodes(Tail(scan')) \subseteq Nodes(wakers') /\ Head(scan') \notin Nodes(wakers')
    BY <1>i, <1>d, <1>k, <2>2, Zenon DEF WalkInv
  <2> QED
    BY <2>1, <2>3, Zenon DEF WalkInv
<1>4. CoverInv'
  <2>1. \A v \in Nodes(wakers') : v \in Nodes(wakers)
    BY <1>l, Zenon
  <2> QED
    BY <1>i, <1>k, <1>w, <2>1, Zenon DEF CoverInv
<1>5. MarkInv'
  <2>1. \A v \in Threads : ~WakeComing(v)
    BY <1>k, <1>w, Zenon DEF WakeComing
  <2>2. \A v \in Threads : pc'[v] \in {"park", "parked"} => pc'[v] = pc[v]
    BY <1>p, Zenon
  <2> QED
    BY <1>i, <1>k, <2>1, <2>2, Zenon DEF MarkInv
<1> QED
  BY <1>1, <1>w, <1>2, <1>3, <1>4, <1>5, Zenon DEF BusInv

(* The last store to the unlinked node: the setter goes on with the rest. *)
LEMMA StoreNextInv ==
  ASSUME BusInv, NEW a \in Actors, store_next(a)
  PROVE  BusInv'
<1> USE ActorFacts
<1>i. TypeOK /\ Locking /\ NodeInv /\ WalkInv /\ CoverInv /\ MarkInv /\ QuietInv
  BY Zenon DEF BusInv
<1>k. /\ pc[a] = "store_next" /\ scan' = Tail(scan) /\ Goto(a, "scan")
      /\ event' = event /\ suspend_event' = suspend_event /\ closed' = closed
      /\ wakers' = wakers /\ lk' = lk /\ notified' = notified
      /\ mask' = mask /\ suspend' = suspend /\ node' = node /\ arg' = arg /\ acc' = acc
  BY DEF store_next, busvars, nodevars
<1>o. /\ "scan" \in PCs /\ "scan" \in Walking /\ "scan" \notin Waiting
      /\ "store_next" \in Walking \ {"scan"} /\ "store_next" \notin Waiting
  BY DEF PCs, Walking, Waiting
<1>e. scan # <<>>
  BY <1>i, <1>k, <1>o, Zenon DEF Locking
<1>h. /\ Tail(scan) \in Seq(Threads) /\ Once(Tail(scan))
      /\ Nodes(scan) = Nodes(Tail(scan)) \cup {Head(scan)}
  BY <1>i, <1>e, HeadFacts, Zenon
<1>l. Nodes(Tail(scan)) \subseteq Nodes(wakers) /\ Head(scan) \notin Nodes(wakers)
  BY <1>i, <1>k, Zenon DEF WalkInv
<1>p. /\ pc' \in [Actors -> PCs] /\ pc'[a] = "scan"
      /\ \A b \in Actors : b # a => pc'[b] = pc[b]
  BY <1>i, <1>k, <1>o, GotoFacts, Zenon
<1>w. /\ Locking' /\ QuietInv' /\ lk = a /\ lk # Nobody
      /\ \A b \in Actors : b # a => pc'[b] \notin Walking /\ pc[b] \notin Walking
  <2>1. pc[a] \in Walking /\ pc'[a] \in Walking
    BY <1>k, <1>o, <1>p, Zenon
  <2>2. \A b \in Actors : b # a => pc'[b] = pc[b] \/ (pc[b] = "parked" /\ pc'[b] = "poll")
    BY <1>p, Zenon
  <2> QED
    BY <1>k, <1>p, <2>1, <2>2, WalkerStep, Zenon
<1>1. TypeOK'
  BY <1>i, <1>k, <1>p, <1>h, Zenon DEF TypeOK
<1>2. NodeInv'
  <2>1. \A v \in Threads : pc'[v] \in Waiting <=> pc[v] \in Waiting
    BY <1>k, <1>o, <1>p, Zenon
  <2> QED
    BY <1>i, <1>k, <2>1, Zenon DEF NodeInv
<1>3. WalkInv'
  <2>1. \A b \in Actors : pc'[b] \in {"scan", "wake", "unlink", "store_next"} => b = a /\ pc'[b] = "scan"
    BY <1>p, <1>w, Zenon DEF Walking
  <2>2. Once(scan') /\ Nodes(scan') \subseteq Nodes(wakers')
    BY <1>k, <1>h, <1>l, Zenon
  <2> QED
    BY <2>1, <2>2, Zenon DEF WalkInv
<1>4. CoverInv'
  <2>1. \A v \in Nodes(wakers) \ Nodes(Tail(scan)) : v \in Nodes(wakers) \ Nodes(scan)
    BY <1>h, <1>l, Zenon
  <2> QED
    BY <1>i, <1>k, <1>w, <2>1, Zenon DEF CoverInv
<1>5. MarkInv'
  <2>1. \A v \in Threads : ~WakeComing(v)
    BY <1>k, <1>w, Zenon DEF WakeComing
  <2>2. \A v \in Threads : pc'[v] \in {"park", "parked"} => pc'[v] = pc[v]
    BY <1>p, Zenon
  <2> QED
    BY <1>i, <1>k, <2>1, <2>2, Zenon DEF MarkInv
<1> QED
  BY <1>1, <1>w, <1>2, <1>3, <1>4, <1>5, Zenon DEF BusInv

(* The walk is over: acc sums up the masks of all the nodes that stay. *)
LEMMA FinishInv ==
  ASSUME BusInv, NEW a \in Actors, finish(a)
  PROVE  BusInv'
<1> USE ActorFacts
<1>i. TypeOK /\ Locking /\ NodeInv /\ WalkInv /\ CoverInv /\ MarkInv /\ QuietInv
  BY Zenon DEF BusInv
<1>k. /\ pc[a] = "scan" /\ scan = <<>> /\ suspend_event' = acc /\ lk' = Nobody /\ acc' = {}
      /\ Goto(a, "idle") /\ event' = event /\ closed' = closed /\ wakers' = wakers /\ notified' = notified
      /\ mask' = mask /\ suspend' = suspend /\ node' = node /\ arg' = arg /\ scan' = scan
  BY DEF finish, nodevars
<1>o. "scan" \in Walking /\ "scan" \notin Waiting /\ "scan" # "dead" /\ "scan" # "wake"
  BY DEF Walking, Waiting
<1>q. "idle" \in PCs /\ "idle" \notin Walking /\ "idle" \notin Waiting
  BY OutsidePlaces, Zenon
<1>p. /\ pc' \in [Actors -> PCs] /\ pc'[a] = "idle"
      /\ \A b \in Actors : b # a => pc'[b] = pc[b]
  BY <1>i, <1>k, <1>q, GotoFacts, Zenon
<1>w. lk = a /\ lk # Nobody /\ \A b \in Actors : pc'[b] \notin Walking
  <2>1. lk = a /\ \A b \in Actors : b # a => pc[b] \notin Walking
    BY <1>i, <1>k, <1>o, Holder, Zenon
  <2> QED
    BY <1>p, <1>q, <2>1, Zenon
<1>1. TypeOK'
  <2>1. acc' \in SUBSET Events /\ suspend_event' \in SUBSET Events /\ lk' \in Actors \cup {Nobody}
    BY <1>i, <1>k, Zenon DEF TypeOK
  <2> QED
    BY <1>i, <1>k, <1>p, <2>1, Zenon DEF TypeOK
<1>2. Locking'
  BY <1>k, <1>w, Zenon DEF Locking
<1>3. NodeInv'
  <2>1. \A v \in Threads : pc'[v] \in Waiting <=> pc[v] \in Waiting
    BY <1>k, <1>o, <1>q, <1>p, Zenon
  <2> QED
    BY <1>i, <1>k, <2>1, Zenon DEF NodeInv
<1>4. WalkInv'
  <2>1. \A b \in Actors : pc'[b] \notin {"scan", "wake", "unlink", "store_next"}
    BY <1>w, Zenon DEF Walking
  <2> QED
    BY <1>i, <1>k, <2>1, Zenon DEF WalkInv
<1>5. CoverInv'
  <2>1. Nodes(scan) = {}
    BY <1>i, <1>k, NodesTypes, Zenon DEF TypeOK
  <2> QED
    BY <1>i, <1>k, <1>w, <2>1, Zenon DEF CoverInv
<1>6. MarkInv'
  <2>1. \A v \in Threads : ~WakeComing(v)
    BY <1>k, <1>w, <1>o, Zenon DEF WakeComing
  <2>2. \A v \in Threads : pc'[v] \in {"park", "parked"} => pc'[v] = pc[v]
    BY <1>p, Zenon
  <2> QED
    BY <1>i, <1>k, <2>1, <2>2, Zenon DEF MarkInv
<1>7. QuietInv'
  BY <1>i, <1>k, <1>o, <1>p, Zenon DEF QuietInv
<1> QED
  BY <1>1, <1>2, <1>3, <1>4, <1>5, <1>6, <1>7, Zenon DEF BusInv

-----------------------------------------------------------------------------
(* The bus starts with no event, no node and no setter. *)
LEMMA InitInv == Init => BusInv
<1> SUFFICES ASSUME Init PROVE BusInv
  OBVIOUS
<1> USE ActorFacts
<1>1. /\ event = {} /\ suspend_event = {} /\ closed = FALSE /\ wakers = <<>> /\ lk = Nobody
      /\ scan = <<>> /\ acc = {}
      /\ \A a \in Actors : pc[a] = "idle"
      /\ \A t \in Threads : notified[t] = FALSE /\ mask[t] = {} /\ suspend[t] = {} /\ node[t] = "none"
  BY Zenon DEF Init
<1>2. "idle" \in PCs /\ "idle" \notin Walking /\ "idle" \notin Waiting
  BY OutsidePlaces, Zenon
<1>3. <<>> \in Seq(Threads) /\ Once(<<>>) /\ Nodes(<<>>) = {}
  BY DEF Once, Nodes
<1>4. TypeOK
  <2>1. /\ pc \in [Actors -> PCs] /\ notified \in [Threads -> BOOLEAN]
        /\ mask \in [Threads -> SUBSET Events] /\ suspend \in [Threads -> SUBSET Events]
        /\ node \in [Threads -> {"none", "self", "linked"}]
    BY <1>2, Zenon DEF Init
  <2>2. arg \in [Actors -> (SUBSET Events) \X (SUBSET Events)]
    BY DEF Init
  <2> QED
    BY <1>1, <1>3, <2>1, <2>2, Zenon DEF TypeOK
<1>5. Locking
  BY <1>1, <1>2, Zenon DEF Locking
<1>6. NodeInv
  <2>1. "none" # "linked" /\ "none" # "self"
    OBVIOUS
  <2> QED
    BY <1>1, <1>2, <1>3, <2>1, Zenon DEF NodeInv
<1>7. WalkInv
  <2>1. \A b \in Actors : pc[b] \notin {"scan", "wake", "unlink", "store_next"}
    BY <1>1, <1>2, Zenon DEF Walking
  <2> QED
    BY <1>1, <1>3, <2>1, Zenon DEF WalkInv
<1>8. CoverInv
  BY <1>1, <1>3, Zenon DEF CoverInv
<1>9. MarkInv /\ QuietInv
  BY <1>1, Zenon DEF MarkInv, QuietInv
<1> QED
  BY <1>4, <1>5, <1>6, <1>7, <1>8, <1>9, Zenon DEF BusInv

(* Every step of an actor keeps the invariant. *)
LEMMA StepInv == BusInv /\ [Next]_vars => BusInv'
<1> SUFFICES ASSUME BusInv, [Next]_vars PROVE BusInv'
  OBVIOUS
<1>1. ASSUME NEW a \in Actors, BusStep(a) PROVE BusInv'
  BY <1>1, UpdateInv, KeepInv, MarkStepInv, WakeStepInv, UnlinkInv, StoreNextInv, FinishInv, Zenon DEF BusStep
<1>2. ASSUME NEW a \in Actors, NEW u \in Updates, clear_then_set(a, u) PROVE BusInv'
  BY <1>2, CallSteps, Zenon
<1>3. ASSUME NEW t \in Threads, WaitStep(t) PROVE BusInv'
  BY <1>3, RegisterInv, WaiterSteps, RemoveInv, Zenon DEF WaitStep
<1>4. ASSUME NEW t \in Threads, spurious(t) \/ cancel(t) \/ exit(t) PROVE BusInv'
  BY <1>4, WaiterSteps, ExitInv, Zenon
<1>5. ASSUME NEW t \in Threads, NEW m \in (SUBSET Events) \ {{}}, wait_for_event(t, m) PROVE BusInv'
  BY <1>5, ActorFacts, CallSteps, Zenon
<1>6. ASSUME UNCHANGED vars PROVE BusInv'
  <2>1. /\ event' = event /\ suspend_event' = suspend_event /\ closed' = closed
        /\ wakers' = wakers /\ lk' = lk /\ pc' = pc /\ notified' = notified
        /\ mask' = mask /\ suspend' = suspend /\ node' = node /\ arg' = arg /\ scan' = scan /\ acc' = acc
    BY <1>6 DEF vars, busvars, nodevars, loopvars
  <2> QED
    BY <2>1, Zenon DEF BusInv, TypeOK, Locking, NodeInv, WalkInv, CoverInv, MarkInv, WakeComing, QuietInv
<1> QED
  BY <1>1, <1>2, <1>3, <1>4, <1>5, <1>6, Zenon DEF Next, Terminated

(* What the invariant says of the nodes the setter touches. *)
LEMMA InvNodes == BusInv => NodesSafe
<1> SUFFICES ASSUME BusInv PROVE NodesSafe
  OBVIOUS
<1>i. TypeOK /\ Locking /\ NodeInv /\ WalkInv
  BY Zenon DEF BusInv
<1>1. ASSUME NEW a \in Actors, pc[a] \in Walking \ {"scan"} PROVE Head(scan) \in Threads /\ Head(scan) \in Nodes(scan)
  <2>1. scan # <<>>
    BY <1>i, <1>1, Zenon DEF Locking
  <2> QED
    BY <1>i, <2>1, HeadFacts, Zenon
<1>2. ASSUME NEW a \in Actors, pc[a] \in {"wake", "unlink"} PROVE node[Head(scan)] = "linked"
  <2>1. pc[a] \in Walking \ {"scan"}
    BY <1>2 DEF Walking
  <2>2. Nodes(scan) \subseteq Nodes(wakers)
    BY <1>i, <1>2, Zenon DEF WalkInv
  <2> QED
    BY <1>i, <1>1, <2>1, <2>2, Zenon DEF NodeInv
<1>3. ASSUME NEW a \in Actors, pc[a] = "store_next" PROVE node[Head(scan)] # "linked"
  <2>1. pc[a] \in Walking \ {"scan"}
    BY <1>3 DEF Walking
  <2>2. Head(scan) \notin Nodes(wakers)
    BY <1>i, <1>3, Zenon DEF WalkInv
  <2> QED
    BY <1>i, <1>1, <2>1, <2>2, Zenon DEF NodeInv
<1> QED
  BY <1>2, <1>3, Zenon DEF NodesSafe, WakeValid, LateStoreHarmless

(* What it says of the events: none is lost between a check and a sleep. *)
LEMMA InvEvents == BusInv => EventsKept
<1> SUFFICES ASSUME BusInv PROVE EventsKept
  OBVIOUS
<1> USE ActorFacts
<1>i. TypeOK /\ Locking /\ NodeInv /\ WalkInv /\ CoverInv /\ MarkInv /\ QuietInv
  BY Zenon DEF BusInv
<1>1. SuspendCovers
  BY <1>i, Zenon DEF SuspendCovers, CoverInv
<1>2. ASSUME NEW t \in Threads, pc[t] = "parked"
      PROVE  /\ node[t] = "linked"
             /\ mask[t] \cap event # {} => lk # Nobody /\ pc[lk] \in Walking /\ t \in Nodes(scan)
             /\ suspend[t] # {} => lk # Nobody /\ pc[lk] = "wake" /\ Head(scan) = t
  <2>1. suspend[t] # {} => lk # Nobody /\ pc[lk] = "wake" /\ Head(scan) = t
    BY <1>i, <1>2, Zenon DEF MarkInv, WakeComing
  <2>2. node[t] = "linked"
    <3>1. node[t] \in {"none", "self", "linked"} /\ pc[t] \in Waiting
      BY <1>i, <1>2, Zenon DEF TypeOK, Waiting
    <3>2. CASE node[t] = "self"
      <4>1. lk \in Actors /\ pc[lk] = "wake" /\ Head(scan) = t
        BY <1>i, <2>1, <3>2, Zenon DEF NodeInv, TypeOK
      <4> QED
        BY <4>1, InvNodes, Zenon DEF NodesSafe, WakeValid
    <3> QED
      BY <1>i, <3>1, <3>2, Zenon DEF NodeInv
  <2>3. t \in Nodes(wakers)
    BY <1>i, <2>2, Zenon DEF NodeInv
  <2>4. ASSUME mask[t] \cap event # {} PROVE lk # Nobody /\ pc[lk] \in Walking /\ t \in Nodes(scan)
    <3>1. lk # Nobody
      BY <1>i, <2>3, <2>4, Zenon DEF CoverInv
    <3>2. lk \in Actors /\ pc[lk] \in Walking
      BY <1>i, <3>1, Zenon DEF TypeOK, Locking
    <3>3. t \in Nodes(scan)
      BY <1>i, <2>3, <2>4, <3>1, Zenon DEF CoverInv
    <3> QED
      BY <3>1, <3>2, <3>3, Zenon
  <2> QED
    BY <2>1, <2>2, <2>4, Zenon
<1>3. ASSUME closed PROVE wakers = <<>> /\ \A t \in Threads : pc[t] = "dead"
  <2>1. \A t \in Threads : pc[t] = "dead"
    BY <1>i, <1>3, Zenon DEF QuietInv
  <2>2. "dead" \notin Waiting /\ "linked" # "none"
    BY OutsidePlaces, Zenon
  <2>3. \A t \in Threads : t \notin Nodes(wakers)
    BY <1>i, <2>1, <2>2, Zenon DEF NodeInv
  <2> QED
    BY <1>i, <2>1, <2>3, NodesTypes, Zenon DEF TypeOK
<1> QED
  BY <1>1, <1>2, <1>3, Zenon DEF EventsKept, NoLostEvent, ClosedMeansQuiet

(* The inductive invariant of the bus. *)
THEOREM BusInvHolds == Spec => []BusInv
  BY InitInv, StepInv, PTL DEF Spec

(* Every variable keeps its type, and the list holds a node at most once.    *)
THEOREM BusTypesAreKept == Spec => []TypeOK
<1>1. BusInv => TypeOK
  BY Zenon DEF BusInv
<1> QED
  BY <1>1, BusInvHolds, PTL

(* EventBusInner::suspend wakes and unlinks only nodes that exist, and the   *)
(* store that ends pop_self never lands in a node that is registered anew,   *)
(* for any number of threads and notifiers.                                  *)
THEOREM NodesAreSafe == Spec => []NodesSafe
  BY InvNodes, BusInvHolds, PTL

(* suspend_event covers the registered masks, no thread sleeps on an event   *)
(* that is set without a setter on its way to it, and a closed bus has no    *)
(* waiter.                                                                   *)
THEOREM EventsAreKept == Spec => []EventsKept
  BY InvEvents, BusInvHolds, PTL

(***************************************************************************)
(* The spin lock that switches interrupts off (SpinNoIrq), for every set of *)
(* harts and every number of nested locks.  The flag of a hart is where it  *)
(* was put: on, or kept in the lowest guard, or in the call on its way in   *)
(* or out.  So the flag is off while a guard is alive, the handler starts   *)
(* without one, and what is alive on a hart belongs to one context.         *)
(***************************************************************************)
CONSTANTS Harts, NLocks

VARIABLES lock, flag, irq, op, guards  \* the variables of SpinNoIrq; flag is its sie

NI == INSTANCE SpinNoIrq WITH sie <- flag

(* The locks have an order. *)
NoIrqConstants == NLocks \in Nat

(* A guard, and where a call is with the interrupts as they were, or off, or *)
(* on its way to a lock.                                                     *)
Guards == [lock : NI!Locks, saved : BOOLEAN, ctx : NI!Contexts]

Outside == {"none", "trybefore"}
Inside == {"spin", "cas", "trycas", "restore"}
Seeking == {"spin", "cas", "trybefore", "trycas"}

(* What the running context of a hart knows, b telling that it is the        *)
(* handler: r is its call, G its guards, s the flag of the hart.  The flag   *)
(* is what it was before the first guard, or kept in the first guard, or in  *)
(* the call on its way in or out; the locks go up.                           *)
Fine(b, r, G, s) ==
  /\ \A i \in 1..Len(G) : /\ G[i].ctx = (IF b THEN "irq" ELSE "thread")
                          /\ G[i].saved <=> (i = 1 /\ ~b)
  /\ r.at \in Inside => ~s /\ (r.saved <=> (Len(G) = 0 /\ ~b))
  /\ r.at \in Outside => (s <=> (Len(G) = 0 /\ ~b))
  /\ r.at \in Seeking => r.lock \in NI!Locks /\ \A i \in 1..Len(G) : G[i].lock < r.lock
  /\ \A i, j \in 1..Len(G) : i < j => G[i].lock < G[j].lock
  /\ \A i \in 1..Len(G) : i <= G[i].lock

(* The context that does not run: an interrupted thread was outside of the   *)
(* locks.                                                                    *)
Resting(h) ==
  /\ irq[h] => /\ op[h]["thread"].at \in Outside
               /\ op[h]["thread"].at = "trybefore" => op[h]["thread"].lock \in NI!Locks
  /\ ~irq[h] => op[h]["irq"].at = "none"

HartOK(h) == Fine(irq[h], NI!Call(h), guards[h], flag[h]) /\ Resting(h)

NoIrqTypes ==
  /\ lock \in [NI!Locks -> BOOLEAN] /\ flag \in [Harts -> BOOLEAN] /\ irq \in [Harts -> BOOLEAN]
  /\ op \in [Harts -> [NI!Contexts -> NI!Calls]] /\ guards \in [Harts -> Seq(Guards)]

(* A guard of the lock is alive on the hart; one hart at most has it. *)
Held(h, l) == \E i \in 1..Len(guards[h]) : guards[h][i].lock = l

LockInv ==
  /\ \A l \in NI!Locks : lock[l] <=> \E h \in Harts : Held(h, l)
  /\ \A l \in NI!Locks : \A h, g \in Harts : Held(h, l) /\ Held(g, l) => h = g

NoIrqInv == NoIrqTypes /\ LockInv /\ \A h \in Harts : HartOK(h)

-----------------------------------------------------------------------------
(* The places of a call. *)
LEMMA CallFacts ==
  /\ \A c \in Outside : c \notin Inside
  /\ \A c \in NI!Calls : c.at = "none" \/ c.at \in Inside \/ c.at \in Seeking
  /\ "none" \in Outside /\ "none" \notin Seeking /\ "trybefore" \in Outside /\ "trybefore" \in Seeking
  /\ \A c \in {"spin", "cas", "trycas"} : c \in Inside /\ c \in Seeking /\ c \notin Outside
  /\ "restore" \in Inside /\ "restore" \notin Seeking /\ "restore" \notin Outside
  /\ \A c \in NI!Calls : c.at \notin Inside => c.at \in Outside
  BY DEF Outside, Inside, Seeking, NI!Calls

(* None is one of the calls. *)
LEMMA NoneCall ==
  ASSUME NoIrqConstants
  PROVE  NI!None \in NI!Calls /\ NI!None.at = "none"
<1>1. 0 \in 0..NLocks
  BY DEF NoIrqConstants
<1> QED
  BY <1>1 DEF NI!None, NI!Calls

(* The contexts of a hart. *)
LEMMA CtxFacts ==
  ASSUME NEW h \in Harts
  PROVE  /\ NI!Ctx(h) \in NI!Contexts
         /\ irq[h] => NI!Ctx(h) = "irq" /\ NI!Call(h) = op[h]["irq"]
         /\ ~irq[h] => NI!Ctx(h) = "thread" /\ NI!Call(h) = op[h]["thread"]
         /\ NI!Ctx(h) = IF irq[h] THEN "irq" ELSE "thread"
  BY Zenon DEF NI!Ctx, NI!Contexts, NI!Call

(* The call of the running context is replaced. *)
LEMMA OpSet ==
  ASSUME NoIrqTypes, NEW h \in Harts, NEW r \in NI!Calls, op' = [op EXCEPT ![h][NI!Ctx(h)] = r]
  PROVE  /\ op' \in [Harts -> [NI!Contexts -> NI!Calls]] /\ op'[h][NI!Ctx(h)] = r
         /\ \A d \in NI!Contexts : d # NI!Ctx(h) => op'[h][d] = op[h][d]
         /\ \A g \in Harts : g # h => op'[g] = op[g]
<1>1. NI!Ctx(h) \in NI!Contexts
  BY CtxFacts, Zenon
<1>2. PICK c : c = NI!Ctx(h)
  BY Zenon
<1>3. PICK f : f = [op[h] EXCEPT ![c] = r]
  BY Zenon
<1>4. f \in [NI!Contexts -> NI!Calls] /\ f[c] = r /\ \A d \in NI!Contexts : d # c => f[d] = op[h][d]
  BY <1>1, <1>2, <1>3, Zenon DEF NoIrqTypes
<1>5. op' = [op EXCEPT ![h] = f]
  BY <1>2, <1>3, Zenon
<1> QED
  BY <1>2, <1>4, <1>5, Zenon DEF NoIrqTypes

(* A hart nothing of which changes. *)
LEMMA SameHart ==
  ASSUME NEW g \in Harts, HartOK(g), op'[g] = op[g], irq'[g] = irq[g], flag'[g] = flag[g],
         guards'[g] = guards[g]
  PROVE  HartOK(g)'
<1>1. NI!Call(g)' = NI!Call(g)
  BY Zenon DEF NI!Call, NI!Ctx
<1>2. Fine(irq'[g], NI!Call(g)', guards'[g], flag'[g])
  BY <1>1, Zenon DEF HartOK
<1>3. Fine(irq[g], NI!Call(g), guards[g], flag[g])'
  BY <1>2, Zenon DEF Fine
<1>4. Resting(g)'
  BY Zenon DEF HartOK, Resting
<1> QED
  BY <1>3, <1>4, Zenon DEF HartOK

(* A step of the running context of a hart. *)
LEMMA RunStep ==
  ASSUME NoIrqTypes, \A g \in Harts : HartOK(g), NEW h \in Harts, NEW r \in NI!Calls,
         op' = [op EXCEPT ![h][NI!Ctx(h)] = r], irq' = irq, lock' \in [NI!Locks -> BOOLEAN],
         flag' \in [Harts -> BOOLEAN], \A g \in Harts : g # h => flag'[g] = flag[g],
         guards' \in [Harts -> Seq(Guards)], \A g \in Harts : g # h => guards'[g] = guards[g],
         Fine(irq[h], r, guards'[h], flag'[h])
  PROVE  NoIrqTypes' /\ \A g \in Harts : HartOK(g)'
<1>0. /\ op' \in [Harts -> [NI!Contexts -> NI!Calls]] /\ op'[h][NI!Ctx(h)] = r
      /\ \A d \in NI!Contexts : d # NI!Ctx(h) => op'[h][d] = op[h][d]
      /\ \A g \in Harts : g # h => op'[g] = op[g]
  BY OpSet, Zenon
<1>1. NoIrqTypes'
  BY <1>0, Zenon DEF NoIrqTypes
<1>2. \A g \in Harts : NI!Ctx(g)' = NI!Ctx(g)
  BY Zenon DEF NI!Ctx
<1>3. ASSUME NEW g \in Harts, g # h PROVE HartOK(g)'
  BY <1>0, <1>3, SameHart, Zenon
<1>4. HartOK(h)'
  <2>1. NI!Call(h)' = r
    BY <1>0, <1>2, Zenon DEF NI!Call
  <2>2. Fine(irq[h], NI!Call(h), guards[h], flag[h])'
    BY <2>1, Zenon DEF Fine
  <2>3. Resting(h)'
    <3>1. Resting(h) /\ "thread" \in NI!Contexts /\ "irq" \in NI!Contexts /\ "irq" # "thread"
      BY DEF HartOK, NI!Contexts
    <3>2. irq[h] => op'[h]["thread"] = op[h]["thread"]
      BY <1>0, <3>1, CtxFacts, Zenon
    <3>3. ~irq[h] => op'[h]["irq"] = op[h]["irq"]
      BY <1>0, <3>1, CtxFacts, Zenon
    <3> QED
      BY <3>1, <3>2, <3>3, Zenon DEF Resting
  <2> QED
    BY <2>2, <2>3, Zenon DEF HartOK
<1> QED
  BY <1>1, <1>3, <1>4, Zenon

(* The guards, and with them who holds what, stay. *)
LEMMA LocksStay ==
  ASSUME LockInv, lock' = lock, guards' = guards
  PROVE  LockInv'
<1>1. \A h \in Harts : \A l \in NI!Locks : Held(h, l)' <=> Held(h, l)
  BY Zenon DEF Held
<1> QED
  BY <1>1, Zenon DEF LockInv

-----------------------------------------------------------------------------
(* What the invariant says of one hart. *)
LEMMA HartNow ==
  ASSUME NoIrqInv, NEW h \in Harts
  PROVE  /\ NoIrqTypes /\ LockInv /\ \A g \in Harts : HartOK(g)
         /\ guards[h] \in Seq(Guards) /\ Len(guards[h]) \in Nat /\ DOMAIN guards[h] = 1..Len(guards[h])
         /\ NI!Call(h) \in NI!Calls /\ irq[h] \in BOOLEAN /\ flag[h] \in BOOLEAN
         /\ Fine(irq[h], NI!Call(h), guards[h], flag[h]) /\ Resting(h)
         /\ NI!Own(h) = 1..Len(guards[h])
<1>1. NoIrqTypes /\ LockInv /\ \A g \in Harts : HartOK(g)
  BY Zenon DEF NoIrqInv
<1>2. guards[h] \in Seq(Guards) /\ NI!Call(h) \in NI!Calls /\ irq[h] \in BOOLEAN /\ flag[h] \in BOOLEAN
  BY <1>1, CtxFacts, Zenon DEF NoIrqTypes, NI!Call
<1>3. Len(guards[h]) \in Nat /\ DOMAIN guards[h] = 1..Len(guards[h])
  BY <1>2
<1>4. Fine(irq[h], NI!Call(h), guards[h], flag[h]) /\ Resting(h)
  BY <1>1, Zenon DEF HartOK
<1>5. NI!Own(h) = 1..Len(guards[h])
  <2>1. \A i \in 1..Len(guards[h]) : guards[h][i].ctx = NI!Ctx(h)
    BY <1>4, CtxFacts, Zenon DEF Fine
  <2> QED
    BY <1>3, <2>1, Zenon DEF NI!Own
<1> QED
  BY <1>1, <1>2, <1>3, <1>4, <1>5, Zenon

(* A guard is made for the call of the hart, whose lock is free. *)
LEMMA GuardMade ==
  ASSUME NoIrqConstants, NoIrqInv, NEW h \in Harts, NI!Call(h).at \in {"cas", "trycas"}, ~lock[NI!Call(h).lock], NI!MakeGuard(h),
         flag' = flag, irq' = irq
  PROVE  NoIrqInv'
<1>0. NoIrqTypes /\ LockInv /\ \A g \in Harts : HartOK(g)
  BY HartNow, Zenon
<1>1. PICK G, r, b, s : G = guards[h] /\ r = NI!Call(h) /\ b = irq[h] /\ s = flag[h]
  BY Zenon
<1>2. /\ G \in Seq(Guards) /\ Len(G) \in Nat /\ r \in NI!Calls /\ b \in BOOLEAN /\ s \in BOOLEAN
      /\ Fine(b, r, G, s)
  BY <1>1, HartNow, Zenon
<1>3. PICK n : n = [lock |-> r.lock, saved |-> r.saved, ctx |-> NI!Ctx(h)]
  BY Zenon
<1>4. r.at \in Inside /\ r.at \in Seeking /\ r.lock \in NI!Locks /\ ~s /\ (r.saved <=> (Len(G) = 0 /\ ~b))
  <2>1. r.at \in Inside /\ r.at \in Seeking
    BY <1>1, CallFacts, Zenon
  <2> QED
    BY <1>2, <2>1, Zenon DEF Fine
<1>5. n \in Guards /\ n.lock = r.lock /\ n.saved = r.saved /\ n.ctx = (IF b THEN "irq" ELSE "thread")
  <2>1. n \in Guards
    BY <1>2, <1>3, <1>4, CtxFacts DEF Guards, NI!Calls
  <2>2. n.lock = r.lock /\ n.saved = r.saved /\ n.ctx = NI!Ctx(h)
    BY <1>3
  <2> QED
    BY <1>1, <2>1, <2>2, CtxFacts, Zenon
<1>6. PICK H : H = Append(G, n)
  BY Zenon
<1>7. /\ H \in Seq(Guards) /\ Len(H) = Len(G) + 1 /\ H[Len(G) + 1] = n /\ Len(G) + 1 \in 1..Len(H)
      /\ \A i \in 1..Len(G) : H[i] = G[i] /\ i \in 1..Len(H) /\ i # Len(G) + 1
      /\ \A i \in 1..Len(H) : i \in 1..Len(G) \/ i = Len(G) + 1
  BY <1>2, <1>5, <1>6
<1>8. guards'[h] = H /\ \A g \in Harts : g # h => guards'[g] = guards[g]
  BY <1>0, <1>1, <1>3, <1>6, Zenon DEF NI!MakeGuard, NoIrqTypes
<1>9. guards' \in [Harts -> Seq(Guards)]
  <2>1. guards' = [guards EXCEPT ![h] = H]
    BY <1>1, <1>3, <1>6, Zenon DEF NI!MakeGuard
  <2> QED
    BY <1>0, <1>7, <2>1, Zenon DEF NoIrqTypes
<1>10. NI!None \in NI!Calls /\ NI!None.at = "none"
  BY NoneCall, Zenon
<1>11. Fine(b, NI!None, H, s)
  <2>1. \A i \in 1..Len(H) : H[i].ctx = (IF b THEN "irq" ELSE "thread") /\ (H[i].saved <=> (i = 1 /\ ~b))
    <3>1. \A i \in 1..Len(G) : G[i].ctx = (IF b THEN "irq" ELSE "thread") /\ (G[i].saved <=> (i = 1 /\ ~b))
      BY <1>2, Zenon DEF Fine
    <3>2. Len(G) = 0 <=> Len(G) + 1 = 1
      BY <1>2
    <3>3. ASSUME NEW i \in 1..Len(G)
          PROVE  H[i].ctx = (IF b THEN "irq" ELSE "thread") /\ (H[i].saved <=> (i = 1 /\ ~b))
      <4>1. H[i] = G[i]
        BY <1>7, Zenon
      <4> QED
        BY <3>1, <4>1, Zenon
    <3>4. n.ctx = (IF b THEN "irq" ELSE "thread") /\ (n.saved <=> (Len(G) + 1 = 1 /\ ~b))
      BY <1>4, <1>5, <3>2, Zenon
    <3> QED
      BY <1>7, <3>3, <3>4, Zenon
  <2>2. /\ NI!None.at \notin Inside /\ NI!None.at \notin Seeking
        /\ (NI!None.at \in Outside => (s <=> (Len(H) = 0 /\ ~b)))
    <3>1. Len(H) # 0
      BY <1>2, <1>7
    <3> QED
      BY <1>4, <1>10, <3>1, CallFacts, Zenon
  <2>3. ASSUME NEW i \in 1..Len(H), NEW j \in 1..Len(H), i < j PROVE H[i].lock < H[j].lock
    <3>1. i \in 1..Len(G)
      BY <1>2, <1>7, <2>3
    <3>2. CASE j \in 1..Len(G)
      BY <1>2, <1>7, <2>3, <3>1, <3>2, Zenon DEF Fine
    <3>3. CASE j = Len(G) + 1
      BY <1>2, <1>4, <1>5, <1>7, <3>1, <3>3, Zenon DEF Fine
    <3> QED
      BY <1>7, <3>2, <3>3, Zenon
  <2>4. ASSUME NEW i \in 1..Len(H) PROVE i <= H[i].lock
    <3>1. CASE i \in 1..Len(G)
      BY <1>2, <1>7, <3>1, Zenon DEF Fine
    <3>2. CASE i = Len(G) + 1
      <4>1. CASE Len(G) = 0
        <5>1. i = 1 /\ \A l \in NI!Locks : 1 <= l
          BY <3>2, <4>1 DEF NI!Locks
        <5> QED
          BY <1>4, <1>5, <1>7, <3>2, <5>1, Zenon
      <4>2. CASE Len(G) # 0
        <5>1. Len(G) \in 1..Len(G)
          BY <1>2, <4>2
        <5>2. PICK k : k = G[Len(G)].lock
          BY Zenon
        <5>3. Len(G) <= k /\ k < r.lock
          BY <1>2, <1>4, <5>1, <5>2, Zenon DEF Fine
        <5>4. k \in Nat /\ r.lock \in Nat
          <6>1. G[Len(G)] \in Guards
            BY <1>2, <5>1
          <6>2. k \in NI!Locks
            BY <5>2, <6>1 DEF Guards
          <6> QED
            BY <1>4, <6>2 DEF NI!Locks
        <5>5. Len(G) + 1 <= r.lock
          BY <1>2, <5>3, <5>4
        <5> QED
          BY <1>5, <1>7, <3>2, <5>5, Zenon
      <4> QED
        BY <4>1, <4>2, Zenon
    <3> QED
      BY <1>7, <3>1, <3>2, Zenon
  <2> QED
    BY <2>1, <2>2, <2>3, <2>4, Zenon DEF Fine
<1>12. lock' \in [NI!Locks -> BOOLEAN] /\ lock'[r.lock] = TRUE /\ \A l \in NI!Locks : l # r.lock => lock'[l] = lock[l]
  BY <1>0, <1>1, <1>4, Zenon DEF NI!MakeGuard, NoIrqTypes
<1>13. NoIrqTypes' /\ \A g \in Harts : HartOK(g)'
  <2>1. op' = [op EXCEPT ![h][NI!Ctx(h)] = NI!None]
    BY Zenon DEF NI!MakeGuard
  <2>2. Fine(irq[h], NI!None, guards'[h], flag'[h])
    BY <1>1, <1>8, <1>11, Zenon
  <2>3. flag' \in [Harts -> BOOLEAN] /\ \A g \in Harts : g # h => flag'[g] = flag[g]
    BY <1>0, Zenon DEF NoIrqTypes
  <2> QED
    BY <1>0, <1>8, <1>9, <1>10, <1>12, <2>1, <2>2, <2>3, RunStep, Zenon
<1>14. LockInv'
  <2>1. \A l : Held(h, l)' <=> (Held(h, l) \/ l = r.lock)
    <3>1. \A l : (\E i \in 1..Len(H) : H[i].lock = l) <=> ((\E i \in 1..Len(G) : G[i].lock = l) \/ l = r.lock)
      BY <1>5, <1>7, Zenon
    <3>2. \A l : Held(h, l) <=> \E i \in 1..Len(G) : G[i].lock = l
      BY <1>1, Zenon DEF Held
    <3>3. \A l : Held(h, l)' <=> \E i \in 1..Len(H) : H[i].lock = l
      BY <1>8, Zenon DEF Held
    <3> QED
      BY <3>1, <3>2, <3>3, Zenon
  <2>2. \A g \in Harts : g # h => \A l : Held(g, l)' <=> Held(g, l)
    BY <1>8, Zenon DEF Held
  <2>3. \A g \in Harts : ~Held(g, r.lock)
    BY <1>0, <1>1, <1>4, Zenon DEF LockInv
  <2>4. ASSUME NEW l \in NI!Locks PROVE lock'[l] <=> \E g \in Harts : Held(g, l)'
    <3>1. CASE l = r.lock
      BY <1>12, <2>1, <3>1, Zenon
    <3>2. CASE l # r.lock
      <4>1. \A g \in Harts : Held(g, l)' <=> Held(g, l)
        BY <2>1, <2>2, <3>2, Zenon
      <4> QED
        BY <1>0, <1>12, <3>2, <4>1, Zenon DEF LockInv
    <3> QED
      BY <3>1, <3>2, Zenon
  <2>5. ASSUME NEW l \in NI!Locks, NEW x \in Harts, NEW y \in Harts, Held(x, l)', Held(y, l)' PROVE x = y
    <3>1. CASE l = r.lock
      BY <2>2, <2>3, <2>5, <3>1, Zenon
    <3>2. CASE l # r.lock
      <4>1. Held(x, l) /\ Held(y, l)
        BY <2>1, <2>2, <2>5, <3>2, Zenon
      <4> QED
        BY <1>0, <4>1, Zenon DEF LockInv
    <3> QED
      BY <3>1, <3>2, Zenon
  <2> QED
    BY <2>4, <2>5, Zenon DEF LockInv
<1> QED
  BY <1>13, <1>14, Zenon DEF NoIrqInv

(* A step of the running context that leaves the locks and the guards. *)
LEMMA QuietStep ==
  ASSUME NoIrqInv, NEW h \in Harts, NEW r \in NI!Calls, NEW s \in BOOLEAN,
         op' = [op EXCEPT ![h][NI!Ctx(h)] = r], irq' = irq, lock' = lock, guards' = guards,
         flag' = [flag EXCEPT ![h] = s] \/ (flag' = flag /\ s = flag[h]),
         Fine(irq[h], r, guards[h], s)
  PROVE  NoIrqInv'
<1>1. NoIrqTypes /\ LockInv /\ \A g \in Harts : HartOK(g)
  BY HartNow, Zenon
<1>2. flag' \in [Harts -> BOOLEAN] /\ flag'[h] = s /\ \A g \in Harts : g # h => flag'[g] = flag[g]
  BY <1>1, Zenon DEF NoIrqTypes
<1>3. lock' \in [NI!Locks -> BOOLEAN] /\ guards' \in [Harts -> Seq(Guards)]
  BY <1>1, Zenon DEF NoIrqTypes
<1>4. Fine(irq[h], r, guards'[h], flag'[h]) /\ \A g \in Harts : g # h => guards'[g] = guards[g]
  BY <1>2, Zenon
<1>5. NoIrqTypes' /\ \A g \in Harts : HartOK(g)'
  BY <1>1, <1>2, <1>3, <1>4, RunStep, Zenon
<1>6. LockInv'
  BY <1>1, LocksStay, Zenon
<1> QED
  BY <1>5, <1>6, Zenon DEF NoIrqInv

(* The lock asked for is above the guards of the hart. *)
LEMMA AboveAll ==
  ASSUME NoIrqInv, NEW h \in Harts, NEW l \in NI!Locks, NI!MayTake(h, l)
  PROVE  /\ NI!Call(h).at = "none" /\ \A i \in 1..Len(guards[h]) : guards[h][i].lock < l
         /\ flag[h] <=> (Len(guards[h]) = 0 /\ ~irq[h])
<1>1. NI!Call(h).at = "none" /\ \A i \in 1..Len(guards[h]) : guards[h][i].lock < l
  BY HartNow, Zenon DEF NI!MayTake
<1>2. NI!Call(h).at \in Outside /\ Fine(irq[h], NI!Call(h), guards[h], flag[h])
  BY <1>1, CallFacts, HartNow, Zenon
<1> QED
  BY <1>1, <1>2, Zenon DEF Fine

(* Lock: the flag is kept in the call, and off. *)
LEMMA StartLockStep ==
  ASSUME NoIrqInv, NEW h \in Harts, NEW l \in NI!Locks, NI!StartLock(h, l)
  PROVE  NoIrqInv'
<1>1. PICK r : r = [lock |-> l, saved |-> flag[h], at |-> "spin"]
  BY Zenon
<1>2. flag[h] \in BOOLEAN /\ Fine(irq[h], NI!Call(h), guards[h], flag[h])
  BY HartNow, Zenon
<1>3. r \in NI!Calls /\ r.at = "spin" /\ r.lock = l /\ r.saved = flag[h]
  BY <1>1, <1>2 DEF NI!Calls, NI!Locks
<1>4. r.at \notin Outside
  BY <1>3, CallFacts, Zenon
<1>5. Fine(irq[h], r, guards[h], FALSE)
  <2>1. /\ \A i \in 1..Len(guards[h]) : guards[h][i].lock < l
        /\ flag[h] <=> (Len(guards[h]) = 0 /\ ~irq[h])
    BY AboveAll, Zenon DEF NI!StartLock
  <2> QED
    BY <1>2, <1>3, <1>4, <2>1, Zenon DEF Fine
<1>6. /\ op' = [op EXCEPT ![h][NI!Ctx(h)] = r] /\ flag' = [flag EXCEPT ![h] = FALSE]
      /\ irq' = irq /\ lock' = lock /\ guards' = guards
  BY <1>1, Zenon DEF NI!StartLock, NI!before_lock
<1> QED
  BY <1>3, <1>5, <1>6, QuietStep, Zenon

(* Try-lock, the first look at the lock: nothing of the hart changes. *)
LEMMA TryLoadStep ==
  ASSUME NoIrqInv, NEW h \in Harts, NEW l \in NI!Locks, NI!TryLoad(h, l)
  PROVE  NoIrqInv'
<1>1. PICK r : r = [lock |-> l, saved |-> FALSE, at |-> "trybefore"]
  BY Zenon
<1>2. flag[h] \in BOOLEAN /\ Fine(irq[h], NI!Call(h), guards[h], flag[h])
  BY HartNow, Zenon
<1>3. r \in NI!Calls /\ r.at = "trybefore" /\ r.lock = l
  BY <1>1 DEF NI!Calls, NI!Locks
<1>4. r.at \notin Inside
  BY <1>3, CallFacts, Zenon
<1>5. Fine(irq[h], r, guards[h], flag[h])
  <2>1. /\ \A i \in 1..Len(guards[h]) : guards[h][i].lock < l
        /\ flag[h] <=> (Len(guards[h]) = 0 /\ ~irq[h])
    BY AboveAll, Zenon DEF NI!TryLoad
  <2> QED
    BY <1>2, <1>3, <1>4, <2>1, Zenon DEF Fine
<1>6. op' = [op EXCEPT ![h][NI!Ctx(h)] = r] /\ flag' = flag /\ irq' = irq /\ lock' = lock /\ guards' = guards
  BY <1>1, Zenon DEF NI!TryLoad
<1> QED
  BY <1>2, <1>3, <1>5, <1>6, QuietStep, Zenon

(* Try-lock, the interrupts go off. *)
LEMMA TryBeforeStep ==
  ASSUME NoIrqInv, NEW h \in Harts, NI!TryBefore(h)
  PROVE  NoIrqInv'
<1>1. PICK r : r = [lock |-> NI!Call(h).lock, saved |-> flag[h], at |-> "trycas"]
  BY Zenon
<1>2. flag[h] \in BOOLEAN /\ NI!Call(h) \in NI!Calls /\ Fine(irq[h], NI!Call(h), guards[h], flag[h])
  BY HartNow, Zenon
<1>3. r \in NI!Calls /\ r.at = "trycas" /\ r.lock = NI!Call(h).lock /\ r.saved = flag[h]
  BY <1>1, <1>2 DEF NI!Calls
<1>4. r.at \notin Outside /\ NI!Call(h).at \in Outside /\ NI!Call(h).at \in Seeking
  BY <1>3, CallFacts, Zenon DEF NI!TryBefore
<1>5. Fine(irq[h], r, guards[h], FALSE)
  BY <1>2, <1>3, <1>4, Zenon DEF Fine
<1>6. /\ op' = [op EXCEPT ![h][NI!Ctx(h)] = r] /\ flag' = [flag EXCEPT ![h] = FALSE]
      /\ irq' = irq /\ lock' = lock /\ guards' = guards
  BY <1>1, Zenon DEF NI!TryBefore, NI!before_lock
<1> QED
  BY <1>3, <1>5, <1>6, QuietStep, Zenon

(* The loop of lock goes between its two places. *)
LEMMA LoopStep ==
  ASSUME NoIrqInv, NEW h \in Harts, NEW p \in {"spin", "cas"}, NI!Call(h).at \in {"spin", "cas"}, NI!At(h, p),
         flag' = flag, irq' = irq, lock' = lock, guards' = guards
  PROVE  NoIrqInv'
<1>1. PICK r : r = [NI!Call(h) EXCEPT !.at = p]
  BY Zenon
<1>2. flag[h] \in BOOLEAN /\ NI!Call(h) \in NI!Calls /\ Fine(irq[h], NI!Call(h), guards[h], flag[h])
  BY HartNow, Zenon
<1>3. r \in NI!Calls /\ r.at = p /\ r.lock = NI!Call(h).lock /\ r.saved = NI!Call(h).saved
  BY <1>1, <1>2 DEF NI!Calls
<1>4. r.at \notin Outside /\ NI!Call(h).at \in Inside /\ NI!Call(h).at \in Seeking
  BY <1>3, CallFacts, Zenon
<1>5. Fine(irq[h], r, guards[h], flag[h])
  BY <1>2, <1>3, <1>4, Zenon DEF Fine
<1>6. op' = [op EXCEPT ![h][NI!Ctx(h)] = r]
  BY <1>1, Zenon DEF NI!At, NI!Call
<1> QED
  BY <1>2, <1>3, <1>5, <1>6, QuietStep, Zenon

(* The flag kept in the call is restored, and the call is over. *)
LEMMA RestoreStep ==
  ASSUME NoIrqConstants, NoIrqInv, NEW h \in Harts, NI!Call(h).at \in {"trycas", "restore"}, NI!restore(h, NI!Call(h).saved),
         op' = [op EXCEPT ![h][NI!Ctx(h)] = NI!None], irq' = irq, lock' = lock, guards' = guards
  PROVE  NoIrqInv'
<1>1. flag[h] \in BOOLEAN /\ NI!Call(h) \in NI!Calls /\ Fine(irq[h], NI!Call(h), guards[h], flag[h])
  BY HartNow, Zenon
<1>2. NI!None \in NI!Calls /\ NI!None.at = "none" /\ NI!Call(h).saved \in BOOLEAN
  <2>1. NI!Call(h).saved \in BOOLEAN
    BY <1>1 DEF NI!Calls
  <2> QED
    BY <2>1, NoneCall, Zenon
<1>3. NI!None.at \notin Inside /\ NI!None.at \notin Seeking /\ NI!Call(h).at \in Inside
  BY <1>2, CallFacts, Zenon
<1>4. PICK s : s = (flag[h] \/ NI!Call(h).saved)
  BY Zenon
<1>5. s \in BOOLEAN /\ (s <=> (Len(guards[h]) = 0 /\ ~irq[h]))
  BY <1>1, <1>3, <1>4, Zenon DEF Fine
<1>6. Fine(irq[h], NI!None, guards[h], s)
  BY <1>1, <1>3, <1>5, Zenon DEF Fine
<1>7. flag' = [flag EXCEPT ![h] = s]
  BY <1>4, Zenon DEF NI!restore
<1> QED
  BY <1>2, <1>5, <1>6, <1>7, QuietStep, Zenon
(* A guard is dropped: its lock, the highest, is free, its flag is in the    *)
(* call.                                                                     *)
LEMMA DropGuardStep ==
  ASSUME NoIrqConstants, NoIrqInv, NEW h \in Harts, NI!DropGuard(h)
  PROVE  NoIrqInv'
<1>0. NoIrqTypes /\ LockInv /\ \A g \in Harts : HartOK(g)
  BY HartNow, Zenon
<1>1. PICK G, b, s, m : G = guards[h] /\ b = irq[h] /\ s = flag[h] /\ m = Len(G)
  BY Zenon
<1>2. G \in Seq(Guards) /\ m \in Nat /\ b \in BOOLEAN /\ s \in BOOLEAN /\ Fine(b, NI!Call(h), G, s)
  BY <1>1, HartNow, Zenon
<1>3. m \in 1..m /\ \A i \in 1..m : i <= m
  <2>1. 1..m # {}
    BY <1>1, HartNow, Zenon DEF NI!DropGuard
  <2> QED
    BY <1>2, <2>1
<1>4. PICK t, H : t = G[m] /\ H = SubSeq(G, 1, m - 1)
  BY Zenon
<1>5. t \in Guards /\ t.lock \in NI!Locks /\ t.saved \in BOOLEAN
  <2>1. t \in Guards
    BY <1>1, <1>2, <1>3, <1>4
  <2> QED
    BY <2>1 DEF Guards
<1>6. /\ H \in Seq(Guards) /\ Len(H) = m - 1 /\ \A i \in 1..Len(H) : H[i] = G[i] /\ i \in 1..m /\ i < m
      /\ \A i \in 1..m : i \in 1..Len(H) \/ i = m
  BY <1>1, <1>2, <1>3, <1>4
<1>7. PICK r : r = [lock |-> 0, saved |-> t.saved, at |-> "restore"]
  BY Zenon
<1>8. r \in NI!Calls /\ r.at = "restore" /\ r.saved = t.saved
  <2>1. 0 \in 0..NLocks
    BY DEF NoIrqConstants
  <2> QED
    BY <1>5, <1>7, <2>1 DEF NI!Calls
<1>9. r.at \notin Outside /\ r.at \notin Seeking
  BY <1>8, CallFacts, Zenon
<1>10. /\ op' = [op EXCEPT ![h][NI!Ctx(h)] = r] /\ flag' = flag /\ irq' = irq
       /\ lock' = [lock EXCEPT ![t.lock] = FALSE] /\ guards' = [guards EXCEPT ![h] = H]
  <2>1. NI!Top(h) = t
    BY <1>1, <1>4, Zenon DEF NI!Top
  <2> QED
    BY <1>1, <1>4, <1>7, <2>1, Zenon DEF NI!DropGuard
<1>11. /\ guards' \in [Harts -> Seq(Guards)] /\ guards'[h] = H
       /\ \A g \in Harts : g # h => guards'[g] = guards[g]
  BY <1>0, <1>6, <1>10, Zenon DEF NoIrqTypes
<1>12. /\ lock' \in [NI!Locks -> BOOLEAN] /\ ~lock'[t.lock]
       /\ \A l \in NI!Locks : l # t.lock => lock'[l] = lock[l]
  BY <1>0, <1>5, <1>10, Zenon DEF NoIrqTypes
<1>13. Fine(b, r, H, s)
  <2>1. ~s /\ (t.saved <=> (Len(H) = 0 /\ ~b))
    <3>1. NI!Call(h).at \in Outside
      BY CallFacts, Zenon DEF NI!DropGuard
    <3>2. m # 0 /\ (m = 1 <=> Len(H) = 0)
      BY <1>2, <1>3, <1>6
    <3> QED
      BY <1>1, <1>2, <1>3, <1>4, <3>1, <3>2, Zenon DEF Fine
  <2>2. \A i \in 1..Len(H) : /\ H[i].ctx = (IF b THEN "irq" ELSE "thread")
                             /\ H[i].saved <=> (i = 1 /\ ~b)
                             /\ i <= H[i].lock
    <3>1. \A i \in 1..m : /\ G[i].ctx = (IF b THEN "irq" ELSE "thread")
                          /\ G[i].saved <=> (i = 1 /\ ~b)
                          /\ i <= G[i].lock
      BY <1>1, <1>2, Zenon DEF Fine
    <3> QED
      BY <1>6, <3>1, Zenon
  <2>3. \A i, j \in 1..Len(H) : i < j => H[i].lock < H[j].lock
    BY <1>1, <1>2, <1>6, Zenon DEF Fine
  <2> QED
    BY <1>8, <1>9, <2>1, <2>2, <2>3, Zenon DEF Fine
<1>14. NoIrqTypes' /\ \A g \in Harts : HartOK(g)'
  <2>1. Fine(irq[h], r, guards'[h], flag'[h])
    BY <1>1, <1>10, <1>11, <1>13, Zenon
  <2>2. flag' \in [Harts -> BOOLEAN] /\ \A g \in Harts : g # h => flag'[g] = flag[g]
    BY <1>0, <1>10, Zenon DEF NoIrqTypes
  <2> QED
    BY <1>0, <1>8, <1>10, <1>11, <1>12, <2>1, <2>2, RunStep, Zenon
<1>15. LockInv'
  <2>1. \A i \in 1..Len(H) : G[i].lock # t.lock
    <3>1. \A i \in 1..Len(H) : G[i].lock < t.lock
      BY <1>1, <1>2, <1>3, <1>4, <1>6, Zenon DEF Fine
    <3>2. \A i \in 1..Len(H) : G[i] \in Guards
      BY <1>1, <1>2, <1>6
    <3>3. \A i \in 1..Len(H) : G[i].lock \in Nat /\ t.lock \in Nat
      BY <1>5, <3>2 DEF Guards, NI!Locks
    <3> QED
      BY <3>1, <3>3
  <2>2. \A l : Held(h, l)' <=> (Held(h, l) /\ l # t.lock)
    <3>1. \A l : (\E i \in 1..Len(H) : H[i].lock = l)
                   <=> ((\E i \in 1..m : G[i].lock = l) /\ l # t.lock)
      BY <1>4, <1>6, <2>1, Zenon
    <3> QED
      BY <1>1, <1>11, <3>1, Zenon DEF Held
  <2>3. \A g \in Harts : g # h => \A l : Held(g, l)' <=> Held(g, l)
    BY <1>11, Zenon DEF Held
  <2>4. Held(h, t.lock)
    BY <1>1, <1>3, <1>4, Zenon DEF Held
  <2>5. ASSUME NEW l \in NI!Locks PROVE lock'[l] <=> \E g \in Harts : Held(g, l)'
    <3>1. CASE l = t.lock
      <4>1. \A g \in Harts : Held(g, l) => g = h
        BY <1>0, <2>4, <3>1, Zenon DEF LockInv
      <4> QED
        BY <1>12, <2>2, <2>3, <3>1, <4>1, Zenon
    <3>2. CASE l # t.lock
      <4>1. \A g \in Harts : Held(g, l)' <=> Held(g, l)
        BY <2>2, <2>3, <3>2, Zenon
      <4> QED
        BY <1>0, <1>12, <3>2, <4>1, Zenon DEF LockInv
    <3> QED
      BY <3>1, <3>2, Zenon
  <2>6. ASSUME NEW l \in NI!Locks, NEW x \in Harts, NEW y \in Harts, Held(x, l)', Held(y, l)' PROVE x = y
    <3>1. Held(x, l) /\ Held(y, l)
      BY <2>2, <2>3, <2>6, Zenon
    <3> QED
      BY <1>0, <3>1, Zenon DEF LockInv
  <2> QED
    BY <2>5, <2>6, Zenon DEF LockInv
<1> QED
  BY <1>14, <1>15, Zenon DEF NoIrqInv

-----------------------------------------------------------------------------
(* The flag and the context of one hart change, and nothing else. *)
LEMMA ContextSwitch ==
  ASSUME NoIrqInv, NEW h \in Harts, NEW b \in BOOLEAN, NEW s \in BOOLEAN, irq' = [irq EXCEPT ![h] = b],
         flag' = [flag EXCEPT ![h] = s], lock' = lock, op' = op, guards' = guards,
         HartOK(h)'
  PROVE  NoIrqInv'
<1>1. NoIrqTypes /\ LockInv /\ \A g \in Harts : HartOK(g)
  BY HartNow, Zenon
<1>2. NoIrqTypes'
  BY <1>1, Zenon DEF NoIrqTypes
<1>3. ASSUME NEW g \in Harts, g # h PROVE HartOK(g)'
  <2>1. irq'[g] = irq[g] /\ flag'[g] = flag[g]
    BY <1>1, <1>3, Zenon DEF NoIrqTypes
  <2> QED
    BY <1>1, <2>1, SameHart, Zenon
<1>4. LockInv'
  BY <1>1, LocksStay, Zenon
<1> QED
  BY <1>2, <1>3, <1>4, Zenon DEF NoIrqInv

(* An interrupt finds the thread without guards, outside of the locks. *)
LEMMA InterruptStep ==
  ASSUME NoIrqInv, NEW h \in Harts, NI!Interrupt(h)
  PROVE  NoIrqInv'
<1>1. /\ NoIrqTypes /\ NI!Call(h) \in NI!Calls /\ Fine(irq[h], NI!Call(h), guards[h], flag[h]) /\ Resting(h)
      /\ Len(guards[h]) \in Nat
  BY HartNow, Zenon
<1>2. flag[h] /\ ~irq[h] /\ NI!Call(h) = op[h]["thread"]
  BY CtxFacts, Zenon DEF NI!Interrupt
<1>3. NI!Call(h).at \in Outside /\ Len(guards[h]) = 0
  <2>1. NI!Call(h).at \notin Inside
    BY <1>1, <1>2, Zenon DEF Fine
  <2>2. NI!Call(h).at \in Outside
    BY <1>1, <2>1, CallFacts, Zenon
  <2> QED
    BY <1>1, <1>2, <2>2, Zenon DEF Fine
<1>4. /\ irq' = [irq EXCEPT ![h] = TRUE] /\ flag' = [flag EXCEPT ![h] = FALSE]
      /\ lock' = lock /\ op' = op /\ guards' = guards
  BY Zenon DEF NI!Interrupt
<1>5. irq'[h] /\ ~flag'[h]
  BY <1>1, <1>4, Zenon DEF NoIrqTypes
<1>6. NI!Call(h)' = op[h]["irq"] /\ op[h]["irq"].at = "none"
  BY <1>1, <1>2, <1>4, <1>5, Zenon DEF NI!Call, NI!Ctx, Resting
<1>7. \A i \in 1..Len(guards[h]) : FALSE
  BY <1>1, <1>3
<1>8. Fine(irq[h], NI!Call(h), guards[h], flag[h])'
  <2>1. NI!Call(h)'.at \notin Inside /\ NI!Call(h)'.at \notin Seeking
    BY <1>6, CallFacts, Zenon
  <2> QED
    BY <1>4, <1>5, <1>7, <2>1, Zenon DEF Fine
<1>9. Resting(h)'
  <2>1. op[h]["thread"].at = "trybefore" => op[h]["thread"].lock \in NI!Locks
    BY <1>1, <1>2, CallFacts, Zenon DEF Fine
  <2> QED
    BY <1>2, <1>3, <1>4, <1>5, <2>1, Zenon DEF Resting
<1> QED
  BY <1>4, <1>8, <1>9, ContextSwitch, Zenon DEF HartOK

(* The return from the handler, which has no guard left. *)
LEMMA ReturnStep ==
  ASSUME NoIrqInv, NEW h \in Harts, NI!ReturnFromInterrupt(h)
  PROVE  NoIrqInv'
<1>1. /\ NoIrqTypes /\ Resting(h) /\ Len(guards[h]) \in Nat /\ NI!Own(h) = 1..Len(guards[h])
      /\ NI!Call(h).at = "none" /\ irq[h]
  BY HartNow, Zenon DEF NI!ReturnFromInterrupt
<1>2. 1..Len(guards[h]) = {}
  BY <1>1, Zenon DEF NI!ReturnFromInterrupt
<1>3. Len(guards[h]) = 0
  <2>1. \A n \in Nat : 1..n = {} => n = 0
    OBVIOUS
  <2> QED
    BY <1>1, <1>2, <2>1, Zenon
<1>4. /\ irq' = [irq EXCEPT ![h] = FALSE] /\ flag' = [flag EXCEPT ![h] = TRUE]
      /\ lock' = lock /\ op' = op /\ guards' = guards
  BY Zenon DEF NI!ReturnFromInterrupt
<1>5. ~irq'[h] /\ flag'[h]
  BY <1>1, <1>4, Zenon DEF NoIrqTypes
<1>6. /\ NI!Call(h)' = op[h]["thread"] /\ op[h]["thread"].at \in Outside
      /\ op[h]["thread"].at = "trybefore" => op[h]["thread"].lock \in NI!Locks
  BY <1>1, <1>4, <1>5, Zenon DEF NI!Call, NI!Ctx, Resting
<1>7. op[h]["irq"].at = "none"
  BY <1>1, CtxFacts, Zenon
<1>8. Fine(irq[h], NI!Call(h), guards[h], flag[h])'
  <2>1. NI!Call(h)'.at \notin Inside /\ (NI!Call(h)'.at \in Seeking => NI!Call(h)'.at = "trybefore")
    BY <1>6 DEF Inside, Outside, Seeking
  <2> QED
    BY <1>2, <1>3, <1>4, <1>5, <1>6, <2>1, Zenon DEF Fine
<1>9. Resting(h)'
  BY <1>4, <1>5, <1>7, Zenon DEF Resting
<1> QED
  BY <1>4, <1>8, <1>9, ContextSwitch, Zenon DEF HartOK

-----------------------------------------------------------------------------
(* The invariant is inductive, and gives the properties. *)
LEMMA NoIrqInit ==
  ASSUME NoIrqConstants, NI!Init
  PROVE  NoIrqInv
<1>1. NI!None \in NI!Calls /\ NI!None.at = "none" /\ <<>> \in Seq(Guards) /\ Len(<<>>) = 0 /\ 1..0 = {}
  <2>1. <<>> \in Seq(Guards) /\ Len(<<>>) = 0 /\ 1..0 = {}
    OBVIOUS
  <2> QED
    BY <2>1, NoneCall, Zenon
<1>2. NoIrqTypes
  BY <1>1, Zenon DEF NI!Init, NoIrqTypes
<1>3. \A h \in Harts : guards[h] = <<>> /\ flag[h] /\ ~irq[h] /\ op[h]["irq"] = NI!None /\ op[h]["thread"] = NI!None
  BY Zenon DEF NI!Init, NI!Contexts
<1>4. LockInv
  BY <1>1, <1>3, Zenon DEF NI!Init, LockInv, Held
<1>5. ASSUME NEW h \in Harts PROVE HartOK(h)
  <2>1. NI!Call(h) = NI!None /\ NI!None.at \notin Inside /\ NI!None.at \notin Seeking
    BY <1>1, <1>3, CallFacts, CtxFacts, Zenon
  <2>2. Fine(irq[h], NI!Call(h), guards[h], flag[h])
    BY <1>1, <1>3, <2>1, Zenon DEF Fine
  <2> QED
    BY <1>1, <1>3, <2>2, Zenon DEF HartOK, Resting
<1> QED
  BY <1>2, <1>4, <1>5, Zenon DEF NoIrqInv

(* Every step keeps the invariant. *)
LEMMA NoIrqNext ==
  ASSUME NoIrqConstants, NoIrqInv, [NI!Next]_(NI!vars)
  PROVE  NoIrqInv'
<1>1. CASE UNCHANGED NI!vars
  <2>1. op' = op /\ irq' = irq /\ flag' = flag /\ guards' = guards /\ lock' = lock
    BY <1>1, Zenon DEF NI!vars
  <2>2. \A g \in Harts : HartOK(g)'
    BY <2>1, SameHart, Zenon DEF NoIrqInv
  <2> QED
    BY <2>1, <2>2, LocksStay, Zenon DEF NoIrqInv, NoIrqTypes
<1>2. ASSUME NEW h \in Harts, NI!CompareExchange(h) PROVE NoIrqInv'
  <2>1. CASE lock[NI!Call(h).lock]
    BY <1>2, <2>1, LoopStep, Zenon DEF NI!CompareExchange
  <2>2. CASE ~lock[NI!Call(h).lock]
    BY <1>2, <2>2, GuardMade, Zenon DEF NI!CompareExchange
  <2> QED
    BY <2>1, <2>2, Zenon
<1>3. ASSUME NEW h \in Harts, NI!TryCas(h) PROVE NoIrqInv'
  <2>1. CASE lock[NI!Call(h).lock]
    BY <1>3, <2>1, RestoreStep, Zenon DEF NI!TryCas
  <2>2. CASE ~lock[NI!Call(h).lock]
    BY <1>3, <2>2, GuardMade, Zenon DEF NI!TryCas
  <2> QED
    BY <2>1, <2>2, Zenon
<1>4. ASSUME NEW h \in Harts, NI!wait_unlock(h) PROVE NoIrqInv'
  BY <1>4, LoopStep, Zenon DEF NI!wait_unlock
<1>5. ASSUME NEW h \in Harts, NI!DropFlags(h) PROVE NoIrqInv'
  BY <1>5, RestoreStep, Zenon DEF NI!DropFlags
<1> QED
  BY <1>1, <1>2, <1>3, <1>4, <1>5, StartLockStep, TryLoadStep, TryBeforeStep, DropGuardStep,
     InterruptStep, ReturnStep, Zenon DEF NI!Next

(* The invariant gives the three properties. *)
LEMMA NoIrqSafe ==
  ASSUME NoIrqInv
  PROVE  NI!HandlerNeverSelfLocks /\ NI!OneGuard /\ NI!FlagsRestored
<1>1. NI!HandlerNeverSelfLocks
  <2>1. ASSUME NEW h \in Harts, irq[h], NEW i \in DOMAIN guards[h] PROVE guards[h][i].ctx = "irq"
    <3>1. i \in 1..Len(guards[h]) /\ Fine(irq[h], NI!Call(h), guards[h], flag[h])
      BY <2>1, HartNow, Zenon
    <3> QED
      BY <2>1, <3>1, Zenon DEF Fine
  <2> QED
    BY <2>1, Zenon DEF NI!HandlerNeverSelfLocks
<1>2. NI!FlagsRestored
  <2>1. ASSUME NEW h \in Harts, ~irq[h], guards[h] = <<>>, NI!Call(h).at \in {"none", "trybefore"} PROVE flag[h]
    <3>1. Len(guards[h]) = 0
      BY <2>1
    <3>2. NI!Call(h).at \in Outside
      BY <2>1, Zenon DEF Outside
    <3> QED
      BY <2>1, <3>1, <3>2, HartNow, Zenon DEF Fine
  <2> QED
    BY <2>1, Zenon DEF NI!FlagsRestored
<1>3. NI!OneGuard
  <2>1. \A h \in Harts : DOMAIN guards[h] = 1..Len(guards[h])
    BY HartNow, Zenon
  <2>2. LockInv
    BY Zenon DEF NoIrqInv
  <2>3. ASSUME NEW l \in NI!Locks
        PROVE  lock[l] <=> \E h \in Harts : \E i \in DOMAIN guards[h] : guards[h][i].lock = l
    <3>1. \A h \in Harts : Held(h, l) <=> \E i \in DOMAIN guards[h] : guards[h][i].lock = l
      BY <2>1, Zenon DEF Held
    <3> QED
      BY <2>2, <3>1, Zenon DEF LockInv
  <2>4. ASSUME NEW l \in NI!Locks
        PROVE  \A h, g \in Harts : \A i \in DOMAIN guards[h], j \in DOMAIN guards[g] :
                 guards[h][i].lock = l /\ guards[g][j].lock = l => h = g /\ i = j
    <3> TAKE h, g \in Harts
    <3> TAKE i \in DOMAIN guards[h], j \in DOMAIN guards[g]
    <3>1. HAVE guards[h][i].lock = l /\ guards[g][j].lock = l
    <3>2. h = g
      <4>1. Held(h, l) /\ Held(g, l)
        BY <2>1, <3>1, Zenon DEF Held
      <4> QED
        BY <2>2, <4>1, Zenon DEF LockInv
    <3>3. i \in 1..Len(guards[h]) /\ j \in 1..Len(guards[h]) /\ guards[h][j].lock = l
      BY <2>1, <3>1, <3>2, Zenon
    <3>4. /\ i < j => guards[h][i].lock < guards[h][j].lock
          /\ j < i => guards[h][j].lock < guards[h][i].lock
      BY <3>3, HartNow, Zenon DEF Fine
    <3>5. ~(l < l)
      BY DEF NI!Locks
    <3>6. i = j \/ i < j \/ j < i
      BY <3>3
    <3> QED
      BY <3>1, <3>2, <3>3, <3>4, <3>5, <3>6, Zenon
  <2> QED
    BY <2>3, <2>4, Zenon DEF NI!OneGuard
<1> QED
  BY <1>1, <1>2, <1>3, Zenon

(* SpinNoIrqLock: the handler never meets a lock of the thread it            *)
(* interrupted, a lock has one guard, and the interrupts come back on.       *)
THEOREM SpinNoIrqIsSafe ==
  ASSUME NoIrqConstants
  PROVE  NI!Spec => [](NI!HandlerNeverSelfLocks /\ NI!OneGuard /\ NI!FlagsRestored)
  BY NoIrqInit, NoIrqNext, NoIrqSafe, PTL DEF NI!Spec
=============================================================================
