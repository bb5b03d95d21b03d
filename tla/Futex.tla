------------------------------- MODULE Futex --------------------------------
(***************************************************************************)
(* Futexes, kernel/src/futex and kernel/src/syscall/futex.rs.  A futex      *)
(* object belongs to an address of the process; munmap closes it and the    *)
(* next use of the address makes a new one.  A waiter's node is in the      *)
(* queue of one object, or in the private queue of a task that moves it     *)
(* from one object to another.  The waiter's ViewFutex says where:          *)
(*   an object  - in the queue of that object,                              *)
(*   Waited     - between two queues,                                       *)
(*   Issued     - in none, woken.                                           *)
(* It is written under the lock of a queue and read without it.             *)
(*                                                                         *)
(* User memory is one word per address, 0 until a task stores 1; waiters    *)
(* ask to sleep while it is 0.                                              *)
(***************************************************************************)
EXTENDS Integers, Sequences, SequencesExt, FiniteSets

CONSTANTS
  Waiters, Timed,   \* waiting threads, and those that give a timeout
  Callers,          \* threads that wake, requeue and unmap
  Addrs,
  Stores,           \* the addresses the users store to
  Moves,            \* <<ua, ua2>> pairs of FUTEX_REQUEUE
  Matches,          \* the sets of waiters that a mask and a pid select
  WakeCounts,       \* values of max for FUTEX_WAKE
  MoveCounts,       \* <<max_wake, max_requeue>> pairs for FUTEX_REQUEUE
  Faults,           \* whether the access to ua2 may fail
  MaxGen,           \* bound: objects made for one address
  Nobody

Tasks == Waiters \cup Callers
Objs  == Addrs \X (1..MaxGen)

Issued == <<Nobody, 0>>
Waited == <<Nobody, 1>>

ASSUME FutexAssumption ==
  /\ Timed \subseteq Waiters /\ Waiters \cap Callers = {} /\ Nobody \notin Tasks
  /\ Stores \subseteq Addrs /\ Moves \subseteq Addrs \X Addrs /\ Matches \subseteq SUBSET Waiters
  /\ WakeCounts \subseteq Nat /\ MoveCounts \subseteq Nat \X Nat
  /\ Faults \in BOOLEAN /\ MaxGen \in Nat \ {0}

VARIABLES
  gen,          \* the number of the newest object of an address
  closed, queue, qlock,  \* Futex: FutexQueue.closed, .list, and who is inside
  mem,          \* the user's words
  settled,      \* addresses on which a wake of everyone followed the store
  pc, notified,
  fx,           \* the object a task works on
  ua,           \* the address a waiter waits at
  view,         \* Node.futex
  expired,      \* the deadline has passed
  arg,          \* the call of a caller
  n, temp, hand \* pop_many_ex: nodes popped; TempQueue; the waker taken out

futexvars == <<gen, closed, queue, qlock>>
uservars  == <<mem, settled>>
waitvars  == <<ua, view, expired>>
callvars  == <<arg, n, temp, hand>>
vars == <<futexvars, uservars, pc, notified, fx, waitvars, callvars>>

NoCall == [op |-> "none", to |-> Nobody, sel |-> {}, max |-> 0, more |-> 0, cmp |-> FALSE]

Init ==
  /\ gen = [a \in Addrs |-> 1]
  /\ closed = [f \in Objs |-> FALSE] /\ queue = [f \in Objs |-> <<>>]
  /\ qlock = [f \in Objs |-> Nobody]
  /\ mem = [a \in Addrs |-> 0] /\ settled = {}
  /\ pc = [t \in Tasks |-> "idle"] /\ notified = [w \in Waiters |-> FALSE]
  /\ fx = [t \in Tasks |-> Nobody] /\ ua = [t \in Tasks |-> Nobody]
  /\ view = [w \in Waiters |-> Issued] /\ expired = [w \in Waiters |-> FALSE]
  /\ arg = [c \in Callers |-> NoCall] /\ n = [c \in Callers |-> 0]
  /\ temp = [c \in Callers |-> <<>>] /\ hand = [c \in Callers |-> Nobody]

Goto(t, l) == pc' = [pc EXCEPT ![t] = l]

-----------------------------------------------------------------------------
(* Thread::fetch_futex: the open object of the address, else a new one,     *)
(* made under the process lock that munmap holds until the old one is       *)
(* closed and empty.                                                        *)
Current(a) == <<a, gen[a]>>

Closing(a) == \E c \in Callers : arg[c].op = "close" /\ ua[c] = a

(* Mutation: an object is made although an open one exists. *)
fetch_futex_anew(t, a, l) ==
  /\ gen' = [gen EXCEPT ![a] = @ + 1]
  /\ fx' = [fx EXCEPT ![t] = <<a, gen'[a]>>]
  /\ Goto(t, l)

fetch_futex(t, a, l) ==
  /\ closed[Current(a)] => ~Closing(a)
  /\ gen' = [gen EXCEPT ![a] = IF closed[Current(a)] THEN @ + 1 ELSE @]
  /\ fx' = [fx EXCEPT ![t] = <<a, gen'[a]>>]
  /\ Goto(t, l)

Lock(t, f)   == qlock[f] = Nobody /\ qlock' = [qlock EXCEPT ![f] = t]
Unlock(f)    == qlock' = [qlock EXCEPT ![f] = Nobody]

(* futex_wait: the word is tested without the lock (EAGAIN, no effect) ...  *)
futex_wait(w, a) ==
  /\ pc[w] = "idle" /\ mem[a] = 0
  /\ ua' = [ua EXCEPT ![w] = a]
  /\ fetch_futex(w, a, "lock")
  /\ UNCHANGED <<closed, queue, qlock, uservars, notified, view, expired, callvars>>

(* WaitStatus::Closed and WakeStatus::Closed: fetch the object again. *)
fetch(t) ==
  /\ pc[t] = "fetch"
  /\ fetch_futex(t, ua[t], "lock")
  /\ UNCHANGED <<closed, queue, qlock, uservars, notified, waitvars, callvars>>

Leave(t) == Goto(t, "idle") /\ ua' = [ua EXCEPT ![t] = Nobody] /\ fx' = [fx EXCEPT ![t] = Nobody]

fail(t) == (IF t \in Waiters THEN TRUE ELSE arg[t].cmp) /\ mem[ua[t]] # 0

(* Mutation: the word is not tested again under the lock. *)
enqueue_unchecked(w) ==
  /\ pc[w] = "lock" /\ w \in Waiters /\ qlock[fx[w]] = Nobody
  /\ IF closed[fx[w]]
     THEN Goto(w, "fetch") /\ UNCHANGED <<queue, view>>
     ELSE /\ queue' = [queue EXCEPT ![fx[w]] = Append(@, w)]
          /\ view' = [view EXCEPT ![w] = fx[w]]
          /\ Goto(w, "park")
  /\ UNCHANGED <<gen, closed, qlock, uservars, notified, fx, ua, expired, callvars>>

(* ... and again under the lock of the queue that the node joins.           *)
enqueue(w) ==
  /\ pc[w] = "lock" /\ w \in Waiters /\ qlock[fx[w]] = Nobody
  /\ IF closed[fx[w]]
     THEN Goto(w, "fetch") /\ UNCHANGED <<queue, view, fx, ua>>
     ELSE IF fail(w)
     THEN Leave(w) /\ UNCHANGED <<queue, view>>
     ELSE /\ queue' = [queue EXCEPT ![fx[w]] = Append(@, w)]
          /\ view' = [view EXCEPT ![w] = fx[w]]
          /\ Goto(w, "park")
          /\ UNCHANGED <<fx, ua>>
  /\ UNCHANGED <<gen, closed, qlock, uservars, notified, expired, callvars>>

park(w) ==
  /\ pc[w] = "park"
  /\ Goto(w, IF notified[w] THEN "poll" ELSE "parked")
  /\ notified' = [notified EXCEPT ![w] = FALSE]
  /\ UNCHANGED <<futexvars, uservars, fx, waitvars, callvars>>

(* The deadline passes: the timer wakes a sleeping waiter, a running one    *)
(* sees the clock.                                                          *)
timeout(w) ==
  /\ w \in Timed /\ ~expired[w] /\ pc[w] \in {"parked", "poll"}
  /\ expired' = [expired EXCEPT ![w] = TRUE]
  /\ Goto(w, "poll")
  /\ UNCHANGED <<futexvars, uservars, notified, fx, ua, view, callvars>>

(* TimeoutFuture over FutexFuture: issued, or late, or sleep again. *)
poll(w) ==
  /\ pc[w] = "poll"
  /\ Goto(w, IF view[w] = Issued \/ expired[w] THEN "detach" ELSE "park")
  /\ UNCHANGED <<futexvars, uservars, notified, fx, waitvars, callvars>>

(* detach: load_queue spins while the view is Waited; lock_queue_run      *)
(* locks the queue it read and reads the view again, spinning inside that   *)
(* lock while it is Waited.                                               *)
Return(w) ==
  /\ view' = [view EXCEPT ![w] = Issued]
  /\ expired' = [expired EXCEPT ![w] = FALSE]
  /\ Leave(w)

detach(w) ==
  /\ pc[w] = "detach" /\ view[w] # Waited
  /\ IF view[w] = Issued
     THEN Return(w)
     ELSE /\ fx' = [fx EXCEPT ![w] = view[w]]
          /\ Goto(w, "detach_lock")
          /\ UNCHANGED waitvars
  /\ UNCHANGED <<futexvars, uservars, notified, callvars>>

detach_lock(w) ==
  /\ pc[w] = "detach_lock"
  /\ Lock(w, fx[w])
  /\ Goto(w, "recheck")
  /\ UNCHANGED <<gen, closed, queue, uservars, notified, fx, waitvars, callvars>>

(* Mutation: the view is not read again under the lock. *)
recheck_once(w) ==
  /\ pc[w] = "recheck"
  /\ Unlock(fx[w])
  /\ queue' = [queue EXCEPT ![fx[w]] = SelectSeq(@, LAMBDA v : v # w)]
  /\ Return(w)
  /\ UNCHANGED <<gen, closed, uservars, notified, callvars>>

recheck(w) ==
  /\ pc[w] = "recheck" /\ view[w] # Waited
  /\ Unlock(fx[w])
  /\ IF view[w] = fx[w]
     THEN queue' = [queue EXCEPT ![fx[w]] = SelectSeq(@, LAMBDA v : v # w)] /\ Return(w)
     ELSE /\ UNCHANGED queue
          /\ IF view[w] = Issued
             THEN Return(w)
             ELSE /\ fx' = [fx EXCEPT ![w] = view[w]]
                  /\ Goto(w, "detach_lock")
                  /\ UNCHANGED waitvars
  /\ UNCHANGED <<gen, closed, uservars, notified, callvars>>

-----------------------------------------------------------------------------
(* The user stores 1 before it wakes. *)
store(c, a) ==
  /\ pc[c] = "idle" /\ a \in Stores /\ mem[a] = 0
  /\ mem' = [mem EXCEPT ![a] = 1]
  /\ UNCHANGED <<futexvars, settled, pc, notified, fx, waitvars, callvars>>

Start(c, a, call) ==
  /\ pc[c] = "idle" /\ (call.cmp => mem[a] = 0)
  /\ ua' = [ua EXCEPT ![c] = a]
  /\ arg' = [arg EXCEPT ![c] = call]
  /\ fetch_futex(c, a, "lock")
  /\ UNCHANGED <<closed, queue, qlock, uservars, notified, view, expired, n, temp, hand>>

futex_wake(c, a, sel, max) ==
  Start(c, a, [op |-> "wake", to |-> Nobody, sel |-> sel, max |-> max, more |-> 0, cmp |-> FALSE])

(* With cmp the word must still be 0 (FUTEX_CMP_REQUEUE). *)
futex_requeue(c, a, b, sel, max, more, cmp) ==
  Start(c, a, [op |-> "requeue", to |-> b, sel |-> sel, max |-> max, more |-> more, cmp |-> cmp])

(* munmap removes the object from the process's FutexSet; OwnFutex::drop    *)
(* closes it with everyone woken.                                           *)
munmap(c, a) ==
  /\ ~closed[Current(a)] /\ gen[a] < MaxGen
  /\ pc[c] = "idle"
  /\ ~Closing(a)
  /\ ua' = [ua EXCEPT ![c] = a]
  /\ fx' = [fx EXCEPT ![c] = Current(a)]
  /\ arg' = [arg EXCEPT ![c] = [op |-> "close", to |-> Nobody, sel |-> Waiters,
                                max |-> Cardinality(Waiters), more |-> 0, cmp |-> FALSE]]
  /\ Goto(c, "lock")
  /\ UNCHANGED <<futexvars, uservars, notified, view, expired, n, temp, hand>>

(* FutexQueue::wake, wake_requeue and wake_all_close under the lock.        *)
begin(c) ==
  /\ pc[c] = "lock" /\ c \in Callers /\ qlock[fx[c]] = Nobody
  /\ IF closed[fx[c]]
     THEN Goto(c, "fetch") /\ UNCHANGED <<qlock, closed, fx, ua, arg>>
     ELSE IF fail(c)
     THEN Leave(c) /\ arg' = [arg EXCEPT ![c] = NoCall] /\ UNCHANGED <<qlock, closed>>
     ELSE /\ qlock' = [qlock EXCEPT ![fx[c]] = c]
          /\ closed' = [closed EXCEPT ![fx[c]] = arg[c].op = "close"]
          /\ Goto(c, "scan")
          /\ UNCHANGED <<fx, ua, arg>>
  /\ UNCHANGED <<gen, queue, uservars, notified, view, expired, n, temp, hand>>

(* pop_many_ex takes the next selected node, unless the count, tested after *)
(* a node is taken, has reached the limit.                                  *)
Limit(c) == arg[c].max + arg[c].more
More(c)  == /\ \E i \in 1..Len(queue[fx[c]]) : queue[fx[c]][i] \in arg[c].sel
            /\ ~(n[c] > 0 /\ n[c] = Limit(c))
First(c) == queue[fx[c]][CHOOSE i \in 1..Len(queue[fx[c]]) :
              /\ queue[fx[c]][i] \in arg[c].sel
              /\ \A j \in 1..(i-1) : queue[fx[c]][j] \notin arg[c].sel]
Without(f, w) == queue' = [queue EXCEPT ![f] = SelectSeq(@, LAMBDA v : v # w)]

(* A node to wake: pop, take the waker, set_issued ... *)
issue(c) ==
  /\ pc[c] = "scan" /\ More(c)
  /\ arg[c].op = "requeue" => n[c] < arg[c].max
  /\ LET w == First(c) IN
     /\ Without(fx[c], w)
     /\ view' = [view EXCEPT ![w] = Issued]
     /\ hand' = [hand EXCEPT ![c] = w]
  /\ n' = [n EXCEPT ![c] = @ + 1]
  /\ Goto(c, "wake")
  /\ UNCHANGED <<gen, closed, qlock, uservars, notified, fx, ua, expired, arg, temp>>

(* Mutation: the node is issued and its waiter not woken. *)
wake_forgotten(c) ==
  /\ pc[c] = "wake"
  /\ Goto(c, "scan")
  /\ hand' = [hand EXCEPT ![c] = Nobody]
  /\ UNCHANGED <<futexvars, uservars, notified, fx, waitvars, arg, n, temp>>

(* ... and wake it. *)
wake(c) ==
  /\ pc[c] = "wake"
  /\ LET w == hand[c] IN
     /\ pc' = [pc EXCEPT ![c] = "scan", ![w] = IF @ = "parked" THEN "poll" ELSE @]
     /\ notified' = [notified EXCEPT ![w] = @ \/ pc[w] # "parked"]
  /\ hand' = [hand EXCEPT ![c] = Nobody]
  /\ UNCHANGED <<futexvars, uservars, fx, waitvars, arg, n, temp>>

(* A node to move: pop, set_waited, push to the TempQueue. *)
take(c) ==
  /\ pc[c] = "scan" /\ More(c)
  /\ arg[c].op = "requeue" /\ n[c] >= arg[c].max
  /\ LET w == First(c) IN
     /\ Without(fx[c], w)
     /\ view' = [view EXCEPT ![w] = Waited]
     /\ temp' = [temp EXCEPT ![c] = Append(@, w)]
  /\ n' = [n EXCEPT ![c] = @ + 1]
  /\ UNCHANGED <<gen, closed, qlock, uservars, pc, notified, fx, ua, expired, arg, hand>>

Done(c) ==
  /\ arg' = [arg EXCEPT ![c] = NoCall]
  /\ n' = [n EXCEPT ![c] = 0]
  /\ Leave(c)

WakesAll(c) == arg[c].op = "wake" /\ arg[c].sel = Waiters /\ arg[c].max >= Cardinality(Waiters)

(* The queue lock is released; a requeue with nodes in hand goes on.        *)
end(c) ==
  /\ pc[c] = "scan" /\ ~More(c)
  /\ Unlock(fx[c])
  /\ settled' = IF WakesAll(c) /\ mem[ua[c]] = 1 THEN settled \cup {ua[c]} ELSE settled
  /\ IF temp[c] = <<>>
     THEN Done(c)
     ELSE Goto(c, "access") /\ UNCHANGED <<arg, n, fx, ua>>
  /\ UNCHANGED <<gen, closed, queue, mem, notified, view, expired, temp, hand>>

(* Mutation: the nodes go to the queue they were taken from. *)
access_source(c) ==
  /\ pc[c] = "access"
  /\ fetch_futex(c, ua[c], "append")
  /\ UNCHANGED <<closed, queue, qlock, uservars, notified, waitvars, callvars>>

(* readonly_value(ua2).await?: the page may have to be loaded, and an error *)
(* returns, dropping the TempQueue: its nodes become Issued.              *)
access(c) ==
  /\ pc[c] = "access"
  /\ fetch_futex(c, arg[c].to, "append")
  /\ UNCHANGED <<closed, queue, qlock, uservars, notified, waitvars, callvars>>

access_fails(c) ==
  /\ pc[c] = "access" /\ Faults
  /\ view' = [w \in Waiters |-> IF Contains(temp[c], w) THEN Issued ELSE view[w]]
  /\ temp' = [temp EXCEPT ![c] = <<>>]
  /\ Done(c)
  /\ UNCHANGED <<futexvars, uservars, notified, expired, hand>>

(* Mutation: the nodes join a closed queue. *)
append_closed(c) ==
  /\ pc[c] = "append" /\ qlock[fx[c]] = Nobody
  /\ queue' = [queue EXCEPT ![fx[c]] = @ \o temp[c]]
  /\ view' = [w \in Waiters |-> IF Contains(temp[c], w) THEN fx[c] ELSE view[w]]
  /\ temp' = [temp EXCEPT ![c] = <<>>]
  /\ Done(c)
  /\ UNCHANGED <<gen, closed, qlock, uservars, notified, expired, hand>>

(* Futex::append: under the lock of the target, unless it was closed. *)
append(c) ==
  /\ pc[c] = "append" /\ qlock[fx[c]] = Nobody
  /\ IF closed[fx[c]]
     THEN Goto(c, "access") /\ UNCHANGED <<queue, view, temp, arg, n, fx, ua>>
     ELSE /\ queue' = [queue EXCEPT ![fx[c]] = @ \o temp[c]]
          /\ view' = [w \in Waiters |-> IF Contains(temp[c], w) THEN fx[c] ELSE view[w]]
          /\ temp' = [temp EXCEPT ![c] = <<>>]
          /\ Done(c)
  /\ UNCHANGED <<gen, closed, qlock, uservars, notified, expired, hand>>

WaiterStep(w) ==
  fetch(w) \/ enqueue(w) \/ park(w) \/ poll(w) \/ detach(w) \/ detach_lock(w) \/ recheck(w)
CallerStep(c) ==
  \/ fetch(c) \/ begin(c) \/ issue(c) \/ wake(c) \/ take(c) \/ end(c)
  \/ access(c) \/ access_fails(c) \/ append(c)

Next ==
  \/ \E w \in Waiters : WaiterStep(w) \/ timeout(w) \/ \E a \in Addrs : futex_wait(w, a)
  \/ \E c \in Callers :
       \/ CallerStep(c)
       \/ \E a \in Addrs : store(c, a) \/ munmap(c, a)
       \/ \E a \in Addrs, sel \in Matches, max \in WakeCounts : futex_wake(c, a, sel, max)
       \/ \E m \in Moves, sel \in Matches, k \in MoveCounts, cmp \in BOOLEAN :
            futex_requeue(c, m[1], m[2], sel, k[1], k[2], cmp)

Spec == Init /\ [][Next]_vars

-----------------------------------------------------------------------------
WaiterPCs == {"idle", "fetch", "lock", "park", "parked", "poll", "detach", "detach_lock", "recheck"}
CallerPCs == {"idle", "fetch", "lock", "scan", "wake", "access", "append"}

(* Every variable has its type. *)
TypeOK ==
  /\ gen \in [Addrs -> 1..MaxGen] /\ closed \in [Objs -> BOOLEAN]
  /\ queue \in [Objs -> Seq(Waiters)] /\ qlock \in [Objs -> Tasks \cup {Nobody}]
  /\ mem \in [Addrs -> {0, 1}] /\ settled \subseteq Addrs
  /\ \A w \in Waiters : pc[w] \in WaiterPCs
  /\ \A c \in Callers : pc[c] \in CallerPCs
  /\ notified \in [Waiters -> BOOLEAN] /\ expired \in [Waiters -> BOOLEAN]
  /\ fx \in [Tasks -> Objs \cup {Nobody}] /\ ua \in [Tasks -> Addrs \cup {Nobody}]
  /\ view \in [Waiters -> Objs \cup {Issued, Waited}]
  /\ n \in [Callers -> Nat] /\ temp \in [Callers -> Seq(Waiters)]
  /\ hand \in [Callers -> Waiters \cup {Nobody}]

Waiting(w) == pc[w] \in {"park", "parked", "poll", "detach", "detach_lock", "recheck"}

(* A node is in the one queue its view names, in the TempQueue of one mover *)
(* while the view is Waited, in no list when it is Issued; and it is in *)
(* a list only while its waiter is inside FutexQueue::wait, so a list never *)
(* holds a freed node.                                                      *)
ViewNamesTheList ==
  /\ \A w \in Waiters, f \in Objs : Contains(queue[f], w) <=> view[w] = f
  /\ \A w \in Waiters : view[w] = Waited <=> \E c \in Callers : Contains(temp[c], w)
  /\ \A f \in Objs : Cardinality(ToSet(queue[f])) = Len(queue[f])
  /\ \A w \in Waiters : view[w] # Issued => Waiting(w)

(* After the store of a new value and a FUTEX_WAKE of everyone, nobody      *)
(* sleeps on the old value: the waiter tests the word under the lock of the *)
(* queue it joins, also when the object is replaced meanwhile.  (Addresses  *)
(* that receive requeued waiters are left out.)                             *)
NoLostWaiter ==
  \A a \in settled : (\A m \in Moves : m[2] # a) => \A g \in 1..MaxGen : queue[<<a, g>>] = <<>>

(* No open queue is forgotten: a closed object has an empty queue once the  *)
(* closing caller has left it, so munmap leaves no sleeper behind.          *)
ClosedIsEmpty ==
  \A f \in Objs : closed[f] /\ qlock[f] = Nobody => queue[f] = <<>>

(* A sleeping waiter is in a list or about to be woken ("如果转移过程失败了会 *)
(* 唤醒全部线程": a failed transfer wakes all the threads).                  *)
SleeperIsReachable ==
  \A w \in Waiters : pc[w] = "parked" => view[w] # Issued \/ \E c \in Callers : hand[c] = w

(* t cannot go on before u does: it wants a queue lock u holds, or spins    *)
(* until u has put its node in a queue.                                     *)
WaitsFor(t, u) ==
  \/ pc[t] \in {"lock", "detach_lock", "append"} /\ qlock[fx[t]] = u
  \/ /\ t \in Waiters /\ u \in Callers /\ pc[t] \in {"detach", "recheck"}
     /\ Contains(temp[u], t)

(* No deadlock between waiters whose deadline passes and tasks that move    *)
(* them between queues (the case of 同步系统-futex.md, "如何在这种情况下保证  *)
(* 不发生死锁": the locks of two queues are never held together).           *)
NoWaitCycle ==
  LET blocked == {t \in Tasks : \E u \in Tasks : WaitsFor(t, u)}
  IN  \A s \in (SUBSET blocked) \ {{}} : \E t \in s : \A u \in s : ~WaitsFor(t, u)
=============================================================================
