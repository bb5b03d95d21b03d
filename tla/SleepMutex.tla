----------------------------- MODULE SleepMutex -----------------------------
(***************************************************************************)
(* The sleeping lock of ftl-util/src/sync/sleep_mutex.rs, used by tasks of *)
(* the executor on several harts.                                          *)
(*                                                                         *)
(* A body run under the inner spin lock is one step.  Dropping a guard     *)
(* leaves the spin lock before it hands the lock over, so the three writes *)
(* of the hand-over (take the waker, set the node's flag, wake) are steps  *)
(* of their own.                                                           *)
(***************************************************************************)
EXTENDS Naturals, Sequences

CONSTANT Tasks

VARIABLES
  status,    \* MutexInner.status
  queue,     \* MutexInner.queue: the waiting nodes, by task, oldest first
  granted,   \* the first field of each task's node
  waker,     \* whether the second field of each task's node is Some
  next,      \* the node a task that drops its guard has popped
  pc,        \* where each task is
  notified   \* a wake arrived while the task was running (async-task SCHEDULED)

vars == <<status, queue, granted, waker, next, pc, notified>>

(* A task is outside, waits on its future (about to poll it, between a poll
   that returned Pending and the end of the run, or parked), holds the guard,
   or is at one of the three writes of the hand-over. *)
Waits == {"poll", "park", "parked"}
PCs == Waits \cup {"out", "hold", "take", "grant", "wake"}

Goto(t, l) == pc' = [pc EXCEPT ![t] = l]

Init ==
  /\ status = FALSE /\ queue = <<>>
  /\ granted = [t \in Tasks |-> FALSE]
  /\ waker = [t \in Tasks |-> FALSE]
  /\ next = [t \in Tasks |-> t]
  /\ pc = [t \in Tasks |-> "out"]
  /\ notified = [t \in Tasks |-> FALSE]

-----------------------------------------------------------------------------
(* SleepMutex::try_lock when it succeeds; a failure changes nothing. *)
try_lock(t) ==
  /\ pc[t] = "out" /\ ~status
  /\ status' = TRUE
  /\ Goto(t, "hold")
  /\ UNCHANGED <<queue, granted, waker, next, notified>>

(* Mutation: the fast path does not look at the status. *)
lock_unchecked(t) ==
  /\ pc[t] = "out"
  /\ status' = TRUE
  /\ granted' = [granted EXCEPT ![t] = TRUE]
  /\ Goto(t, "poll")
  /\ UNCHANGED <<queue, waker, next, notified>>

(* SleepMutex::lock: the init of its future, under the spin lock. *)
lock(t) ==
  /\ pc[t] = "out"
  /\ IF ~status
     THEN /\ status' = TRUE
          /\ granted' = [granted EXCEPT ![t] = TRUE]
          /\ UNCHANGED <<queue, waker>>
     ELSE /\ queue' = Append(queue, t)
          /\ waker' = [waker EXCEPT ![t] = TRUE]
          /\ UNCHANGED <<status, granted>>
  /\ Goto(t, "poll")
  /\ UNCHANGED <<next, notified>>

(* Mutation: a poll that finds the flag unset registers the node once more. *)
poll_register_again(t) ==
  /\ pc[t] = "poll"
  /\ IF granted[t]
     THEN /\ Goto(t, "hold")
          /\ granted' = [granted EXCEPT ![t] = FALSE]
          /\ UNCHANGED queue
     ELSE /\ Goto(t, "park")
          /\ queue' = Append(queue, t)
          /\ UNCHANGED granted
  /\ UNCHANGED <<status, waker, next, notified>>

(* SleepLockFuture::poll; the node dies with the future when it is Ready. *)
poll(t) ==
  /\ pc[t] = "poll"
  /\ IF granted[t]
     THEN /\ Goto(t, "hold")
          /\ granted' = [granted EXCEPT ![t] = FALSE]
     ELSE /\ Goto(t, "park")
          /\ UNCHANGED granted
  /\ UNCHANGED <<status, queue, waker, next, notified>>

(* The executor finishes a run that returned Pending: the task is rescheduled
   if it was woken meanwhile. *)
park(t) ==
  /\ pc[t] = "park"
  /\ Goto(t, IF notified[t] THEN "poll" ELSE "parked")
  /\ notified' = [notified EXCEPT ![t] = FALSE]
  /\ UNCHANGED <<status, queue, granted, waker, next>>

(* A wake that has nothing to do with this lock. *)
spurious_wake(t) ==
  /\ pc[t] = "parked"
  /\ Goto(t, "poll")
  /\ UNCHANGED <<status, queue, granted, waker, next, notified>>

-----------------------------------------------------------------------------
(* Mutation: the guard clears the status and wakes the head of the queue,
   which leaves the lock open to a newcomer. *)
drop_guard_barging(t) ==
  /\ pc[t] = "hold"
  /\ status' = FALSE
  /\ IF queue = <<>>
     THEN Goto(t, "out") /\ UNCHANGED <<queue, next>>
     ELSE /\ next' = [next EXCEPT ![t] = Head(queue)]
          /\ queue' = Tail(queue)
          /\ Goto(t, "take")
  /\ UNCHANGED <<granted, waker, notified>>

(* Drop of SleepMutexGuard up to the release of the spin lock. *)
drop_guard(t) ==
  /\ pc[t] = "hold"
  /\ IF queue = <<>>
     THEN /\ status' = FALSE
          /\ Goto(t, "out")
          /\ UNCHANGED <<queue, next>>
     ELSE /\ next' = [next EXCEPT ![t] = Head(queue)]
          /\ queue' = Tail(queue)
          /\ Goto(t, "take")
          /\ UNCHANGED status
  /\ UNCHANGED <<granted, waker, notified>>

(* Mutation: the flag is set before the waker is taken. *)
take_waker_late(t) ==
  /\ pc[t] = "take"
  /\ granted' = [granted EXCEPT ![next[t]] = TRUE]
  /\ Goto(t, "grant")
  /\ UNCHANGED <<status, queue, waker, next, notified>>

(* next.1.take() *)
take_waker(t) ==
  /\ pc[t] = "take"
  /\ waker' = [waker EXCEPT ![next[t]] = FALSE]
  /\ Goto(t, "grant")
  /\ UNCHANGED <<status, queue, granted, next, notified>>

(* next.0 = true *)
set_granted(t) ==
  /\ pc[t] = "grant"
  /\ granted' = [granted EXCEPT ![next[t]] = TRUE]
  /\ Goto(t, "wake")
  /\ UNCHANGED <<status, queue, waker, next, notified>>

(* Mutation: the hand-over forgets to wake. *)
wake_forgotten(t) ==
  /\ pc[t] = "wake"
  /\ Goto(t, "out")
  /\ next' = [next EXCEPT ![t] = t]
  /\ UNCHANGED <<status, queue, granted, waker, notified>>

(* waker.wake() *)
wake(t) ==
  /\ pc[t] = "wake"
  /\ LET n == next[t] IN
       /\ pc' = [pc EXCEPT ![t] = "out", ![n] = IF @ = "parked" THEN "poll" ELSE @]
       /\ notified' = [notified EXCEPT ![n] = pc[n] # "parked"]
  /\ next' = [next EXCEPT ![t] = t]
  /\ UNCHANGED <<status, queue, granted, waker>>

-----------------------------------------------------------------------------
(* The steps a task that has asked for the lock goes on to take by itself. *)
Proceed(t) ==
  poll(t) \/ park(t) \/ drop_guard(t) \/ take_waker(t) \/ set_granted(t) \/ wake(t)

Next == \E t \in Tasks : try_lock(t) \/ lock(t) \/ spurious_wake(t) \/ Proceed(t)

Spec == Init /\ [][Next]_vars

(* The executor runs every scheduled task, and every guard is dropped. *)
Fairness == \A t \in Tasks : WF_vars(Proceed(t))

FairSpec == Spec /\ Fairness

-----------------------------------------------------------------------------
Waiting(t) == pc[t] \in Waits /\ ~granted[t]

(* Types, and a node is linked in the queue at most once: the intrusive list of
   sleep_mutex.rs would be corrupted by a second push_prev of a linked node. *)
TypeOK ==
  /\ status \in BOOLEAN
  /\ queue \in Seq(Tasks)
  /\ \A i, j \in 1..Len(queue) : queue[i] = queue[j] => i = j
  /\ granted \in [Tasks -> BOOLEAN]
  /\ waker \in [Tasks -> BOOLEAN]
  /\ next \in [Tasks -> Tasks]
  /\ pc \in [Tasks -> PCs]
  /\ notified \in [Tasks -> BOOLEAN]

(* At most one task holds the guard, whatever the interleaving of lock, try_lock
   and the hand-over that runs outside the spin lock. *)
MutualExclusion == \A s, t \in Tasks : pc[s] = "hold" /\ pc[t] = "hold" => s = t

(* The dropping task may touch a node it has popped only while the node's future
   is alive: until next.0 is set the waiter cannot have left its poll loop.  This
   is what the comment on the write order in the guard's Drop relies on. *)
NodeAlive ==
  \A t \in Tasks : pc[t] \in {"take", "grant"} =>
    /\ Waiting(next[t])
    /\ pc[t] = "take" => waker[next[t]]

(* The guard is exclusive, and the hand-over touches only nodes that exist. *)
SleepMutexSafe == MutualExclusion /\ NodeAlive

(* Every task that asked for the lock gets it: no wake is lost between a poll that
   returned Pending and the wake of the hand-over. *)
EveryWaiterAcquires == \A t \in Tasks : pc[t] \in Waits ~> pc[t] = "hold"

-----------------------------------------------------------------------------
(* The task the lock belongs to, counting a hand-over from the moment its node is
   popped. *)
Owns(t) ==
  \/ pc[t] = "hold"
  \/ granted[t]
  \/ \E s \in Tasks : pc[s] \in {"take", "grant"} /\ next[s] = t

Fifo == INSTANCE FifoLock WITH
  owner <- {t \in Tasks : Owns(t)},
  line <- queue,
  inside <- {t \in Tasks : pc[t] = "hold"}

(* The lock with its hand-over in three unprotected writes implements the lock
   that passes ownership, in order of arrival, in one step; every owner enters. *)
ImplementsFifoLock == Fifo!FairSpec
=============================================================================
