----------------------------- MODULE Semaphore ------------------------------
(***************************************************************************)
(* The counting semaphore of ftl-util/src/sync/semaphore.rs, which bounds  *)
(* the dirty blocks of the FAT32 caches.  Every body runs under the inner  *)
(* spin lock, the wakes of release_task included, and is one step.         *)
(***************************************************************************)
EXTENDS Integers, Sequences, FiniteSetsExt, SequencesExt

CONSTANTS
  Tasks,
  Permits,   \* the argument of Semaphore::new
  Wants,     \* the numbers of permits a task may ask for, each at most Permits
  Deltas,    \* the arguments change may be called with
  MaxPermits \* bound on max, for model checking

VARIABLES
  cur, max,  \* SemaphoreInner
  queue,     \* SemaphoreInner.queue: the waiting nodes, by task, oldest first
  want,      \* the second field of each task's node
  granted,   \* the first field of each task's node
  held,      \* val of each task's MultiplySemaphore
  singles,   \* the SemaphoreGuards each task has split off it
  pc,        \* where each task is
  notified   \* a wake arrived while the task was running (async-task SCHEDULED)

vars == <<cur, max, queue, want, granted, held, singles, pc, notified>>

Waits == {"poll", "park", "parked"}
PCs == Waits \cup {"out", "hold"}

Init ==
  /\ cur = Permits /\ max = Permits
  /\ queue = <<>>
  /\ want = [t \in Tasks |-> 0]
  /\ granted = [t \in Tasks |-> FALSE]
  /\ held = [t \in Tasks |-> 0]
  /\ singles = [t \in Tasks |-> 0]
  /\ pc = [t \in Tasks |-> "out"]
  /\ notified = [t \in Tasks |-> FALSE]

-----------------------------------------------------------------------------
(* The permits the first k waiters ask for together. *)
Demand(k) == FoldLeft(LAMBDA sum, t : sum + want[t], 0, SubSeq(queue, 1, k))

(* How many waiters the loop of release_task serves with c permits: it goes on
   from the head of the queue while the permits left suffice. *)
Served(c) == Max({k \in 0..Len(queue) : \A j \in 1..k : Demand(j) <= c})

(* release_task with c permits in cur, called while the tasks are at pcs. *)
release_task(c, pcs) ==
  LET n == Served(c)
      lucky == ToSet(SubSeq(queue, 1, n))
  IN  /\ cur' = c - Demand(n)
      /\ queue' = SubSeq(queue, n + 1, Len(queue))
      /\ granted' = [s \in Tasks |-> granted[s] \/ s \in lucky]
      /\ pc' = [s \in Tasks |->
                  IF s \in lucky /\ pc[s] = "parked" THEN "poll" ELSE pcs[s]]
      /\ notified' = [s \in Tasks |->
                        notified[s] \/ (s \in lucky /\ pc[s] # "parked")]

(* Mutation: a newcomer that finds enough permits passes the queue. *)
Available_barging(n) == cur >= n

(* The condition of try_take_n and of the future's init. *)
Available(n) == queue = <<>> /\ cur >= n

(* Semaphore::try_take_n and try_take when they succeed. *)
try_take_n(t, n) ==
  /\ pc[t] = "out" /\ Available(n)
  /\ cur' = cur - n
  /\ held' = [held EXCEPT ![t] = n]
  /\ pc' = [pc EXCEPT ![t] = "hold"]
  /\ UNCHANGED <<max, queue, want, granted, singles, notified>>

(* Semaphore::take_n and take: the init of the future. *)
take_n(t, n) ==
  /\ pc[t] = "out"
  /\ want' = [want EXCEPT ![t] = n]
  /\ IF Available(n)
     THEN /\ cur' = cur - n
          /\ granted' = [granted EXCEPT ![t] = TRUE]
          /\ UNCHANGED queue
     ELSE /\ queue' = Append(queue, t)
          /\ UNCHANGED <<cur, granted>>
  /\ pc' = [pc EXCEPT ![t] = "poll"]
  /\ UNCHANGED <<max, held, singles, notified>>

(* Mutation: a poll that finds the flag unset registers the node once more. *)
poll_register_again(t) ==
  /\ pc[t] = "poll"
  /\ IF granted[t]
     THEN /\ held' = [held EXCEPT ![t] = want[t]]
          /\ granted' = [granted EXCEPT ![t] = FALSE]
          /\ want' = [want EXCEPT ![t] = 0]
          /\ pc' = [pc EXCEPT ![t] = "hold"]
          /\ UNCHANGED queue
     ELSE /\ pc' = [pc EXCEPT ![t] = "park"]
          /\ queue' = Append(queue, t)
          /\ UNCHANGED <<held, granted, want>>
  /\ UNCHANGED <<cur, max, singles, notified>>

(* SemaphoreFuture::poll *)
poll(t) ==
  /\ pc[t] = "poll"
  /\ IF granted[t]
     THEN /\ held' = [held EXCEPT ![t] = want[t]]
          /\ granted' = [granted EXCEPT ![t] = FALSE]
          /\ want' = [want EXCEPT ![t] = 0]
          /\ pc' = [pc EXCEPT ![t] = "hold"]
     ELSE /\ pc' = [pc EXCEPT ![t] = "park"]
          /\ UNCHANGED <<held, granted, want>>
  /\ UNCHANGED <<cur, max, queue, singles, notified>>

(* The executor finishes a run that returned Pending. *)
park(t) ==
  /\ pc[t] = "park"
  /\ pc' = [pc EXCEPT ![t] = IF notified[t] THEN "poll" ELSE "parked"]
  /\ notified' = [notified EXCEPT ![t] = FALSE]
  /\ UNCHANGED <<cur, max, queue, want, granted, held, singles>>

-----------------------------------------------------------------------------
(* Mutation: the permit split off stays in the MultiplySemaphore too. *)
split_copy(t) ==
  /\ pc[t] = "hold" /\ held[t] > 0 /\ singles[t] < Permits
  /\ singles' = [singles EXCEPT ![t] = @ + 1]
  /\ UNCHANGED <<cur, max, queue, want, granted, held, pc, notified>>

(* MultiplySemaphore::try_take when there is a permit left. *)
split(t) ==
  /\ pc[t] = "hold" /\ held[t] > 0
  /\ held' = [held EXCEPT ![t] = @ - 1]
  /\ singles' = [singles EXCEPT ![t] = @ + 1]
  /\ UNCHANGED <<cur, max, queue, want, granted, pc, notified>>

(* Drop of a MultiplySemaphore; the task keeps the guards split off it. *)
drop_multiply(t) ==
  /\ pc[t] = "hold"
  /\ held' = [held EXCEPT ![t] = 0]
  /\ IF held[t] # 0
     THEN release_task(cur + held[t], [pc EXCEPT ![t] = "out"])
     ELSE pc' = [pc EXCEPT ![t] = "out"] /\ UNCHANGED <<cur, queue, granted, notified>>
  /\ UNCHANGED <<max, want, singles>>

(* Drop of a SemaphoreGuard: of the MultiplySemaphore of one permit inside it. *)
drop_guard(t) ==
  /\ singles[t] > 0
  /\ singles' = [singles EXCEPT ![t] = @ - 1]
  /\ release_task(cur + 1, pc)
  /\ UNCHANGED <<max, want, held>>

(* Mutation: permits that are added stay unused until the next release. *)
change_silent(n) ==
  /\ max + n \in 0..MaxPermits
  /\ max' = max + n /\ cur' = cur + n
  /\ UNCHANGED <<queue, want, granted, held, singles, pc, notified>>

(* Semaphore::change, called from outside the tasks that take permits. *)
change(n) ==
  /\ max + n \in 0..MaxPermits
  /\ max' = max + n
  /\ IF n > 0
     THEN release_task(cur + n, pc)
     ELSE cur' = cur + n /\ UNCHANGED <<queue, granted, pc, notified>>
  /\ UNCHANGED <<want, held, singles>>

-----------------------------------------------------------------------------
(* The steps by which a task that has asked for permits takes and returns them. *)
Proceed(t) == poll(t) \/ park(t) \/ drop_multiply(t) \/ drop_guard(t)

Next ==
  \/ \E n \in Deltas : change(n)
  \/ \E t \in Tasks :
       \/ \E n \in Wants : try_take_n(t, n) \/ take_n(t, n)
       \/ split(t) \/ Proceed(t)

(* The executor runs every scheduled task, and every guard is dropped. *)
Fairness == \A t \in Tasks : WF_vars(Proceed(t))

Spec == Init /\ [][Next]_vars /\ Fairness

-----------------------------------------------------------------------------
(* Types, and a node is linked in the queue at most once. *)
TypeOK ==
  /\ cur \in Int /\ max \in 0..MaxPermits
  /\ queue \in Seq(Tasks) /\ IsInjective(queue)
  /\ want \in [Tasks -> Wants \cup {0}]
  /\ granted \in [Tasks -> BOOLEAN]
  /\ held \in [Tasks -> 0..Permits]
  /\ singles \in [Tasks -> Nat]
  /\ pc \in [Tasks -> PCs]
  /\ notified \in [Tasks -> BOOLEAN]

(* No permit is lost or made up: the permits in cur, in guards and in nodes that
   were granted but not polled add up to max.  The Drop of SemaphoreInner asserts
   the case in which all guards are gone. *)
Conservation ==
  max = cur + MapThenSumSet(
    LAMBDA t : held[t] + singles[t] + (IF granted[t] THEN want[t] ELSE 0), Tasks)

(* A waiter is never left asleep beside permits that would serve it: whenever the
   spin lock is free, the head of the queue asks for more than cur. *)
NoIdlePermits == queue # <<>> => want[Head(queue)] > cur

(* Every taker is served, the one that asks for many permits included: smaller
   requests cannot pass it.  Only change may take away what a taker waits for. *)
EveryTakerServed ==
  \A t \in Tasks : pc[t] \in Waits ~> pc[t] = "hold" \/ \E u \in Tasks : want[u] > max
=============================================================================
