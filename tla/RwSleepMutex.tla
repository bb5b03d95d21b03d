---------------------------- MODULE RwSleepMutex ----------------------------
(***************************************************************************)
(* The sleeping reader-writer lock of ftl-util/src/sync/rw_sleep_mutex.rs. *)
(* Bodies under the inner spin lock are one step: the release of all       *)
(* waiting readers, with its wakes, is one; the hand-over to a writer      *)
(* happens after the spin lock is dropped: the node is granted in one step *)
(* and its task is woken in another.                                       *)
(***************************************************************************)
EXTENDS Integers, Sequences, FiniteSets, Functions

CONSTANT Tasks

Unlock == 0
Unique == -1   \* Status::Unique; Status::Shared(n) is the number n > 0

VARIABLES
  status,    \* MutexInner.status
  shared,    \* MutexInner.shared: the waiting readers, oldest first
  unique,    \* MutexInner.unique: the waiting writers, oldest first
  mode,      \* the kind of each task's future and guard
  granted,   \* the first field of each task's node
  next,      \* the writer node a task that drops its guard has popped
  pc,        \* where each task is
  notified   \* a wake arrived while the task was running (async-task SCHEDULED)

vars == <<status, shared, unique, mode, granted, next, pc, notified>>

Modes == {"shared", "unique"}
Waits == {"poll", "park", "parked"}
PCs == Waits \cup {"out", "hold", "grant", "wake"}

Goto(t, l) == pc' = [pc EXCEPT ![t] = l]

Init ==
  /\ status = Unlock /\ shared = <<>> /\ unique = <<>>
  /\ mode = [t \in Tasks |-> "shared"]
  /\ granted = [t \in Tasks |-> FALSE]
  /\ next = [t \in Tasks |-> t]
  /\ pc = [t \in Tasks |-> "out"]
  /\ notified = [t \in Tasks |-> FALSE]

-----------------------------------------------------------------------------
(* Mutation: readers join readers although a writer waits. *)
SharedAllowed_greedy == status >= 0

(* Mutation: readers wait for readers. *)
SharedAllowed_strict == status = Unlock

(* The arms of shared_lock's init and of try_shared_lock that succeed. *)
SharedAllowed == status = Unlock \/ (status > 0 /\ unique = <<>>)

(* try_shared_lock when it succeeds *)
try_shared_lock(t) ==
  /\ pc[t] = "out" /\ SharedAllowed
  /\ status' = status + 1
  /\ mode' = [mode EXCEPT ![t] = "shared"]
  /\ Goto(t, "hold")
  /\ UNCHANGED <<shared, unique, granted, next, notified>>

(* try_unique_lock when it succeeds *)
try_unique_lock(t) ==
  /\ pc[t] = "out" /\ status = Unlock
  /\ status' = Unique
  /\ mode' = [mode EXCEPT ![t] = "unique"]
  /\ Goto(t, "hold")
  /\ UNCHANGED <<shared, unique, granted, next, notified>>

(* shared_lock: SharedSleepLockFuture::init *)
shared_lock(t) ==
  /\ pc[t] = "out"
  /\ mode' = [mode EXCEPT ![t] = "shared"]
  /\ IF SharedAllowed
     THEN /\ status' = status + 1
          /\ granted' = [granted EXCEPT ![t] = TRUE]
          /\ UNCHANGED shared
     ELSE /\ shared' = Append(shared, t)
          /\ UNCHANGED <<status, granted>>
  /\ Goto(t, "poll")
  /\ UNCHANGED <<unique, next, notified>>

(* Mutation: a writer takes its place among readers that are inside. *)
unique_lock_among_readers(t) ==
  /\ pc[t] = "out"
  /\ mode' = [mode EXCEPT ![t] = "unique"]
  /\ IF status # Unique
     THEN /\ status' = Unique
          /\ granted' = [granted EXCEPT ![t] = TRUE]
          /\ UNCHANGED unique
     ELSE /\ unique' = Append(unique, t)
          /\ UNCHANGED <<status, granted>>
  /\ Goto(t, "poll")
  /\ UNCHANGED <<shared, next, notified>>

(* unique_lock: UniqueSleepLockFuture::init *)
unique_lock(t) ==
  /\ pc[t] = "out"
  /\ mode' = [mode EXCEPT ![t] = "unique"]
  /\ IF status = Unlock
     THEN /\ status' = Unique
          /\ granted' = [granted EXCEPT ![t] = TRUE]
          /\ UNCHANGED unique
     ELSE /\ unique' = Append(unique, t)
          /\ UNCHANGED <<status, granted>>
  /\ Goto(t, "poll")
  /\ UNCHANGED <<shared, next, notified>>

(* Mutation: a poll that finds the flag unset registers the node once more. *)
poll_register_again(t) ==
  /\ pc[t] = "poll"
  /\ IF granted[t]
     THEN /\ Goto(t, "hold")
          /\ granted' = [granted EXCEPT ![t] = FALSE]
          /\ UNCHANGED unique
     ELSE /\ Goto(t, "park")
          /\ unique' = IF mode[t] = "unique" THEN Append(unique, t) ELSE unique
          /\ UNCHANGED granted
  /\ UNCHANGED <<status, shared, mode, next, notified>>

(* The polls of the two futures. *)
poll(t) ==
  /\ pc[t] = "poll"
  /\ IF granted[t]
     THEN /\ Goto(t, "hold")
          /\ granted' = [granted EXCEPT ![t] = FALSE]
     ELSE /\ Goto(t, "park")
          /\ UNCHANGED granted
  /\ UNCHANGED <<status, shared, unique, mode, next, notified>>

(* The executor finishes a run that returned Pending. *)
park(t) ==
  /\ pc[t] = "park"
  /\ Goto(t, IF notified[t] THEN "poll" ELSE "parked")
  /\ notified' = [notified EXCEPT ![t] = FALSE]
  /\ UNCHANGED <<status, shared, unique, mode, granted, next>>

-----------------------------------------------------------------------------
(* Mutation: the readers are released one short of their count. *)
release_shared_miscount(t) ==
  /\ status' = IF shared = <<>> THEN Unlock ELSE 1
  /\ shared' = <<>>
  /\ granted' = [s \in Tasks |-> granted[s] \/ s \in Range(shared)]
  /\ pc' = [s \in Tasks |->
              CASE s = t -> "out"
                [] s \in Range(shared) /\ pc[s] = "parked" -> "poll"
                [] OTHER -> pc[s]]
  /\ notified' = [s \in Tasks |->
                    notified[s] \/ (s \in Range(shared) /\ pc[s] # "parked")]
  /\ UNCHANGED <<unique, next>>

(* "release all shared": every waiting reader gets the lock and is woken; with no
   reader waiting the count 0 is Status::Unlock. *)
release_shared(t) ==
  /\ status' = Len(shared)
  /\ shared' = <<>>
  /\ granted' = [s \in Tasks |-> granted[s] \/ s \in Range(shared)]
  /\ pc' = [s \in Tasks |->
              CASE s = t -> "out"
                [] s \in Range(shared) /\ pc[s] = "parked" -> "poll"
                [] OTHER -> pc[s]]
  /\ notified' = [s \in Tasks |->
                    notified[s] \/ (s \in Range(shared) /\ pc[s] # "parked")]
  /\ UNCHANGED <<unique, next>>

(* The first writer in line is popped and the spin lock released. *)
pop_unique(t) ==
  /\ status' = Unique
  /\ next' = [next EXCEPT ![t] = Head(unique)]
  /\ unique' = Tail(unique)
  /\ Goto(t, "grant")
  /\ UNCHANGED <<shared, granted, notified>>

(* Drop of SharedSleepMutexGuard up to the release of the spin lock. *)
drop_shared(t) ==
  /\ pc[t] = "hold" /\ mode[t] = "shared"
  /\ IF status > 1
     THEN /\ status' = status - 1
          /\ Goto(t, "out")
          /\ UNCHANGED <<shared, unique, granted, next, notified>>
     ELSE IF unique # <<>> THEN pop_unique(t) ELSE release_shared(t)
  /\ UNCHANGED mode

(* Drop of UnqiueSleepMutexGuard up to the release of the spin lock. *)
drop_unique(t) ==
  /\ pc[t] = "hold" /\ mode[t] = "unique"
  /\ IF shared = <<>> /\ unique # <<>> THEN pop_unique(t) ELSE release_shared(t)
  /\ UNCHANGED mode

(* waker.take and data.0 = true on the popped writer's node *)
set_granted(t) ==
  /\ pc[t] = "grant"
  /\ granted' = [granted EXCEPT ![next[t]] = TRUE]
  /\ Goto(t, "wake")
  /\ UNCHANGED <<status, shared, unique, mode, next, notified>>

(* waker.wake() *)
wake(t) ==
  /\ pc[t] = "wake"
  /\ LET n == next[t] IN
       /\ pc' = [pc EXCEPT ![t] = "out", ![n] = IF @ = "parked" THEN "poll" ELSE @]
       /\ notified' = [notified EXCEPT ![n] = pc[n] # "parked"]
  /\ next' = [next EXCEPT ![t] = t]
  /\ UNCHANGED <<status, shared, unique, mode, granted>>

-----------------------------------------------------------------------------
(* The steps a task that has asked for the lock goes on to take by itself. *)
Proceed(t) ==
  poll(t) \/ park(t) \/ drop_shared(t) \/ drop_unique(t) \/ set_granted(t) \/ wake(t)

Next == \E t \in Tasks :
  \/ try_shared_lock(t) \/ try_unique_lock(t) \/ shared_lock(t) \/ unique_lock(t)
  \/ Proceed(t)

(* The executor runs every scheduled task, and every guard is dropped. *)
Fairness == \A t \in Tasks : WF_vars(Proceed(t))

Spec == Init /\ [][Next]_vars /\ Fairness

-----------------------------------------------------------------------------
(* The tasks the lock belongs to in one mode: with a guard, with a granted node,
   or as the target of a hand-over. *)
Owners(m) == {t \in Tasks :
  \/ mode[t] = m /\ (pc[t] = "hold" \/ granted[t])
  \/ m = "unique" /\ \E s \in Tasks : pc[s] = "grant" /\ next[s] = t}

(* Types, and a node is linked in one of the two queues at most once. *)
TypeOK ==
  /\ status \in {Unique} \cup 0..Cardinality(Tasks)
  /\ shared \in Seq(Tasks) /\ unique \in Seq(Tasks) /\ IsInjective(shared \o unique)
  /\ mode \in [Tasks -> Modes]
  /\ granted \in [Tasks -> BOOLEAN]
  /\ next \in [Tasks -> Tasks]
  /\ pc \in [Tasks -> PCs]
  /\ notified \in [Tasks -> BOOLEAN]

(* A writer holds its guard alone; readers share. *)
Exclusion ==
  \A s, t \in Tasks :
    pc[s] = "hold" /\ pc[t] = "hold" /\ mode[s] = "unique" => s = t

(* The status counts the owners exactly, grants still to be polled and hand-overs
   included: the unwrap and the panic in the Drop of the shared guard and the
   assertion in the Drop of the unique guard cannot fire. *)
StatusExact ==
  /\ Cardinality(Owners("shared")) = IF status > 0 THEN status ELSE 0
  /\ Cardinality(Owners("unique")) = IF status = Unique THEN 1 ELSE 0

(* A reader queues only behind a writer: while readers hold the lock and no writer
   waits, no reader waits; a free lock has no waiter at all. *)
NoNeedlessWait ==
  /\ status >= 0 /\ unique = <<>> => shared = <<>>
  /\ status = Unlock => unique = <<>>

(* The guards exclude each other, the status is exact, and nobody waits who need not. *)
RwSleepMutexSafe == Exclusion /\ StatusExact /\ NoNeedlessWait

(* Readers and writers are served in turns, so that neither kind starves. *)
EveryWaiterAcquires == \A t \in Tasks : pc[t] \in Waits ~> pc[t] = "hold"
=============================================================================
