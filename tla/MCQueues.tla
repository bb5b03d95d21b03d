------------------------------ MODULE MCQueues ------------------------------
(***************************************************************************)
(* Queues that many use at once: the futexes, with deadlines and failing    *)
(* accesses to ua2, with munmap that closes the objects and new ones in     *)
(* their place, or with a waiter that meets a store and a wake; the         *)
(* lock-free queue and stack; and the cache of FAT32 clusters.  They share  *)
(* nothing, and a behaviour exercises one of them.                          *)
(***************************************************************************)
EXTENDS MCFutex, MCDisk

CONSTANT lone   \* the waiter that meets a store

VARIABLES
  l_head, l_next, l_free, l_pc, l_h, l_nx, l_node,   \* of the queue or the stack
  q_tail, q_value, q_t, q_val, q_pushes, q_pops, q_fifo, q_empty, q_stray,
  s_list, s_ops, s_stack, s_fate

C == INSTANCE Futex WITH Timed <- {}, Stores <- {}, Faults <- FALSE, MaxGen <- 2

Lone == {lone}
LoneMatch == {Lone}
Stored == {a}

D == INSTANCE Futex WITH
  Waiters <- Lone, Matches <- LoneMatch, Timed <- {}, Stores <- Stored, Faults <- FALSE, MaxGen <- 2

(* A dummy, and two nodes that are pushed.  Identifiers have 25 bits. *)
Boxes == Callers \cup {1}

Q == INSTANCE LockfreeQueue WITH
  Threads <- Waiters, Nodes <- Boxes, MaxPush <- 3, MaxPop <- 3, Null <- Nobody,
  ID_PERIOD <- 33554432,
  head <- l_head, tail <- q_tail, next <- l_next, value <- q_value, free <- l_free,
  pc <- l_pc, h <- l_h, t <- q_t, nx <- l_nx, node <- l_node, val <- q_val,
  pushes <- q_pushes, pops <- q_pops, fifo <- q_fifo, saw_empty <- q_empty, stray <- q_stray

S == INSTANCE LockfreeStack WITH
  Threads <- Waiters, Nodes <- Callers, MaxOps <- 6, Null <- Nobody, INVALID <- "INVALID",
  ID_PERIOD <- 33554432,
  head <- l_head, next <- l_next, free <- l_free, list <- s_list, pc <- l_pc, h <- l_h,
  nx <- l_nx, node <- l_node, ops <- s_ops, stack <- s_stack, fate <- s_fate

l_vars == <<l_head, l_next, l_free, l_pc, l_h, l_nx, l_node>>
q_vars == <<q_tail, q_value, q_t, q_val, q_pushes, q_pops, q_fifo, q_empty, q_stray>>
s_vars == <<s_list, s_ops, s_stack, s_fate>>

(* The variables of a part that is not exercised have no value of interest. *)
LOff == /\ l_head = 0 /\ l_next = 0 /\ l_free = 0 /\ l_pc = 0 /\ l_h = 0
        /\ l_nx = 0 /\ l_node = 0

QOff == /\ q_tail = 0 /\ q_value = 0 /\ q_t = 0 /\ q_val = 0
        /\ q_pushes = 0 /\ q_pops = 0 /\ q_fifo = 0 /\ q_empty = 0 /\ q_stray = 0

SOff == s_list = 0 /\ s_ops = 0 /\ s_stack = 0 /\ s_fate = 0

QueuesInit ==
  /\ which \in {"deadlines", "munmap", "store", "queue", "stack"} \cup DiskParts
  /\ CASE which = "munmap" -> C!Init [] which = "store" -> D!Init [] OTHER -> Init
  /\ CASE which = "queue" -> (Q!Init \/ Q!Used) /\ SOff
       [] which = "stack" -> S!Init /\ QOff
       [] OTHER -> LOff /\ QOff /\ SOff
  /\ DiskInit

QueuesNext ==
  \/ /\ \/ which = "deadlines" /\ Next
        \/ which = "munmap" /\ C!Next
        \/ which = "store" /\ D!Next
     /\ UNCHANGED <<which, l_vars, q_vars, s_vars, b_vars>>
  \/ which = "queue" /\ Q!Next /\ UNCHANGED <<which, vars, s_vars, b_vars>>
  \/ which = "stack" /\ S!Next /\ UNCHANGED <<which, vars, q_vars, b_vars>>
  \/ DiskNext /\ UNCHANGED <<which, vars, l_vars, q_vars, s_vars>>

QueuesSpec == QueuesInit /\ [][QueuesNext]_<<which, vars, l_vars, q_vars, s_vars, b_vars>>

-----------------------------------------------------------------------------
(* The type invariants of the parts. *)
QueuesTypeOK ==
  /\ CASE which = "munmap" -> C!TypeOK [] which = "store" -> D!TypeOK [] OTHER -> TypeOK
  /\ which = "queue" => Q!TypeOK
  /\ which = "stack" => S!TypeOK
  /\ DiskTypeOK

(* Futex: every node is in the list its view names and in no other, also    *)
(* while requeue, wake, timeout and munmap work on it, and munmap leaves no *)
(* sleeper in a queue nobody can find any more.                             *)
ListsExact ==
  CASE which = "munmap" -> C!ViewNamesTheList /\ C!ClosedIsEmpty
    [] which = "store" -> D!ViewNamesTheList /\ D!ClosedIsEmpty
    [] OTHER -> ViewNamesTheList /\ ClosedIsEmpty

(* No waiter whose deadline passes and no task that moves waiters between   *)
(* queues wait for each other in a circle, as long as requeues go one way.  *)
NoWaitCircle == IF which = "store" THEN D!NoWaitCycle ELSE NoWaitCycle

(* With objects that are closed and replaced, nobody sleeps on an old value *)
(* after the wake (FutexQueue::wait tests the word under the lock); as long *)
(* as no access to ua2 fails, every sleeper is in a list or about to be     *)
(* woken.                                                                   *)
NoSleeperLost ==
  CASE which = "munmap" -> C!SleeperIsReachable
    [] which = "store" -> D!NoLostWaiter /\ D!SleeperIsReachable
    [] OTHER -> TRUE

(* LockfreeQueue, new or used before: behind the dummy are the elements that *)
(* were pushed and not popped, in order, in no node of the heap; a pop       *)
(* returns the first one, or nothing if there was none during the call; and  *)
(* only a push that read the tail before it had moved twice may lose its     *)
(* element to a node that has left the queue (ChainExact, in a run of its    *)
(* own, shows that it does).  LockfreeStack: the chain is what was put there *)
(* and not taken off, whole lists included, and every node has one owner,    *)
(* until replace panics or close finds an appand that tries again.           *)
LockfreeExact ==
  /\ which = "queue" => Q!ExactUnlessEarly
  /\ which = "stack" => S!StackExact /\ S!OneOwner
=============================================================================
