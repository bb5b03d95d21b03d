------------------------------ MODULE MCLocks -------------------------------
(***************************************************************************)
(* The sleeping locks, the counting spin locks, and the allocation table of *)
(* FAT32, whose callers wait for the task that writes it back.  They share  *)
(* nothing, and a behaviour exercises one of them.                          *)
(***************************************************************************)
EXTENDS SleepMutex, SpinSizes, Integers

CONSTANTS
  SemTasks, Permits, Wants, Deltas, MaxPermits,
  watched,     \* the task whose waits are followed
  watchedHart, \* the hart whose waits are followed
  NoFile

ASSUME WatchedOK == watched \in Tasks \cap SemTasks /\ watchedHart \in Harts

VARIABLES
  which,
  r_status, r_shared, r_unique, r_mode, r_granted, r_next, r_pc, r_notified,
  s_cur, s_max, s_queue, s_want, s_granted, s_held, s_singles, s_pc, s_notified,
  t_tick, t_cur, t_my, t_pc, t_line,
  w_word, w_seen, w_pc,
  f_fat, f_cluster_free, f_cluster_search, f_fsinfo, f_loaded, f_dirty, f_pending, f_lock,
  f_permits, f_head, f_tail, f_call, f_sync, f_room, f_writes, f_infoWrite, f_failed,
  f_panicked, f_calls, f_fails

Rw == INSTANCE RwSleepMutex WITH
  status <- r_status, shared <- r_shared, unique <- r_unique, mode <- r_mode,
  granted <- r_granted, next <- r_next, pc <- r_pc, notified <- r_notified

Sem == INSTANCE Semaphore WITH
  Tasks <- SemTasks,
  cur <- s_cur, max <- s_max, queue <- s_queue, want <- s_want,
  granted <- s_granted, held <- s_held, singles <- s_singles, pc <- s_pc,
  notified <- s_notified

Tick == INSTANCE TickLock WITH
  tick <- t_tick, cur <- t_cur, my <- t_my, pc <- t_pc, line <- t_line

Word == INSTANCE RwSpinMutex WITH
  word <- w_word, seen <- w_seen, pc <- w_pc

(* The allocation table: four clusters in two units besides the last two. *)
FileChain == <<2, 5, 4>>

F == INSTANCE FatList WITH
  Files <- SemTasks, PerUnit <- 4, MaxCid <- 6, Chain <- FileChain, MaxDirty <- 2,
  Concurrent <- 1, Copies <- 1, MaxCalls <- 3, MaxFails <- 1, None <- NoFile,
  fat <- f_fat, cluster_free <- f_cluster_free, cluster_search <- f_cluster_search,
  fsinfo <- f_fsinfo, loaded <- f_loaded, dirty <- f_dirty, pending <- f_pending,
  owner <- f_lock, permits <- f_permits, head <- f_head, tail <- f_tail, call <- f_call,
  sync <- f_sync, room <- f_room, writes <- f_writes, infoWrite <- f_infoWrite,
  failed <- f_failed, panicked <- f_panicked, calls <- f_calls, fails <- f_fails

OneUpOneDown == {-1, 1}

rw_vars == <<r_status, r_shared, r_unique, r_mode, r_granted, r_next, r_pc, r_notified>>

sem_vars == <<s_cur, s_max, s_queue, s_want, s_granted, s_held, s_singles, s_pc, s_notified>>

tick_vars == <<t_tick, t_cur, t_my, t_pc, t_line>>

word_vars == <<w_word, w_seen, w_pc>>

f_vars == <<f_fat, f_cluster_free, f_cluster_search, f_fsinfo, f_loaded, f_dirty, f_pending,
            f_lock, f_permits, f_head, f_tail, f_call, f_sync, f_room, f_writes, f_infoWrite,
            f_failed, f_panicked, f_calls, f_fails>>

(* The table has no value of interest when it is not exercised. *)
FOff == /\ f_fat = 0 /\ f_cluster_free = 0 /\ f_cluster_search = 0 /\ f_fsinfo = 0
        /\ f_loaded = 0 /\ f_dirty = 0 /\ f_pending = 0 /\ f_lock = 0 /\ f_permits = 0
        /\ f_head = 0 /\ f_tail = 0 /\ f_call = 0 /\ f_sync = 0 /\ f_room = 0
        /\ f_writes = 0 /\ f_infoWrite = 0 /\ f_failed = 0 /\ f_panicked = 0
        /\ f_calls = 0 /\ f_fails = 0

LocksInit ==
  /\ which \in {"mutex", "rw", "semaphore", "tick", "word", "table"}
  /\ Init /\ Rw!Init /\ Sem!Init /\ Tick!Init /\ Word!Init
  /\ IF which = "table" THEN F!Init ELSE FOff

lock_vars == <<vars, rw_vars, sem_vars, tick_vars, word_vars>>

LocksNext ==
  \/ /\ \/ which = "mutex" /\ Next /\ UNCHANGED <<rw_vars, sem_vars, tick_vars, word_vars>>
        \/ which = "rw" /\ Rw!Next /\ UNCHANGED <<vars, sem_vars, tick_vars, word_vars>>
        \/ which = "semaphore" /\ Sem!Next /\ UNCHANGED <<vars, rw_vars, tick_vars, word_vars>>
        \/ which = "tick" /\ Tick!Next /\ UNCHANGED <<vars, rw_vars, sem_vars, word_vars>>
        \/ which = "word" /\ Word!Next /\ UNCHANGED <<vars, rw_vars, sem_vars, tick_vars>>
     /\ UNCHANGED <<which, f_vars>>
  \/ which = "table" /\ F!Next /\ UNCHANGED <<which, lock_vars>>

(* The fairness of the modules, asked only of the lock of the behaviour. *)
LocksFairness ==
  /\ \A t \in Tasks : /\ WF_vars(which = "mutex" /\ Proceed(t))
                      /\ WF_rw_vars(which = "rw" /\ Rw!Proceed(t))
  /\ \A t \in SemTasks : WF_sem_vars(which = "semaphore" /\ Sem!Proceed(t))
  /\ \A h \in Harts : /\ WF_tick_vars(which = "tick" /\ Tick!wait_tick(h))
                      /\ WF_tick_vars(which = "tick" /\ Tick!DropGuard(h))
                      /\ WF_word_vars(which = "word" /\ Word!SharedSpin(h))
                      /\ WF_word_vars(which = "word" /\ Word!DropShared(h))
                      /\ WF_word_vars(which = "word" /\ Word!DropUnique(h))
  /\ \A t \in SemTasks : WF_f_vars(which = "table" /\ ~f_panicked /\ F!Step(t))
  /\ WF_f_vars(which = "table" /\ ~f_panicked /\ F!Sync)
  /\ WF_f_vars(which = "table" /\ ~f_panicked /\ F!Written)
  /\ WF_f_vars(which = "table" /\ ~f_panicked /\ F!InfoWritten)

LocksSpec ==
  /\ LocksInit /\ [][LocksNext]_<<which, lock_vars, f_vars>>
  /\ LocksFairness

-----------------------------------------------------------------------------
(* The type invariants of the locks. *)
LocksTypeOK ==
  /\ TypeOK /\ Rw!TypeOK /\ Sem!TypeOK /\ Tick!TypeOK /\ Word!TypeOK
  /\ which = "table" => F!TypeOK

(* RwSleepMutex: a writer holds its guard alone and readers share; the       *)
(* status counts the owners exactly, so the unwrap and the panic in the Drop *)
(* of the guards cannot fire; a reader waits only behind a writer.           *)
RwSleepMutexSafe == Rw!RwSleepMutexSafe

(* Semaphore: no permit is lost or made up by split, drop and change, and    *)
(* release_task leaves nobody asleep beside permits it could use.            *)
SemaphoreSafe == Sem!Conservation /\ Sem!NoIdlePermits

(* TickLock: the guard goes round in the order of the tickets.  RwSpinMutex: *)
(* the writer is alone, and the word counts readers and writer exactly.      *)
SpinCountersSafe == Tick!FirstInLine /\ Word!RwExclusion /\ Word!WordExact

(* FatList: chains end, meet no free cluster and no other chain, whatever    *)
(* call fails half-way; the count of free clusters and the permits are       *)
(* exact; and the sync task does not sleep beside dirty units.               *)
FatListSafe == which = "table" => F!ChainsLegal /\ F!TableExact

(* The watched task sleeps for a lock, or the watched hart has drawn a       *)
(* ticket of TickLock or announced itself as a reader of RwSpinMutex.        *)
Asks ==
  CASE which = "mutex" -> pc[watched] \in Waits
    [] which = "rw" -> r_pc[watched] \in Rw!Waits
    [] which = "semaphore" -> s_pc[watched] \in Sem!Waits
    [] which = "tick" -> t_pc[watchedHart] = "wait"
    [] which = "word" -> w_pc[watchedHart] = "swait"
    [] which = "table" -> f_call[watched].pc \in {"alloc", "cut", "self"}
    [] OTHER -> FALSE

(* It is served; a request for more permits than there will be is not. *)
Gets ==
  CASE which = "mutex" -> pc[watched] = "hold"
    [] which = "rw" -> r_pc[watched] = "hold"
    [] which = "semaphore" -> s_pc[watched] = "hold" \/ \E u \in SemTasks : s_want[u] > s_max
    [] which = "tick" -> t_pc[watchedHart] = "held"
    [] which = "word" -> w_pc[watchedHart] = "shared"
    [] which = "table" -> f_panicked \/ f_call[watched].pc \notin {"alloc", "cut", "self"}
    [] OTHER -> TRUE

(* Whoever asks for a lock gets it: tasks queued at SleepMutex, readers and  *)
(* writers in turns, requests for many permits beside small ones, the holder *)
(* of a ticket, a reader in front of writers, and a file that waits until    *)
(* units of the allocation table are written back.  Tasks and harts are      *)
(* interchangeable, so one of each stands for all.                           *)
EveryoneServed == Asks ~> Gets
=============================================================================
