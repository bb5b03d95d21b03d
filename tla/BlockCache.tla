----------------------------- MODULE BlockCache -----------------------------
(***************************************************************************)
(* The cache of data clusters of the FAT32 file system (fat32/src/block):   *)
(* CacheManager with its weak index, the manager behind a sleep lock with   *)
(* search, clean and dirty, the semaphore that bounds dirty blocks, the     *)
(* task that writes them back, and the write tasks it spawns.  Tasks read   *)
(* and write clusters of files through an inode that remembers the block it *)
(* used last (inode/raw_inode.rs).  The content of a cluster is the number  *)
(* of the write it comes from.  A block whose buffer is being written is    *)
(* copied before it changes, so a write task carries a content of its own.  *)
(***************************************************************************)
EXTENDS Naturals, FiniteSets, Sequences, FiniteSetsExt, SequencesExt

CONSTANTS
  Tasks,
  Clusters, Files,      \* Naturals; the clusters that belong to files at first
  Warm,                 \* the clusters that were read before, at most MaxCache
  Cells,                \* Arc<Cache> objects, enough for the cache and the tasks
  MaxCache, MaxDirty, Concurrent,
  Kinds,                \* the calls made, of "read", "write", "fast" and "init"
  MaxCalls, MaxFrees,   \* bounds on the calls begun and on clusters freed
  None

VARIABLES
  search, saved,  \* search: the block of a cluster, and the AID kept beside it
  clean,          \* clean: entries with their AID
  dirty,          \* dirty: the block of a dirty cluster; it owns a permit
  pending,        \* sync_pending
  index,          \* CacheIndex: weak references
  cell,           \* Cache: its AID and its content
  aid,            \* AIDAllocator
  lock,           \* holder of the lock of CacheManagerInner across an await
  permits,        \* dirty_semaphore
  task,           \* the call of every task
  last,           \* RawInode.last_cache of the file the task works on
  used,           \* the clusters of files
  sync,           \* the sync task: where it is, the set taken, what is left, the buffer
  room,           \* its AtomicUsize: write tasks it may still spawn
  flights,        \* write tasks, in the order they were spawned
  disk,
  val,            \* ghost: the last content stored to a cluster
  ordered,        \* ghost: the device has served each cluster in order so far
  failed,         \* ghost: a call has ended with ENOBUFS
  panicked, calls, frees

locals == <<task, last, used, calls>>
vars == <<search, saved, clean, dirty, pending, index, cell, aid, lock, permits, task, last,
          used, sync, room, flights, disk, val, ordered, failed, panicked, calls, frees>>

Idle == [pc |-> "idle", kind |-> "none", cid |-> None, got |-> None, old |-> None, limit |-> 0]
NoBlock == [cid |-> None, cell |-> None]

TypeOK ==
  /\ search \in [Clusters -> Cells \cup {None}] /\ saved \in [Clusters -> Nat]
  /\ \A e \in clean : e.aid \in Nat /\ e.cid \in Clusters /\ e.cell \in Cells
  /\ dirty \in [Clusters -> Cells \cup {None}] /\ pending \subseteq Clusters
  /\ index \in [Clusters -> Cells \cup {None}]
  /\ cell \in [Cells -> [aid : Nat, data : Nat]] /\ aid \in Nat
  /\ lock \in Tasks \cup {None} /\ permits \in 0..MaxDirty
  /\ \A t \in Tasks :
       /\ task[t].pc \in {"idle", "get", "lock", "ilock", "new", "evict", "load", "index", "use",
                          "permit", "store", "mark", "insert"}
       /\ task[t].kind \in {"none", "write"} \cup Kinds
       /\ task[t].got \in Cells \cup {None} /\ task[t].old \in Clusters \cup {None}
  /\ last \in [Tasks -> [cid : Clusters \cup {None}, cell : Cells \cup {None}]]
  /\ used \subseteq Clusters /\ room \in 0..Concurrent /\ disk \in [Clusters -> Nat]
  /\ sync.pc \in {"wait", "buffer", "spawn", "suspend"} /\ val \in [Clusters -> Nat]

(* The clusters of Warm have been read, in their order; the file of the last *)
(* of them is still open, by any one of the tasks.                           *)
opener == CHOOSE t \in Tasks : TRUE

Init ==
  /\ search = [c \in Clusters |-> IF c \in Warm THEN c ELSE None]
  /\ saved = [c \in Clusters |-> IF c \in Warm THEN c ELSE 0]
  /\ clean = {[aid |-> c, cid |-> c, cell |-> c] : c \in Warm}
  /\ dirty = [c \in Clusters |-> None] /\ pending = {}
  /\ index = search
  /\ cell = [x \in Cells |-> [aid |-> IF x \in Warm THEN x ELSE 0, data |-> 0]]
  /\ aid = 1 + Cardinality(Clusters)
  /\ lock = None /\ permits = MaxDirty
  /\ task = [t \in Tasks |-> Idle] /\ used = Files
  /\ last = [t \in Tasks |->
       IF t = opener /\ Warm # {} THEN [cid |-> Max(Warm), cell |-> Max(Warm)] ELSE NoBlock]
  /\ sync = [pc |-> "wait", set |-> {}, todo |-> {}, data |-> 0]
  /\ room = Concurrent /\ flights = <<>>
  /\ disk = [c \in Clusters |-> 0] /\ val = [c \in Clusters |-> 0]
  /\ ordered = TRUE /\ failed = FALSE /\ panicked = FALSE /\ calls = 0 /\ frees = 0

-----------------------------------------------------------------------------
(* Mutation: the block an inode remembers does not count as used. *)
UsersOfTasks(x) == Cardinality({t \in Tasks : task[t].got = x})

(* Strong references to a block, other than those of the manager: from the   *)
(* tasks and from the inodes.                                                *)
Users(x) == Cardinality({t \in Tasks : task[t].got = x}) + Cardinality({t \in Tasks : last[t].cell = x})
Cached == {c \in Clusters : search[c] # None}
Alive(x) ==
  \/ \E c \in Clusters : search[c] = x \/ dirty[c] = x
  \/ \E e \in clean : e.cell = x
  \/ Users(x) > 0

(* Weak references to x upgrade no more. *)
Dies(x) == index' = [c \in Clusters |-> IF index[c] = x THEN None ELSE index[c]]

Goto(t, p) == task' = [task EXCEPT ![t].pc = p]
Keep(t, p, x) == task' = [task EXCEPT ![t].pc = p, ![t].got = x]

(* The call is over; the inode remembers the block. *)
Done(t) ==
  /\ task' = [task EXCEPT ![t] = Idle]
  /\ UNCHANGED last

(* A step in which an unwrap or an assertion fails. *)
Panic == panicked' = TRUE

manager == <<search, saved, clean, dirty, pending, cell, aid>>
device == <<sync, room, flights, disk, ordered>>

-----------------------------------------------------------------------------
(* A call on a cluster: a read or a write of a cluster of a file, or the     *)
(* first use of a cluster that has just been allocated.                      *)
Call(t) ==
  /\ task[t].pc = "idle" /\ calls < MaxCalls
  /\ \E k \in Kinds, c \in Clusters :
       /\ IF k = "init" THEN c \notin used /\ \A u \in Tasks : task[u].cid # c ELSE c \in used
       /\ task' = [task EXCEPT ![t] = [Idle EXCEPT !.pc = IF k = "init" THEN "ilock" ELSE "get",
                                                   !.kind = k, !.cid = c]]
  /\ calls' = calls + 1
  /\ UNCHANGED <<manager, index, lock, permits, last, used, device, val, failed, panicked, frees>>

(* get_nth_block: the block used last, or the weak index (CacheManager::     *)
(* get_block); without either the slow path.  The fast calls give up with    *)
(* EAGAIN, and the caller comes back with the slow ones.                     *)
Get(t) ==
  LET c == task[t].cid IN
  /\ task[t].pc = "get"
  /\ IF last[t].cid = c
       THEN Keep(t, "use", last[t].cell) /\ UNCHANGED last
     ELSE IF index[c] # None /\ Alive(index[c])
       THEN Keep(t, "use", index[c]) /\ last' = [last EXCEPT ![t] = [cid |-> c, cell |-> index[c]]]
     ELSE /\ task' = [task EXCEPT ![t].pc = IF task[t].kind = "fast" THEN "get" ELSE "lock",
                                  ![t].kind = IF @ = "fast" THEN "write" ELSE @]
          /\ UNCHANGED last
  /\ UNCHANGED <<manager, index, lock, permits, used, device, val, failed, panicked, calls, frees>>

(* CacheManagerInner::get_block: the lock, and a second look under it. *)
Lock(t) ==
  LET c == task[t].cid IN
  /\ task[t].pc = "lock" /\ lock = None
  /\ IF search[c] # None
       THEN Keep(t, "index", search[c]) /\ UNCHANGED lock
       ELSE Goto(t, "new") /\ lock' = t
  /\ UNCHANGED <<manager, index, permits, last, used, device, val, failed, panicked, calls, frees>>

(* get_block_init: an old block of the cluster is released first. *)
release_block(c) ==
  /\ search' = [search EXCEPT ![c] = None]
  /\ pending' = pending \ {c}
  /\ clean' = {e \in clean : e.aid # saved[c]}
  /\ dirty' = [dirty EXCEPT ![c] = None]
  /\ permits' = IF dirty[c] # None THEN permits + 1 ELSE permits

InitLock(t) ==
  LET c == task[t].cid IN
  /\ task[t].pc = "ilock" /\ lock = None
  /\ IF search[c] # None
       THEN release_block(c)
       ELSE UNCHANGED <<search, pending, clean, dirty, permits>>
  /\ lock' = t /\ Goto(t, "new")
  /\ UNCHANGED <<saved, cell, aid, index, last, used, device, val, failed, panicked, calls, frees>>

(* The task has a block without content: it loads it, still under the lock,  *)
(* or gives up the lock and takes a permit.                                  *)
HasBlock(t, x, old) ==
  LET init == task[t].kind = "init" IN
  /\ task' = [task EXCEPT ![t].pc = IF init THEN "permit" ELSE "load", ![t].got = x, ![t].old = old]
  /\ lock' = IF init THEN None ELSE lock
  /\ Dies(x)

(* get_new_uninit_block while there is room; else the bound of the scan. *)
NewBlock(t) ==
  /\ task[t].pc = "new"
  /\ IF Cardinality(Cached) < MaxCache
       THEN /\ HasBlock(t, CHOOSE x \in Cells : ~Alive(x), None)
            /\ UNCHANGED <<aid, panicked>>
     ELSE IF clean = {}
       THEN Panic /\ UNCHANGED <<task, lock, index, aid>>
       ELSE /\ task' = [task EXCEPT ![t].pc = "evict", ![t].limit = aid]
            /\ aid' = aid + 1
            /\ UNCHANGED <<lock, index, panicked>>
  /\ UNCHANGED <<search, saved, clean, dirty, pending, cell, permits, last, used, device, val,
                 failed, calls, frees>>

First == CHOOSE e \in clean : \A f \in clean : e.aid <= f.aid

(* A clean entry is kept, under another AID. *)
Rekey(e, a) ==
  /\ clean' = (clean \ {e}) \cup {[e EXCEPT !.aid = a]}
  /\ saved' = [saved EXCEPT ![e.cid] = a]

(* One turn of the loop of get_new_uninit_block.  A reference taken from the *)
(* weak index makes try_unwrap fail as it makes the test of the count fail.  *)
(* ENOBUFS leaves without the entry it has popped.                           *)
Evict(t) ==
  LET e == First
      x == e.cell
  IN
  /\ task[t].pc = "evict"
  /\ \/ /\ e.aid > task[t].limit
        /\ clean' = clean \ {e}
        /\ Done(t) /\ lock' = None /\ failed' = TRUE
        /\ UNCHANGED <<search, saved, cell, aid, index>>
     \/ /\ e.aid <= task[t].limit /\ cell[x].aid # e.aid
        /\ Rekey(e, cell[x].aid)
        /\ UNCHANGED <<search, cell, aid, task, last, lock, index, failed>>
     \/ /\ e.aid <= task[t].limit /\ cell[x].aid = e.aid /\ Users(x) # 0
        /\ Rekey(e, aid)
        /\ cell' = [cell EXCEPT ![x].aid = aid] /\ aid' = aid + 1
        /\ UNCHANGED <<search, task, last, lock, index, failed>>
     \/ /\ e.aid <= task[t].limit /\ cell[x].aid = e.aid /\ Users(x) = 0
        /\ search' = [search EXCEPT ![e.cid] = None]
        /\ clean' = clean \ {e}
        /\ HasBlock(t, x, e.cid)
        /\ UNCHANGED <<saved, cell, aid, last, failed>>
  /\ UNCHANGED <<dirty, pending, permits, used, device, val, panicked, calls, frees>>

force_insert_block(c, x, d) ==
  /\ cell' = [cell EXCEPT ![x] = [aid |-> aid, data |-> d]]
  /\ search' = [search EXCEPT ![c] = x] /\ saved' = [saved EXCEPT ![c] = aid]
  /\ aid' = aid + 1

(* The read of the device, the insertion, and the end of the lock. *)
Load(t) ==
  LET c == task[t].cid
      x == task[t].got
  IN
  /\ task[t].pc = "load"
  /\ force_insert_block(c, x, disk[c])
  /\ clean' = clean \cup {[aid |-> aid, cid |-> c, cell |-> x]}
  /\ ordered' = (ordered /\ \A i \in DOMAIN flights : flights[i].cid # c)
  /\ lock' = None /\ Goto(t, "index")
  /\ UNCHANGED <<dirty, pending, index, permits, last, used, sync, room, flights, disk, val,
                 failed, panicked, calls, frees>>

(* The device fails: the block is gone, and the call. *)
LoadFails(t) ==
  /\ task[t].pc = "load"
  /\ lock' = None /\ Done(t)
  /\ UNCHANGED <<manager, index, permits, used, device, val, failed, panicked, calls, frees>>

(* may_clear_insert, after the lock has been given up. *)
Index(t) ==
  LET c == task[t].cid IN
  /\ task[t].pc = "index"
  /\ index' = [d \in Clusters |-> IF d = c THEN task[t].got
                                  ELSE IF d = task[t].old THEN None ELSE index[d]]
  /\ last' = [last EXCEPT ![t] = [cid |-> c, cell |-> task[t].got]]
  /\ Goto(t, "use")
  /\ UNCHANGED <<manager, lock, permits, used, device, val, failed, panicked, calls, frees>>

(* access_ro, or the way to write_block.  wirte_block_fast tries the         *)
(* semaphore and comes back as the slow call.                                *)
Use(t) ==
  /\ task[t].pc = "use"
  /\ \/ task[t].kind = "read" /\ Done(t) /\ UNCHANGED permits
     \/ task[t].kind = "write" /\ Goto(t, "permit") /\ UNCHANGED <<permits, last>>
     \/ /\ task[t].kind = "fast"
        /\ IF permits > 0
             THEN Goto(t, "store") /\ permits' = permits - 1
             ELSE /\ task' = [task EXCEPT ![t].pc = "get", ![t].kind = "write", ![t].got = None]
                  /\ UNCHANGED permits
        /\ UNCHANGED last
  /\ UNCHANGED <<manager, index, lock, used, device, val, failed, panicked, calls, frees>>

(* dirty_semaphore.take. *)
Permit(t) ==
  /\ task[t].pc = "permit" /\ permits > 0
  /\ permits' = permits - 1
  /\ Goto(t, IF task[t].kind = "init" THEN "insert" ELSE "store")
  /\ UNCHANGED <<manager, index, lock, last, used, device, val, failed, panicked, calls, frees>>

(* access_rw: a content of its own while a write task has the old one. *)
Store(t) ==
  LET c == task[t].cid IN
  /\ task[t].pc = "store"
  /\ cell' = [cell EXCEPT ![task[t].got].data = val[c] + 1]
  /\ val' = [val EXCEPT ![c] = @ + 1]
  /\ Goto(t, "mark")
  /\ UNCHANGED <<search, saved, clean, dirty, pending, aid, index, lock, permits, last, used,
                 device, failed, panicked, calls, frees>>

(* Mutation: a block that is dirty already is not handed to the sync task again. *)
DirtyOnce(c) ==
  LET here == {e \in clean : e.aid = saved[c]} IN
  \/ /\ here # {}
     /\ clean' = clean \ here
     /\ dirty' = [dirty EXCEPT ![c] = search[c]]
     /\ pending' = pending \cup {c}
     /\ UNCHANGED <<permits, panicked>>
  \/ /\ here = {}
     /\ permits' = permits + 1
     /\ UNCHANGED <<clean, dirty, pending, panicked>>

(* become_dirty: a clean block moves to dirty with the permit; for a dirty   *)
(* one the permit goes back.  Anything else fails an unwrap or an assertion. *)
become_dirty(c) ==
  LET here == {e \in clean : e.aid = saved[c]} IN
  \/ /\ search[c] # None /\ here # {} /\ dirty[c] = None /\ c \notin pending
     /\ clean' = clean \ here
     /\ dirty' = [dirty EXCEPT ![c] = search[c]]
     /\ pending' = pending \cup {c}
     /\ UNCHANGED <<permits, panicked>>
  \/ /\ search[c] # None /\ here = {} /\ dirty[c] # None
     /\ pending' = pending \cup {c}
     /\ permits' = permits + 1
     /\ UNCHANGED <<clean, dirty, panicked>>
  \/ /\ \/ search[c] = None
        \/ here # {} /\ (dirty[c] # None \/ c \in pending)
        \/ here = {} /\ dirty[c] = None
     /\ Panic
     /\ UNCHANGED <<clean, dirty, pending, permits>>

Mark(t) ==
  /\ task[t].pc = "mark" /\ lock = None
  /\ become_dirty(task[t].cid)
  /\ Done(t)
  /\ UNCHANGED <<search, saved, cell, aid, index, lock, used, device, val, failed, calls, frees>>

(* wirte_block_fast meets a locked manager after it has changed the block:   *)
(* the permit goes back, and the slow call does the write again.             *)
MarkLater(t) ==
  /\ task[t].pc = "mark" /\ task[t].kind = "fast" /\ lock # None
  /\ permits' = permits + 1
  /\ task' = [task EXCEPT ![t].pc = "get", ![t].kind = "write", ![t].got = None]
  /\ UNCHANGED <<manager, index, lock, last, used, device, val, failed, panicked, calls, frees>>

(* The end of get_block_init: the content, force_insert_block, become_dirty. *)
Insert(t) ==
  LET c == task[t].cid
      x == task[t].got
  IN
  /\ task[t].pc = "insert" /\ lock = None
  /\ IF search[c] # None
       THEN Panic /\ UNCHANGED <<search, saved, dirty, pending, cell, aid, task, last, used, val>>
       ELSE /\ force_insert_block(c, x, val[c] + 1)
            /\ dirty' = [dirty EXCEPT ![c] = x] /\ pending' = pending \cup {c}
            /\ val' = [val EXCEPT ![c] = @ + 1]
            /\ used' = used \cup {c}
            /\ last' = [last EXCEPT ![t] = [cid |-> c, cell |-> x]]
            /\ task' = [task EXCEPT ![t] = Idle]
            /\ UNCHANGED panicked
  /\ UNCHANGED <<clean, index, lock, permits, device, failed, calls, frees>>

(* A file gives a cluster up; its block stays in the cache, and the inode    *)
(* may still remember it.                                                    *)
Free(c) ==
  /\ c \in used /\ frees < MaxFrees /\ \A t \in Tasks : task[t].cid # c
  /\ used' = used \ {c} /\ frees' = frees + 1
  /\ UNCHANGED <<manager, index, lock, permits, task, last, device, val, failed, panicked, calls>>

(* The file is closed: the inode goes, with the block it remembers. *)
Close(t) ==
  /\ task[t].pc = "idle" /\ last[t] # NoBlock
  /\ last' = [last EXCEPT ![t] = NoBlock]
  /\ UNCHANGED <<manager, index, lock, permits, task, used, device, val, failed, panicked, calls, frees>>

-----------------------------------------------------------------------------
(* WaitDirtyFuture: the sync task takes the whole set. *)
SyncTake ==
  /\ sync.pc = "wait" /\ pending # {}
  /\ sync' = [sync EXCEPT !.pc = "buffer", !.set = pending, !.todo = pending]
  /\ pending' = {}
  /\ UNCHANGED <<search, saved, clean, dirty, cell, aid, index, lock, permits, locals, room,
                 flights, disk, val, ordered, failed, panicked, frees>>

(* get_dirty_shared_buffer, in the order of the set. *)
SyncBuffer ==
  LET c == Min(sync.todo) IN
  /\ sync.pc = "buffer" /\ lock = None
  /\ IF dirty[c] = None
       THEN Panic /\ UNCHANGED sync
       ELSE /\ sync' = [sync EXCEPT !.pc = "spawn", !.data = cell[dirty[c]].data]
            /\ UNCHANGED panicked
  /\ UNCHANGED <<manager, index, lock, permits, locals, room, flights, disk, val, ordered,
                 failed, frees>>

(* WaitSemFuture, and the spawn of the write task. *)
SyncSpawn ==
  LET c == Min(sync.todo) IN
  /\ sync.pc = "spawn" /\ room > 0
  /\ room' = room - 1
  /\ flights' = Append(flights, [cid |-> c, data |-> sync.data])
  /\ sync' = [sync EXCEPT !.todo = @ \ {c}, !.data = 0,
                          !.pc = IF sync.todo = {c} THEN "suspend" ELSE "buffer"]
  /\ UNCHANGED <<manager, index, lock, permits, locals, disk, val, ordered, failed, panicked, frees>>

(* dirty_suspend_iter: what has not become pending again is clean, and its   *)
(* permit free, although the write tasks may still be under way.             *)
SyncSuspend ==
  LET over == sync.set \ pending
      new(c) == aid + Cardinality({d \in over : d < c})
  IN
  /\ sync.pc = "suspend" /\ lock = None
  /\ IF \E c \in over : dirty[c] = None
       THEN Panic /\ UNCHANGED <<clean, dirty, saved, aid, permits, sync>>
       ELSE /\ clean' = clean \cup {[aid |-> new(c), cid |-> c, cell |-> dirty[c]] : c \in over}
            /\ dirty' = [c \in Clusters |-> IF c \in over THEN None ELSE dirty[c]]
            /\ saved' = [c \in Clusters |-> IF c \in over THEN new(c) ELSE saved[c]]
            /\ aid' = aid + Cardinality(over)
            /\ permits' = permits + Cardinality(over)
            /\ sync' = [sync EXCEPT !.pc = "wait", !.set = {}]
            /\ UNCHANGED panicked
  /\ UNCHANGED <<search, pending, cell, index, lock, locals, room, flights, disk, val, ordered,
                 failed, frees>>

(* A write task has reached the device and ends. *)
Written(i) ==
  LET f == flights[i] IN
  /\ disk' = [disk EXCEPT ![f.cid] = f.data]
  /\ ordered' = (ordered /\ \A j \in 1..(i - 1) : flights[j].cid # f.cid)
  /\ flights' = RemoveAt(flights, i)
  /\ room' = room + 1
  /\ UNCHANGED <<manager, index, lock, permits, locals, sync, val, failed, panicked, frees>>

-----------------------------------------------------------------------------
Step(t) ==
  \/ Call(t) \/ Get(t) \/ Lock(t) \/ InitLock(t) \/ NewBlock(t) \/ Evict(t) \/ Load(t)
  \/ LoadFails(t) \/ Index(t) \/ Use(t) \/ Permit(t) \/ Store(t) \/ Mark(t) \/ MarkLater(t)
  \/ Insert(t) \/ Close(t)

Sync == SyncTake \/ SyncBuffer \/ SyncSpawn \/ SyncSuspend

(* Nothing is left to do, or the kernel has panicked. *)
Quiet ==
  /\ calls = MaxCalls /\ \A t \in Tasks : task[t].pc = "idle"
  /\ sync.pc = "wait" /\ pending = {} /\ flights = <<>>

Next ==
  \/ /\ ~panicked
     /\ \/ \E t \in Tasks : Step(t)
        \/ \E c \in Clusters : Free(c)
        \/ Sync
        \/ \E i \in DOMAIN flights : Written(i)
  \/ (panicked \/ Quiet) /\ UNCHANGED vars

Spec == Init /\ [][Next]_vars

-----------------------------------------------------------------------------
(* A cluster has one block, which is clean or dirty and not both; a dirty    *)
(* block and a task about to mark one own a permit each; a task works on the *)
(* block the manager knows, however it came by it.  Only a cluster that was  *)
(* freed with its block in the cache, and a call that ended with ENOBUFS,    *)
(* can make the manager's own unwraps and assertions fail.                   *)
BlocksExact ==
  /\ panicked => failed \/ frees > 0
  /\ panicked \/
     /\ \A e \in clean : search[e.cid] = e.cell /\ saved[e.cid] = e.aid /\ dirty[e.cid] = None
     /\ \A c \in Clusters : dirty[c] # None => dirty[c] = search[c]
     /\ \A c, d \in Cached : search[c] = search[d] => c = d
     /\ \A c \in pending : dirty[c] # None
     /\ failed \/ \A c \in Cached : dirty[c] # None \/ \E e \in clean : e.cid = c
     /\ permits + Cardinality({c \in Clusters : dirty[c] # None})
          + Cardinality({t \in Tasks : task[t].pc \in {"store", "mark", "insert"}}) = MaxDirty
     /\ frees = 0 => \A t \in Tasks :
          task[t].kind # "init" /\ task[t].got # None /\ task[t].pc # "load" =>
            search[task[t].cid] = task[t].got

(* What has last been handed to the device for the cluster. *)
HandedOut(c) ==
  LET mine == {i \in DOMAIN flights : flights[i].cid = c} IN
  IF sync.pc = "spawn" /\ Min(sync.todo) = c THEN sync.data
  ELSE IF mine # {} THEN flights[Max(mine)].data ELSE disk[c]

(* While the device serves the requests for a cluster in the order they are  *)
(* made, no store is lost: the block has the last content, the device has or *)
(* gets it when the block has gone, and a block that differs from what was   *)
(* handed to the device is on its way there.                                 *)
StoresKept ==
  ordered /\ frees = 0 /\ ~panicked => \A c \in used :
    /\ search[c] # None => cell[search[c]].data = val[c]
    /\ HandedOut(c) # val[c] =>
         /\ search[c] # None
         /\ \/ c \in pending
            \/ c \in sync.todo /\ ~(sync.pc = "spawn" /\ Min(sync.todo) = c)
            \/ \E t \in Tasks : task[t].cid = c /\ task[t].kind \in {"write", "fast"}
=============================================================================
