------------------------------ MODULE FatList -------------------------------
(***************************************************************************)
(* The file allocation table (fat32/src/fat_list): FatList with the         *)
(* semaphore that bounds dirty units, ListManager behind a sleep lock, the  *)
(* fsinfo sector with the count of free clusters, and the task that writes  *)
(* units back.  Files grow and are emptied the way RawInode does it         *)
(* (inode/raw_inode.rs), each under the unique lock of its inode, so a file *)
(* has one caller at a time.  A unit is a sector of the table.  The table   *)
(* is small enough for every unit to stay in the cache once it is read.     *)
(* What write tasks carry is the matter of BlockCache.                      *)
(***************************************************************************)
EXTENDS Naturals, FiniteSets, FiniteSetsExt, Functions, Sequences

CONSTANTS
  Files,
  PerUnit,     \* entries of a unit
  MaxCid,      \* max_cid, the number of clusters; their identifiers start at 2
  Chain,       \* the chain of the file that is not empty at first
  MaxDirty, Concurrent,
  Copies,      \* copies of the table on the device
  MaxCalls, MaxFails,
  None

FREE == 0
LAST == MaxCid + 2
Clusters == 2..(MaxCid + 1)
Units == 0..((MaxCid + 1) \div PerUnit)
UnitOf(c) == c \div PerUnit
IsNext(c) == c \in Clusters

VARIABLES
  fat,                     \* the entries, as the cached units have them
  cluster_free, cluster_search, fsinfo,
  loaded,                  \* units in the cache
  dirty, pending,          \* dirty; sync_pending
  owner,                   \* holder of the manager across an await
  permits,                 \* dirty_semaphore
  head, tail,              \* InodeCacheInner: cid_start, and the last cluster it knows
  call,                    \* the call of a file
  sync,                    \* the sync task: where it is, whether it is parked, its set and writes
  room, writes, infoWrite, \* its AtomicUsize; write tasks; where the one of fsinfo is
  failed,                  \* ghost: the calls that have failed half-way
  panicked, calls, fails

vars == <<fat, cluster_free, cluster_search, fsinfo, loaded, dirty, pending, owner, permits, head,
          tail, call, sync, room, writes, infoWrite, failed, panicked, calls, fails>>

Idle == [pc |-> "idle", last |-> FREE, sems |-> 0, unit |-> 0, cnt |-> 0, cid |-> FREE]

(* A file with some clusters, in both units; the others are empty.  The last *)
(* two clusters, which alloc_cluster does not look at, are free or in use.   *)
filled == CHOOSE f \in Files : TRUE

Init ==
  /\ \E beyond \in {FREE, LAST} : fat = [c \in Clusters |->
       IF \E i \in DOMAIN Chain : Chain[i] = c
         THEN LET i == CHOOSE j \in DOMAIN Chain : Chain[j] = c IN
              IF i + 1 \in DOMAIN Chain THEN Chain[i + 1] ELSE LAST
       ELSE IF c >= MaxCid THEN beyond ELSE FREE]
  /\ cluster_free = Cardinality({c \in Clusters : fat[c] = FREE})
  /\ cluster_search = PerUnit /\ fsinfo = "Clean"
  /\ loaded = {} /\ dirty = {} /\ pending = {}
  /\ owner = None /\ permits = MaxDirty
  /\ head = [f \in Files |-> IF f = filled THEN Chain[1] ELSE FREE]
  /\ tail = [f \in Files |-> IF f = filled THEN Chain[Len(Chain)] ELSE FREE]
  /\ call = [f \in Files |-> Idle]
  /\ sync = [pc |-> "wait", parked |-> TRUE, set |-> {}, todo |-> 0]
  /\ room = Concurrent /\ writes = 0 /\ infoWrite = "none"
  /\ failed = {} /\ panicked = FALSE /\ calls = 0 /\ fails = 0

(* The device fails to read a unit, or memory for a copy of a shared one is  *)
(* short.  Fails is a bound on how often.                                    *)
Fails == fails < MaxFails /\ fails' = fails + 1

-----------------------------------------------------------------------------
(* fsinfo_into_dirty. *)
InfoDirty == IF fsinfo \in {"Clean", "Dirty"} THEN "Dirty" ELSE "SyncDirty"

(* Mutation: the sync task is woken by every unit but the first. *)
unit_into_dirty_late(us) ==
  /\ dirty' = dirty \cup us /\ pending' = pending \cup us
  /\ sync' = [sync EXCEPT !.parked = @ /\ (dirty = {} \/ us \subseteq dirty)]

(* unit_into_dirty for the units of one call: a unit that was clean takes a  *)
(* permit, and the first dirty unit wakes the sync task.                     *)
unit_into_dirty(us) ==
  /\ dirty' = dirty \cup us /\ pending' = pending \cup us
  /\ sync' = [sync EXCEPT !.parked = @ /\ (dirty # {} \/ us = {})]

(* The permits left over return with the end of the call's critical section. *)
Release(f, us) ==
  /\ permits' = permits + call[f].sems - Cardinality(us \ dirty)
  /\ owner' = None

Done(f) == call' = [call EXCEPT ![f] = Idle]

(* The call leaves with an error before it has changed anything. *)
Leaves(f) ==
  /\ Done(f) /\ permits' = permits + call[f].sems /\ owner' = None

table == <<fat, cluster_free, cluster_search, fsinfo, loaded, dirty, pending>>
inodes == <<head, tail, failed>>
tasks == <<sync, room, writes, infoWrite>>

(* RawInode::append_block and get_nth_block_alloc: the chain is followed to  *)
(* its end from the last cluster the inode knows, or the inode's own end of  *)
(* the chain is taken.  An empty file asks for one permit, others for two.   *)
EndOf(c) ==
  LET reached[k \in 0..MaxCid] ==
        IF k = 0 THEN c
        ELSE LET d == reached[k - 1] IN IF IsNext(fat[d]) THEN fat[d] ELSE d
  IN reached[MaxCid]

Grow(f) ==
  /\ call[f].pc = "idle" /\ calls < MaxCalls /\ calls' = calls + 1
  /\ \E c \in IF head[f] = FREE THEN {FREE} ELSE {tail[f], EndOf(tail[f])} :
       call' = [call EXCEPT ![f] = [Idle EXCEPT !.pc = "alloc", !.last = c]]
  /\ UNCHANGED <<table, owner, permits, inodes, tasks, panicked, fails>>

(* RawInode::resize to nothing, and the end of a file removed while open. *)
Empty(f) ==
  /\ call[f].pc = "idle" /\ head[f] # FREE /\ calls < MaxCalls /\ calls' = calls + 1
  /\ call' = [call EXCEPT ![f].pc = "cut"]
  /\ UNCHANGED <<table, owner, permits, inodes, tasks, panicked, fails>>

(* take, take_n and, in free_cluster_at, (max / 4).max(2).min(10). *)
Need(f) ==
  CASE call[f].pc = "alloc" -> IF call[f].last = FREE THEN 1 ELSE 2
    [] call[f].pc = "cut" -> Min({10, Max({2, MaxDirty \div 4})})
    [] OTHER -> 1

Then(p) == CASE p = "alloc" -> "alloclock" [] p = "cut" -> "cutlock" [] p = "self" -> "selflock"

Take(f) ==
  /\ call[f].pc \in {"alloc", "cut", "self"} /\ permits >= Need(f)
  /\ permits' = permits - Need(f)
  /\ call' = [call EXCEPT ![f].pc = Then(@), ![f].sems = Need(f)]
  /\ UNCHANGED <<table, owner, inodes, tasks, panicked, calls, fails>>

-----------------------------------------------------------------------------
(* The manager is locked; alloc_cluster_after gets the unit of the last      *)
(* cluster first.  ENOSPC, or the scan begins at the unit of cluster_search. *)
AllocLock(f) ==
  LET c == call[f].last IN
  /\ call[f].pc = "alloclock" /\ owner = None
  /\ \/ /\ c # FREE /\ Fails
        /\ Leaves(f) /\ UNCHANGED loaded
     \/ /\ loaded' = loaded \cup (IF c = FREE THEN {} ELSE {UnitOf(c)})
        /\ IF cluster_free = 0
             THEN Leaves(f)
             ELSE /\ call' = [call EXCEPT ![f].pc = "scan", ![f].unit = UnitOf(cluster_search)]
                  /\ owner' = f /\ UNCHANGED permits
        /\ UNCHANGED fails
  /\ UNCHANGED <<fat, cluster_free, cluster_search, fsinfo, dirty, pending, inodes, tasks, panicked,
                 calls>>

FreeIn(u) == {c \in Clusters : UnitOf(c) = u /\ c < MaxCid /\ fat[c] = FREE}

(* Mutation: the new cluster is linked to the chain, and not ended. *)
Linked_open(last, c) == IF last = FREE THEN [fat EXCEPT ![c] = LAST] ELSE [fat EXCEPT ![last] = c]

(* The new cluster ends its chain, and the old end points to it. *)
Linked(last, c) ==
  IF last = FREE THEN [fat EXCEPT ![c] = LAST] ELSE [fat EXCEPT ![c] = LAST, ![last] = c]

(* One turn of the loop of alloc_cluster, and with the free cluster the rest *)
(* of alloc_cluster_after.                                                   *)
Scan(f) ==
  LET u == call[f].unit
      last == call[f].last
  IN
  /\ call[f].pc = "scan"
  /\ \/ /\ Fails /\ Leaves(f)
        /\ UNCHANGED <<table, sync, panicked>>
     \/ /\ u = 0 /\ call[f].cnt = 2
        /\ panicked' = TRUE
        /\ UNCHANGED <<table, sync, call, permits, owner, fails>>
     \/ /\ ~(u = 0 /\ call[f].cnt = 2) /\ FreeIn(u) # {}
        /\ LET c == Min(FreeIn(u))
               us == {UnitOf(c)} \cup (IF last = FREE THEN {} ELSE {UnitOf(last)})
           IN
           /\ fat' = Linked(last, c)
           /\ unit_into_dirty(us) /\ Release(f, us)
           /\ call' = [call EXCEPT ![f] = [Idle EXCEPT !.pc = "init", !.cid = c]]
        /\ cluster_free' = cluster_free - 1 /\ fsinfo' = InfoDirty
        /\ loaded' = loaded \cup {u}
        /\ UNCHANGED <<cluster_search, panicked, fails>>
     \/ /\ ~(u = 0 /\ call[f].cnt = 2) /\ FreeIn(u) = {}
        /\ LET next == IF (u + 1) * PerUnit >= MaxCid THEN 0 ELSE u + 1 IN
           /\ call' = [call EXCEPT ![f].unit = next, ![f].cnt = IF u = 0 THEN @ + 1 ELSE @]
           /\ cluster_search' = next * PerUnit
        /\ fsinfo' = InfoDirty /\ loaded' = loaded \cup {u}
        /\ UNCHANGED <<fat, cluster_free, dirty, pending, sync, permits, owner, panicked, fails>>
  /\ UNCHANGED <<inodes, room, writes, infoWrite, calls>>

(* get_block_init of the new cluster, and append_first or append_last. *)
InitBlock(f) ==
  LET c == call[f].cid IN
  /\ call[f].pc = "init"
  /\ Done(f)
  /\ \/ /\ head' = [head EXCEPT ![f] = IF @ = FREE THEN c ELSE @]
        /\ tail' = [tail EXCEPT ![f] = c]
        /\ UNCHANGED <<failed, fails>>
     \/ /\ Fails /\ failed' = failed \cup {"init"}
        /\ UNCHANGED <<head, tail>>
  /\ UNCHANGED <<table, owner, permits, tasks, panicked, calls>>

-----------------------------------------------------------------------------
(* ListManager::free_cluster_at: one permit is put aside for the head. *)
CutLock(f) ==
  /\ call[f].pc = "cutlock" /\ owner = None
  /\ \/ /\ Fails /\ Leaves(f) /\ UNCHANGED loaded
     \/ /\ loaded' = loaded \cup {UnitOf(head[f])}
        /\ call' = [call EXCEPT ![f].pc = "free", ![f].cid = fat[head[f]], ![f].cnt = 0]
        /\ owner' = f
        /\ UNCHANGED <<permits, fails>>
  /\ UNCHANGED <<fat, cluster_free, cluster_search, fsinfo, dirty, pending, inodes, tasks, panicked,
                 calls>>

(* Mutation: an error leaves the link of the head as it was. *)
CutEnds_stale(f, c) ==
  LET us == {UnitOf(head[f])} IN
  /\ fat' = IF IsNext(c) THEN fat ELSE [fat EXCEPT ![head[f]] = c]
  /\ cluster_free' = cluster_free + call[f].cnt /\ fsinfo' = InfoDirty
  /\ unit_into_dirty(us) /\ Release(f, us)

(* The head is linked to what is left, and the freed clusters are counted. *)
CutEnds(f, c) ==
  LET us == {UnitOf(head[f])} IN
  /\ fat' = [fat EXCEPT ![head[f]] = c]
  /\ cluster_free' = cluster_free + call[f].cnt /\ fsinfo' = InfoDirty
  /\ unit_into_dirty(us) /\ Release(f, us)

(* One turn of the loop of free_cluster_at_impl, or its end: the chain is    *)
(* gone, the permits are used up and more are asked for, or it has failed.   *)
FreeNext(f) ==
  LET c == call[f].cid
      us == {UnitOf(c)}
  IN
  /\ call[f].pc = "free"
  /\ \/ /\ ~IsNext(c) /\ CutEnds(f, LAST)
        /\ call' = [call EXCEPT ![f] = [Idle EXCEPT !.pc = "self"]]
        /\ UNCHANGED <<loaded, fails>>
     \/ /\ IsNext(c) /\ call[f].sems = 1 /\ CutEnds(f, c)
        /\ call' = [call EXCEPT ![f] = [Idle EXCEPT !.pc = "cut"]]
        /\ UNCHANGED <<loaded, fails>>
     \/ /\ IsNext(c) /\ call[f].sems > 1 /\ Fails /\ CutEnds(f, c)
        /\ Done(f)
        /\ UNCHANGED loaded
     \/ /\ IsNext(c) /\ call[f].sems > 1
        /\ fat' = [fat EXCEPT ![c] = FREE]
        /\ unit_into_dirty(us) /\ loaded' = loaded \cup us
        /\ call' = [call EXCEPT ![f].cid = fat[c], ![f].cnt = @ + 1,
                                ![f].sems = @ - Cardinality(us \ dirty)]
        /\ UNCHANGED <<cluster_free, fsinfo, permits, owner, fails>>
  /\ UNCHANGED <<cluster_search, inodes, room, writes, infoWrite, panicked, calls>>

(* free_cluster of the head, and list_truncate. *)
FreeHead(f) ==
  LET us == {UnitOf(head[f])} IN
  /\ call[f].pc = "selflock" /\ owner = None
  /\ \/ /\ Fails /\ Leaves(f) /\ failed' = failed \cup {"head"}
        /\ UNCHANGED <<table, sync, head, tail>>
     \/ /\ fat' = [fat EXCEPT ![head[f]] = FREE]
        /\ cluster_free' = cluster_free + 1 /\ fsinfo' = InfoDirty
        /\ loaded' = loaded \cup us
        /\ unit_into_dirty(us) /\ Release(f, us) /\ Done(f)
        /\ head' = [head EXCEPT ![f] = FREE] /\ tail' = [tail EXCEPT ![f] = FREE]
        /\ UNCHANGED <<cluster_search, failed, fails>>
  /\ UNCHANGED <<room, writes, infoWrite, panicked, calls>>

-----------------------------------------------------------------------------
Goto(p) == sync' = [sync EXCEPT !.pc = p]
Park == sync' = [sync EXCEPT !.parked = TRUE]
rest == <<fat, cluster_free, cluster_search, loaded, head, tail, call, failed, calls, fails>>

(* WaitDirtyFuture. *)
SyncTake ==
  /\ sync.pc = "wait" /\ ~sync.parked
  /\ IF pending = {}
       THEN Park /\ UNCHANGED pending
       ELSE /\ sync' = [sync EXCEPT !.pc = "buffers", !.set = pending]
            /\ pending' = {}
  /\ UNCHANGED <<rest, fsinfo, dirty, owner, permits, room, writes, infoWrite, panicked>>

(* get_dirty_shared_buffer for the whole set. *)
SyncBuffers ==
  /\ sync.pc = "buffers" /\ owner = None
  /\ IF sync.set \subseteq dirty
       THEN /\ sync' = [sync EXCEPT !.pc = "spawn", !.todo = Cardinality(sync.set) * Copies]
            /\ UNCHANGED panicked
       ELSE panicked' = TRUE /\ UNCHANGED sync
  /\ UNCHANGED <<rest, fsinfo, dirty, pending, owner, permits, room, writes, infoWrite>>

(* WaitSemFuture and the spawn of a write task, for every unit and copy. *)
SyncSpawn ==
  /\ sync.pc = "spawn" /\ ~sync.parked
  /\ IF room = 0
       THEN Park /\ UNCHANGED <<room, writes>>
       ELSE /\ room' = room - 1 /\ writes' = writes + 1
            /\ sync' = [sync EXCEPT !.todo = @ - 1, !.pc = IF sync.todo = 1 THEN "suspend" ELSE @]
  /\ UNCHANGED <<rest, fsinfo, dirty, pending, owner, permits, infoWrite, panicked>>

(* Mutation: the permits of units that are pending again return too. *)
Suspended_all == sync.set

(* dirty_suspend_iter: the units that have not become pending again. *)
Suspended == sync.set \ pending

SyncSuspend ==
  /\ sync.pc = "suspend" /\ owner = None
  /\ dirty' = dirty \ Suspended
  /\ permits' = permits + Cardinality(Suspended)
  /\ sync' = [sync EXCEPT !.pc = "info", !.set = {}]
  /\ UNCHANGED <<rest, fsinfo, pending, owner, room, writes, infoWrite, panicked>>

(* fsinfo_need_sync and fsifo_store_buffer_device. *)
SyncInfo ==
  /\ sync.pc = "info" /\ owner = None
  /\ IF fsinfo = "Dirty"
       THEN Goto("infospawn") /\ fsinfo' = "SyncClean"
       ELSE Goto("wait") /\ UNCHANGED fsinfo
  /\ UNCHANGED <<rest, dirty, pending, owner, permits, room, writes, infoWrite, panicked>>

SyncInfoSpawn ==
  /\ sync.pc = "infospawn" /\ ~sync.parked
  /\ IF room = 0
       THEN Park /\ UNCHANGED <<room, infoWrite>>
       ELSE room' = room - 1 /\ infoWrite' = "device" /\ Goto("wait")
  /\ UNCHANGED <<rest, fsinfo, dirty, pending, owner, permits, writes, panicked>>

(* A write task ends: a place is free, and the sync task is woken. *)
Wake == sync' = [sync EXCEPT !.parked = FALSE]

Written ==
  /\ writes > 0
  /\ writes' = writes - 1 /\ room' = room + 1 /\ Wake
  /\ UNCHANGED <<rest, fsinfo, dirty, pending, owner, permits, infoWrite, panicked>>

(* fsinfo_leave_device. *)
InfoWritten ==
  /\ infoWrite = "device" /\ owner = None
  /\ infoWrite' = "none"
  /\ \/ fsinfo = "SyncClean" /\ fsinfo' = "Clean" /\ UNCHANGED panicked
     \/ fsinfo = "SyncDirty" /\ fsinfo' = "Dirty" /\ UNCHANGED panicked
     \/ fsinfo \in {"Clean", "Dirty"} /\ panicked' = TRUE /\ UNCHANGED fsinfo
  /\ room' = room + 1 /\ Wake
  /\ UNCHANGED <<rest, dirty, pending, owner, permits, writes>>

-----------------------------------------------------------------------------
Step(f) ==
  \/ Take(f) \/ AllocLock(f) \/ Scan(f) \/ InitBlock(f) \/ CutLock(f) \/ FreeNext(f) \/ FreeHead(f)

Sync == SyncTake \/ SyncBuffers \/ SyncSpawn \/ SyncSuspend \/ SyncInfo \/ SyncInfoSpawn

(* Nothing is left to do. *)
Quiet ==
  /\ calls = MaxCalls /\ \A f \in Files : call[f].pc = "idle"
  /\ sync.pc = "wait" /\ sync.parked /\ writes = 0 /\ infoWrite = "none"

Next ==
  \/ /\ ~panicked
     /\ \/ \E f \in Files : Grow(f) \/ Empty(f) \/ Step(f)
        \/ Sync \/ Written \/ InfoWritten
  \/ (panicked \/ Quiet) /\ UNCHANGED vars

Spec == Init /\ [][Next]_vars

-----------------------------------------------------------------------------
TypeOK ==
  /\ fat \in [Clusters -> {FREE, LAST} \cup Clusters]
  /\ cluster_free \in 0..MaxCid /\ cluster_search \in 0..(MaxCid - 1)
  /\ fsinfo \in {"Clean", "Dirty", "SyncClean", "SyncDirty"}
  /\ loaded \subseteq Units /\ dirty \subseteq Units /\ pending \subseteq Units
  /\ owner \in Files \cup {None} /\ permits \in 0..MaxDirty
  /\ head \in [Files -> {FREE} \cup Clusters] /\ tail \in [Files -> {FREE} \cup Clusters]
  /\ room \in 0..Concurrent /\ writes \in 0..Concurrent /\ infoWrite \in {"none", "device"}

(* The clusters a file reaches through the table. *)
ChainOf(f) ==
  LET reach[k \in 0..MaxCid] ==
        IF k = 0 THEN {head[f]} \ {FREE}
        ELSE LET before == reach[k - 1] IN
             before \cup {fat[c] : c \in {d \in before : IsNext(fat[d])}}
  IN reach[MaxCid]

(* The clusters allocated for a call that has not recorded its first one. *)
Underway == {call[f].cid : f \in {g \in Files : call[g].pc = "init" /\ head[g] = FREE}}

(* The table stays legal whatever call fails half-way, as free_cluster_at    *)
(* promises: a chain ends, runs through no free cluster, and shares none     *)
(* with another file; a cluster is lost only when the block of a new one     *)
(* could not be had.  The exception is a file whose last cluster could not   *)
(* be freed: its inode still knows the clusters that were.                   *)
ChainsLegal ==
  owner = None /\ "head" \notin failed =>
    /\ \A f \in Files : \A c \in ChainOf(f) : fat[c] # FREE
    /\ \A f \in Files : head[f] # FREE => \E c \in ChainOf(f) : fat[c] = LAST
    /\ \A f, g \in Files : f # g => ChainOf(f) \cap ChainOf(g) = {}
    /\ \A f \in Files : head[f] # FREE /\ call[f].pc \in {"idle", "alloc", "alloclock"} =>
         tail[f] \in ChainOf(f)
    /\ failed = {} => \A c \in Clusters :
         c < MaxCid /\ fat[c] # FREE => c \in Underway \cup UNION {ChainOf(f) : f \in Files}

(* The count of free clusters and the permits are exact, so a call gets      *)
(* ENOSPC only from a full table; alloc_cluster finds none and panics only   *)
(* when the clusters counted are the last two, which it does not look at;    *)
(* and the sync task never sleeps beside a dirty unit or a free place.       *)
TableExact ==
  /\ owner = None /\ "head" \notin failed =>
       cluster_free = Cardinality({c \in Clusters : fat[c] = FREE})
  /\ panicked => \A c \in Clusters : fat[c] = FREE => c >= MaxCid
  /\ permits + Cardinality(dirty)
       + FoldFunction(LAMBDA c, n : c.sems + n, 0, call) = MaxDirty
  /\ pending \subseteq dirty
  /\ sync.parked => IF sync.pc = "wait" THEN dirty = {} ELSE room = 0
  /\ room + writes + (IF infoWrite = "device" THEN 1 ELSE 0) = Concurrent
=============================================================================
