------------------------------- MODULE MCDisk -------------------------------
(***************************************************************************)
(* Instances of BlockCache, and the variables they share.                   *)
(***************************************************************************)
EXTENDS Naturals

CONSTANTS DiskTasks, NoCluster

VARIABLES
  which,
  b_search, b_saved, b_clean, b_dirty, b_pending, b_index, b_cell, b_aid, b_lock, b_permits,
  b_task, b_last, b_used, b_sync, b_room, b_flights, b_disk, b_val, b_ordered, b_failed,
  b_panicked, b_calls, b_frees

Two == 1 .. 2
Three == 1 .. 3
Four == 1 .. 4
Writes == {"write", "fast"}
AllKinds == {"read", "write", "fast", "init"}

(* Two clusters that are written while they are dirty, by fast calls too;    *)
(* and room for two clusters of three, of which one may be dirty, with a     *)
(* cluster that is freed and allocated again.                                *)
W == INSTANCE BlockCache WITH
  Tasks <- DiskTasks, Clusters <- Two, Files <- Two, Warm <- Two, Cells <- Two,
  MaxCache <- 3, MaxDirty <- 2, Concurrent <- 2, Kinds <- Writes,
  MaxCalls <- 3, MaxFrees <- 0, None <- NoCluster,
  search <- b_search, saved <- b_saved, clean <- b_clean, dirty <- b_dirty,
  pending <- b_pending, index <- b_index, cell <- b_cell, aid <- b_aid, lock <- b_lock,
  permits <- b_permits, task <- b_task, last <- b_last, used <- b_used, sync <- b_sync,
  room <- b_room, flights <- b_flights, disk <- b_disk, val <- b_val, ordered <- b_ordered,
  failed <- b_failed, panicked <- b_panicked, calls <- b_calls, frees <- b_frees

R == INSTANCE BlockCache WITH
  Tasks <- DiskTasks, Clusters <- Three, Files <- Two, Warm <- Two, Cells <- Four,
  MaxCache <- 2, MaxDirty <- 1, Concurrent <- 2, Kinds <- AllKinds,
  MaxCalls <- 2, MaxFrees <- 1, None <- NoCluster,
  search <- b_search, saved <- b_saved, clean <- b_clean, dirty <- b_dirty,
  pending <- b_pending, index <- b_index, cell <- b_cell, aid <- b_aid, lock <- b_lock,
  permits <- b_permits, task <- b_task, last <- b_last, used <- b_used, sync <- b_sync,
  room <- b_room, flights <- b_flights, disk <- b_disk, val <- b_val, ordered <- b_ordered,
  failed <- b_failed, panicked <- b_panicked, calls <- b_calls, frees <- b_frees

b_vars == <<b_search, b_saved, b_clean, b_dirty, b_pending, b_index, b_cell, b_aid, b_lock,
            b_permits, b_task, b_last, b_used, b_sync, b_room, b_flights, b_disk, b_val,
            b_ordered, b_failed, b_panicked, b_calls, b_frees>>

(* The variables of a part that is not exercised have no value of interest. *)
BOff == /\ b_search = 0 /\ b_saved = 0 /\ b_clean = 0 /\ b_dirty = 0 /\ b_pending = 0
        /\ b_index = 0 /\ b_cell = 0 /\ b_aid = 0 /\ b_lock = 0 /\ b_permits = 0
        /\ b_task = 0 /\ b_last = 0 /\ b_used = 0 /\ b_sync = 0 /\ b_room = 0
        /\ b_flights = 0 /\ b_disk = 0 /\ b_val = 0 /\ b_ordered = 0 /\ b_failed = 0
        /\ b_panicked = 0 /\ b_calls = 0 /\ b_frees = 0

DiskParts == {"rewrite", "reuse"}

DiskInit ==
  CASE which = "rewrite" -> W!Init [] which = "reuse" -> R!Init [] OTHER -> BOff

DiskNext ==
  \/ which = "rewrite" /\ W!Next
  \/ which = "reuse" /\ R!Next

-----------------------------------------------------------------------------
DiskTypeOK ==
  /\ which = "rewrite" => W!TypeOK
  /\ which = "reuse" => R!TypeOK

(* BlockCache: one block for a cluster, clean or dirty, with its permit, and *)
(* a task works on that one; without freed clusters and ENOBUFS no unwrap    *)
(* and no assertion of the manager fails.                                    *)
BlockCacheExact ==
  /\ which = "rewrite" => W!BlocksExact
  /\ which = "reuse" => R!BlocksExact

(* BlockCache: as long as the device serves the requests for a cluster in    *)
(* order, evictions, write-backs and failed fast calls lose no store, until  *)
(* a cluster is freed.                                                       *)
BlockCacheKept ==
  /\ which = "rewrite" => W!StoresKept
  /\ which = "reuse" /\ b_frees = 0 => R!StoresKept
=============================================================================
