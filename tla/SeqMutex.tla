------------------------------ MODULE SeqMutex ------------------------------
(***************************************************************************)
(* The sequence lock (ftl-util/src/sync/seq_mutex.rs), which guards the     *)
(* names of directory entries (vfs/src/hash_name.rs).  seq is odd while a   *)
(* writer is inside; a reader copies the data without a lock and repeats    *)
(* the copy when seq has changed.  The data are two words, copied and       *)
(* written one after the other; a writer stores its own sequence number.    *)
(***************************************************************************)
EXTENDS Naturals

CONSTANTS Harts, MaxSeq

VARIABLES
  seq,    \* AtomicUsize, far from its limit: writers stop at MaxSeq
  d1, d2, \* the two words of data
  my,     \* the local seq of a hart
  v1, v2, \* the words a reader has copied
  since,  \* ghost: the value the data had when the read began
  try,    \* the operation is try_read or try_write_lock
  pc

vars == <<seq, d1, d2, my, v1, v2, since, try, pc>>

TypeOK ==
  /\ seq \in Nat /\ d1 \in Nat /\ d2 \in Nat
  /\ my \in [Harts -> Nat] /\ v1 \in [Harts -> Nat] /\ v2 \in [Harts -> Nat]
  /\ since \in [Harts -> Nat] /\ try \in [Harts -> BOOLEAN]
  /\ pc \in [Harts -> {"idle", "rwait", "copy1", "copy2", "verify", "returned",
                       "wwait", "wcas", "write1", "write2", "unlock"}]

Init ==
  /\ seq = 0 /\ d1 = 0 /\ d2 = 0
  /\ my = [h \in Harts |-> 0] /\ v1 = [h \in Harts |-> 0] /\ v2 = [h \in Harts |-> 0]
  /\ since = [h \in Harts |-> 0] /\ try = [h \in Harts |-> FALSE]
  /\ pc = [h \in Harts |-> "idle"]

Goto(h, p) == pc' = [pc EXCEPT ![h] = p]

(* The operation is over and its locals are gone. *)
Return(h) ==
  /\ Goto(h, "idle")
  /\ my' = [my EXCEPT ![h] = 0] /\ try' = [try EXCEPT ![h] = FALSE]
  /\ v1' = [v1 EXCEPT ![h] = 0] /\ v2' = [v2 EXCEPT ![h] = 0]
  /\ since' = [since EXCEPT ![h] = 0]

Even(n) == n % 2 = 0

(* The sequence number of the last write that is complete. *)
Committed == IF Even(seq) THEN seq ELSE seq - 1

-----------------------------------------------------------------------------
(* read and try_read: the first load of seq. *)
StartRead(h) ==
  /\ pc[h] = "idle"
  /\ \E t \in BOOLEAN :
       /\ t => Even(seq)
       /\ try' = [try EXCEPT ![h] = t]
       /\ Goto(h, IF t THEN "copy1" ELSE "rwait")
  /\ my' = [my EXCEPT ![h] = seq] /\ since' = [since EXCEPT ![h] = Committed]
  /\ UNCHANGED <<seq, d1, d2, v1, v2>>

(* wait_unlock: loads until the number is even; a load of the number it     *)
(* already has changes nothing.                                             *)
wait_unlock(h) ==
  /\ pc[h] \in {"rwait", "wwait"}
  /\ IF Even(my[h])
       THEN Goto(h, IF pc[h] = "rwait" THEN "copy1" ELSE "wcas") /\ UNCHANGED my
       ELSE my[h] # seq /\ my' = [my EXCEPT ![h] = seq] /\ UNCHANGED pc
  /\ UNCHANGED <<seq, d1, d2, v1, v2, since, try>>

CopyFirst(h) ==
  /\ pc[h] = "copy1"
  /\ v1' = [v1 EXCEPT ![h] = d1] /\ Goto(h, "copy2")
  /\ UNCHANGED <<seq, d1, d2, my, v2, since, try>>

CopySecond(h) ==
  /\ pc[h] = "copy2"
  /\ v2' = [v2 EXCEPT ![h] = d2] /\ Goto(h, "verify")
  /\ UNCHANGED <<seq, d1, d2, my, v1, since, try>>

(* Mutation: any even number is accepted, also a later one. *)
Verify_even(h) ==
  /\ pc[h] = "verify"
  /\ \/ Even(seq) /\ Goto(h, "returned") /\ UNCHANGED <<my, v1, v2, since, try>>
     \/ ~Even(seq) /\ try[h] /\ Return(h)
     \/ /\ ~Even(seq) /\ ~try[h]
        /\ my' = [my EXCEPT ![h] = seq] /\ Goto(h, "rwait")
        /\ UNCHANGED <<v1, v2, since, try>>
  /\ UNCHANGED <<seq, d1, d2>>

(* The second load of seq: equal is success; else read starts again from    *)
(* the number it saw, and try_read gives None.                              *)
Verify(h) ==
  /\ pc[h] = "verify"
  /\ \/ my[h] = seq /\ Goto(h, "returned") /\ UNCHANGED <<my, v1, v2, since, try>>
     \/ my[h] # seq /\ try[h] /\ Return(h)
     \/ /\ my[h] # seq /\ ~try[h]
        /\ my' = [my EXCEPT ![h] = seq] /\ Goto(h, "rwait")
        /\ UNCHANGED <<v1, v2, since, try>>
  /\ UNCHANGED <<seq, d1, d2>>

(* The caller is done with what it read. *)
Finish(h) ==
  /\ pc[h] = "returned"
  /\ Return(h)
  /\ UNCHANGED <<seq, d1, d2>>

-----------------------------------------------------------------------------
(* write_lock and try_write_lock: the load. *)
StartWrite(h) ==
  /\ pc[h] = "idle" /\ seq < MaxSeq
  /\ \E t \in BOOLEAN :
       /\ t => Even(seq)
       /\ try' = [try EXCEPT ![h] = t]
       /\ Goto(h, IF t THEN "wcas" ELSE "wwait")
  /\ my' = [my EXCEPT ![h] = seq]
  /\ UNCHANGED <<seq, d1, d2, v1, v2, since>>

(* Mutation: a load and a store in place of the compare_exchange. *)
WriteCas_store(h) ==
  /\ pc[h] = "wcas"
  /\ seq' = my[h] + 1 /\ Goto(h, "write1") /\ UNCHANGED <<my, v1, v2, since, try>>
  /\ UNCHANGED <<d1, d2>>

(* compare_exchange(seq, seq + 1). *)
WriteCas(h) ==
  /\ pc[h] = "wcas"
  /\ \/ seq = my[h] /\ seq' = seq + 1 /\ Goto(h, "write1") /\ UNCHANGED <<my, v1, v2, since, try>>
     \/ seq # my[h] /\ try[h] /\ Return(h) /\ UNCHANGED seq
     \/ /\ seq # my[h] /\ ~try[h]
        /\ my' = [my EXCEPT ![h] = seq] /\ Goto(h, "wwait")
        /\ UNCHANGED <<seq, v1, v2, since, try>>
  /\ UNCHANGED <<d1, d2>>

(* The holder of the guard writes the data. *)
WriteFirst(h) ==
  /\ pc[h] = "write1"
  /\ d1' = seq + 1 /\ Goto(h, "write2")
  /\ UNCHANGED <<seq, d2, my, v1, v2, since, try>>

WriteSecond(h) ==
  /\ pc[h] = "write2"
  /\ d2' = seq + 1 /\ Goto(h, "unlock")
  /\ UNCHANGED <<seq, d1, my, v1, v2, since, try>>

(* Drop of the guard: seq is even again. *)
Unlock(h) ==
  /\ pc[h] = "unlock"
  /\ seq' = seq + 1 /\ Return(h)
  /\ UNCHANGED <<d1, d2>>

Step(h) ==
  \/ StartRead(h) \/ wait_unlock(h) \/ CopyFirst(h) \/ CopySecond(h) \/ Verify(h) \/ Finish(h)
  \/ StartWrite(h) \/ WriteCas(h) \/ WriteFirst(h) \/ WriteSecond(h) \/ Unlock(h)

Next == \E h \in Harts : Step(h)

Spec == Init /\ [][Next]_vars

-----------------------------------------------------------------------------
(* What read returns is one write's data, never a mixture of two, and it is *)
(* at least as new as the data were when the read began.                    *)
ReadAtomic ==
  \A h \in Harts : pc[h] = "returned" => v1[h] = v2[h] /\ v1[h] >= since[h]

(* One writer at a time is inside, and seq is odd exactly then.             *)
OneWriter ==
  /\ ~Even(seq) = (\E h \in Harts : pc[h] \in {"write1", "write2", "unlock"})
  /\ \A h, g \in Harts :
       pc[h] \in {"write1", "write2", "unlock"} /\ pc[g] \in {"write1", "write2", "unlock"} => h = g
=============================================================================
