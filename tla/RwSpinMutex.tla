---------------------------- MODULE RwSpinMutex -----------------------------
(***************************************************************************)
(* The reader-writer spin lock (ftl-util/src/sync/rw_spin_mutex.rs).  The   *)
(* word counts the readers and is taken down by IMax (isize::MAX) for the   *)
(* writer.  shared_lock adds itself blindly, also beside a writer, and then *)
(* waits for the word to become positive.  Each atomic access is a step.    *)
(***************************************************************************)
EXTENDS Integers, SpinSizes

VARIABLES
  word,   \* the word
  seen,   \* the local cur of try_shared_lock
  pc

vars == <<word, seen, pc>>

TypeOK ==
  /\ word \in Int /\ seen \in [Harts -> Int]
  /\ pc \in [Harts -> {"idle", "utry", "uspin", "ucas", "unique", "swait", "stry", "shared"}]

Init ==
  /\ word = 0 /\ seen = [h \in Harts |-> 0] /\ pc = [h \in Harts |-> "idle"]

Goto(h, p) == pc' = [pc EXCEPT ![h] = p]

-----------------------------------------------------------------------------
(* try_unique_lock: a load, None unless it shows 0. *)
try_unique_lock(h) ==
  /\ pc[h] = "idle" /\ word = 0
  /\ Goto(h, "utry") /\ UNCHANGED <<word, seen>>

(* unique_lock spins on loads that do not show 0. *)
unique_lock(h) ==
  /\ pc[h] = "idle"
  /\ Goto(h, "uspin") /\ UNCHANGED <<word, seen>>

UniqueSpin(h) ==
  /\ pc[h] = "uspin" /\ word = 0
  /\ Goto(h, "ucas") /\ UNCHANGED <<word, seen>>

(* The compare_exchange of either: after a failure the first returns None   *)
(* and the second spins again.                                              *)
UniqueCas(h) ==
  /\ pc[h] \in {"utry", "ucas"}
  /\ IF word = 0
       THEN word' = -IMax /\ Goto(h, "unique")
       ELSE Goto(h, IF pc[h] = "utry" THEN "idle" ELSE "uspin") /\ UNCHANGED word
  /\ UNCHANGED seen

(* shared_lock: fetch_add, whatever the word shows. *)
shared_lock(h) ==
  /\ pc[h] = "idle"
  /\ word' = word + 1
  /\ Goto(h, IF word >= 0 THEN "shared" ELSE "swait")
  /\ UNCHANGED seen

(* Mutation: the reader waits while the word is 0 only. *)
SharedSpin_nonzero(h) ==
  /\ pc[h] = "swait" /\ word # 0
  /\ Goto(h, "shared") /\ UNCHANGED <<word, seen>>

(* The reader's own addition shows once the writer is gone. *)
SharedSpin(h) ==
  /\ pc[h] = "swait" /\ word > 0
  /\ Goto(h, "shared") /\ UNCHANGED <<word, seen>>

(* try_shared_lock: a load, then compare_exchange until it succeeds or the  *)
(* word is negative.                                                        *)
try_shared_lock(h) ==
  /\ pc[h] = "idle" /\ word >= 0
  /\ seen' = [seen EXCEPT ![h] = word]
  /\ Goto(h, "stry") /\ UNCHANGED word

SharedCas(h) ==
  /\ pc[h] = "stry"
  /\ IF word = seen[h]
       THEN word' = word + 1 /\ Goto(h, "shared") /\ seen' = [seen EXCEPT ![h] = 0]
       ELSE /\ seen' = [seen EXCEPT ![h] = IF word >= 0 THEN word ELSE 0]
            /\ Goto(h, IF word >= 0 THEN "stry" ELSE "idle")
            /\ UNCHANGED word

(* Mutation: the writer stores 0, the variant left as a comment in the code. *)
DropUnique_store(h) ==
  /\ pc[h] = "unique"
  /\ word' = 0 /\ Goto(h, "idle") /\ UNCHANGED seen

(* Drop of the two guards. *)
DropShared(h) ==
  /\ pc[h] = "shared"
  /\ word' = word - 1 /\ Goto(h, "idle") /\ UNCHANGED seen

DropUnique(h) ==
  /\ pc[h] = "unique"
  /\ word' = word + IMax /\ Goto(h, "idle") /\ UNCHANGED seen

Step(h) ==
  \/ try_unique_lock(h) \/ unique_lock(h) \/ UniqueSpin(h) \/ UniqueCas(h)
  \/ shared_lock(h) \/ SharedSpin(h) \/ try_shared_lock(h) \/ SharedCas(h)
  \/ DropShared(h) \/ DropUnique(h)

Next == \E h \in Harts : Step(h)

(* A hart that spins keeps loading the word, and guards are dropped. *)
Fairness == \A h \in Harts :
  WF_vars(SharedSpin(h)) /\ WF_vars(DropShared(h)) /\ WF_vars(DropUnique(h))

Spec == Init /\ [][Next]_vars /\ Fairness

-----------------------------------------------------------------------------
Readers == {h \in Harts : pc[h] \in {"swait", "shared"}}
Writers == {h \in Harts : pc[h] = "unique"}

(* The writer's guard is exclusive; readers share among themselves.         *)
RwExclusion ==
  \A h, g \in Harts : pc[h] = "unique" /\ h # g => pc[g] \notin {"unique", "shared"}

(* The word is exactly the readers, waiting ones included, less IMax for    *)
(* the writer, so that the blind fetch_add of shared_lock is never lost and *)
(* both debug_asserts of the guards' Drop hold.                             *)
WordExact == word = Cardinality(Readers) - (IF Writers = {} THEN 0 ELSE IMax)

(* A reader that announced itself beside a writer is next: no second writer *)
(* comes in between.                                                        *)
ReaderNext == \A h \in Harts : pc[h] = "swait" ~> pc[h] = "shared"
=============================================================================
