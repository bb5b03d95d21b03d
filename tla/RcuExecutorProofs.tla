------------------------- MODULE RcuExecutorProofs -------------------------
(***************************************************************************)
(* Proofs about what surrounds a poll: RCU (Rcu), for every set of harts    *)
(* and of values, and the executor that polls (Executor).                   *)
(***************************************************************************)
EXTENDS Rcu, Integers, Sequences, FiniteSetTheorems, TLAPS

(* The hart that set its bit in the current half as a lock keeps it there. *)
LockHeld ==
  \A h \in Harts : pc[h] \in {"swap", "unlock"} => h \in flags.cur

(* References exist only while a task runs, and a hart with an open critical
   section has a bit in one of the two halves. *)
SectionsFlagged ==
  \A h \in Harts :
    /\ refs[h] # {} => pc[h] \in {"run", "push"}
    /\ pc[h] \in {"run", "push"} => h \in flags.cur \cup flags.pend
    /\ pc[h] = "idle" /\ critical[h] => h \in flags.cur \cup flags.pend
    /\ pc[h] \in Ending => ~critical[h]

(* Every reader of o is in the current half. *)
HeldInCurrent(o) == \A h \in Harts : o \in refs[h] => h \in flags.cur
Unheld(o)        == \A h \in Harts : o \notin refs[h]

(* What is known, at each point of critical_end, of the readers of the values
   that are on their way to their destructor. *)
GraceInv ==
  /\ \A o \in rcu_current \ late : HeldInCurrent(o)
  /\ \A o \in released \ late : Unheld(o)
  /\ \A g \in Harts :
       /\ pc[g] = "to_current" => \A o \in pending[g] \ late : HeldInCurrent(o)
       /\ pc[g] \in {"unlock", "free"} => \A o \in pending[g] \ late : Unheld(o)
       /\ pc[g] = "swap" =>
            /\ \A o \in rcu_current \ late : Unheld(o)
            /\ \A o \in rcu_pending \ late : HeldInCurrent(o)
            /\ \A o \in pending[g] \ late : HeldInCurrent(o)
            /\ \A k \in Harts : pc[k] = "to_current" =>
                 \A o \in pending[k] \ late : Unheld(o)

IInv == TypeOK /\ ReleaseExclusive /\ LockHeld /\ SectionsFlagged
          /\ ExactlyOnce /\ GraceInv

-----------------------------------------------------------------------------
(* The variables critical_end's exchange leaves alone. *)
CasFrame ==
  /\ rcu_current' = rcu_current /\ rcu_pending' = rcu_pending
  /\ pending' = pending /\ pending_rec' = pending_rec /\ critical' = critical
  /\ linked' = linked /\ refs' = refs
  /\ released' = released /\ late' = late

(* A successful exchange: bits of other harts are only moved from the pending
   to the current half, and only when no other hart is in the current half. *)
CasOk(h) ==
  /\ flags' \in Flags
  /\ pc[h] = "cas"
  /\ \E l \in {"to_pending", "to_current", "swap"} :
       /\ pc' = [pc EXCEPT ![h] = l]
       /\ l # "to_pending" => /\ flags.cur \subseteq {h}
                              /\ flags.pend \ {h} \subseteq flags'.cur
       /\ l = "swap" => h \in flags'.cur
  /\ flags.cur \ {h} \subseteq flags'.cur
  /\ (flags.cur \cup flags.pend) \ {h} \subseteq flags'.cur \cup flags'.pend
  /\ prev' = [prev EXCEPT ![h] = NoFlags]
  /\ need' = [need EXCEPT ![h] = FALSE]
  /\ CasFrame

(* A failed exchange only refreshes `prev`. *)
CasRetry(h) ==
  /\ flags' = flags
  /\ pc[h] = "cas"
  /\ pc' = [pc EXCEPT ![h] = "peek"]
  /\ prev' = [prev EXCEPT ![h] = flags]
  /\ need' = need
  /\ CasFrame

(* The exchange of critical_end (manager.rs:85-101) when it succeeds. *)
LEMMA CasSuccess ==
  ASSUME TypeOK, NEW h \in Harts, cas_flags(h), flags = prev[h]
  PROVE  CasOk(h)
<1>0. /\ pc[h] = "cas"
      /\ flags' = next_flags(h)
      /\ pc' = [pc EXCEPT ![h] = after_cas(h)]
      /\ prev' = [prev EXCEPT ![h] = NoFlags]
      /\ need' = [need EXCEPT ![h] = FALSE]
      /\ CasFrame
  BY Zenon DEF cas_flags, Goto, CasFrame, cpvars, localvars, taskvars
<1> USE DEF TypeOK, Flags
<1>1. CASE release(h)
  <2>1. flags.cur \subseteq {h}
    BY <1>1, Zenon DEF release
  <2>2. flags' = [cur |-> (flags.pend \ {h}) \cup (IF need[h] THEN {h} ELSE {}),
                  pend |-> {}]
    BY <1>0, <1>1, Zenon DEF next_flags
  <2>3. after_cas(h) = IF need[h] THEN "swap" ELSE "to_current"
    BY <1>1, Zenon DEF after_cas
  <2>4. CASE need[h]
    BY <1>0, <2>1, <2>2, <2>3, <2>4 DEF CasOk
  <2>5. CASE ~need[h]
    BY <1>0, <2>1, <2>2, <2>3, <2>5 DEF CasOk
  <2> QED
    BY <2>4, <2>5, Zenon
<1>2. CASE ~release(h)
  <2>1. flags' = [cur |-> flags.cur \ {h}, pend |-> flags.pend \ {h}]
    BY <1>0, <1>2, Zenon DEF next_flags
  <2>2. after_cas(h) = "to_pending"
    BY <1>2, Zenon DEF after_cas
  <2> QED
    BY <1>0, <2>1, <2>2 DEF CasOk
<1> QED
  BY <1>1, <1>2, Zenon

(* The exchange of critical_end when it fails. *)
LEMMA CasFailure ==
  ASSUME NEW h \in Harts, cas_flags(h), flags # prev[h]
  PROVE  CasRetry(h)
BY Zenon DEF cas_flags, Goto, CasRetry, CasFrame, cpvars, localvars, taskvars

(* Every action preserves the types. *)
LEMMA TypeStep ==
  TypeOK /\ [Next]_vars => TypeOK'
<1> SUFFICES ASSUME TypeOK, [Next]_vars PROVE TypeOK'
  BY Zenon
<1>1. CASE UNCHANGED vars
  BY <1>1, Zenon DEF vars, cpvars, localvars, taskvars, TypeOK
<1>2. ASSUME NEW h \in Harts, critical_start(h) PROVE TypeOK'
  BY <1>2, Zenon DEF critical_start, Goto, cpvars, taskvars, TypeOK, PCs
<1>3. ASSUME NEW h \in Harts, critical_start_or(h) PROVE TypeOK'
  BY <1>3, Zenon DEF critical_start_or, Goto, cpvars, localvars, taskvars, TypeOK, Flags,
        PCs
<1>4. ASSUME NEW h \in Harts, push_end(h) PROVE TypeOK'
  BY <1>4, Zenon DEF push_end, Goto, cpvars, localvars, taskvars, TypeOK, PCs
<1>5. ASSUME NEW h \in Harts, critical_end_tick_open(h) PROVE TypeOK'
  BY <1>5, Zenon DEF critical_end_tick_open, Goto, cpvars, localvars, taskvars, TypeOK, PCs
<1>6. ASSUME NEW h \in Harts, critical_end(h) PROVE TypeOK'
  BY <1>6, Zenon DEF critical_end, Goto, cpvars, taskvars, TypeOK, PCs, Ending
<1>7. ASSUME NEW h \in Harts, load_flags(h) PROVE TypeOK'
  BY <1>7, Zenon DEF load_flags, Goto, cpvars, localvars, taskvars, TypeOK, PCs, Ending
<1>8. ASSUME NEW h \in Harts, read_need_release(h) PROVE TypeOK'
  BY <1>8, Zenon DEF read_need_release, Goto, cpvars, localvars, taskvars, TypeOK, PCs,
        Ending
<1>9. ASSUME NEW h \in Harts, cas_flags(h) PROVE TypeOK'
  <2>1. CASE flags = prev[h]
    <3>1. CasOk(h)
      BY <1>9, <2>1, CasSuccess, Zenon
    <3> QED
      BY <3>1 DEF CasOk, CasFrame, TypeOK, Flags, NoFlags, PCs, Ending
  <2>2. CASE flags # prev[h]
    <3>1. CasRetry(h)
      BY <1>9, <2>2, CasFailure, Zenon
    <3> QED
      BY <3>1, Zenon DEF CasRetry, CasFrame, TypeOK, PCs, Ending
  <2> QED
    BY <2>1, <2>2, Zenon
<1>10. ASSUME NEW h \in Harts, append_pending(h) PROVE TypeOK'
  BY <1>10, Zenon DEF append_pending, Goto, cpvars, taskvars, TypeOK, Flags, NoFlags, PCs
<1>11. ASSUME NEW h \in Harts, append_current(h) PROVE TypeOK'
  BY <1>11, Zenon DEF append_current, Goto, cpvars, taskvars, TypeOK, PCs
<1>12. ASSUME NEW h \in Harts, swap_queues(h) PROVE TypeOK'
  BY <1>12, Zenon DEF swap_queues, Goto, cpvars, taskvars, TypeOK, PCs, Ending
<1>13. ASSUME NEW h \in Harts, unlock_flags(h) PROVE TypeOK'
  BY <1>13, Zenon DEF unlock_flags, Goto, cpvars, localvars, taskvars, TypeOK, Flags, PCs,
        Ending
<1>14. ASSUME NEW h \in Harts, release_one(h) PROVE TypeOK'
  BY <1>14 DEF release_one, cpvars, taskvars, TypeOK
<1>15. ASSUME NEW h \in Harts, release_done(h) PROVE TypeOK'
  BY <1>15, Zenon DEF release_done, Goto, cpvars, localvars, taskvars, TypeOK, PCs
<1>16. ASSUME NEW h \in Harts, NEW o \in Objs, rcu_read(h, o) PROVE TypeOK'
  BY <1>16, Zenon DEF rcu_read, rec, cpvars, localvars, taskvars, TypeOK
<1>17. ASSUME NEW h \in Harts, NEW o \in Objs, rcu_drop(h, o) PROVE TypeOK'
  BY <1>17, Zenon DEF rcu_drop, Goto, rec, cpvars, taskvars, TypeOK, PCs
<1>18. ASSUME NEW h \in Harts, NEW o \in Objs, special_push_rec(h, o) PROVE TypeOK'
  BY <1>18, Zenon DEF special_push_rec, rec, cpvars, taskvars, TypeOK
<1> QED
  BY <1>1, <1>2, <1>3, <1>4, <1>5, <1>6, <1>7, <1>8, <1>9, <1>10, <1>11, <1>12, <1>13, <1>14, <1>15, <1>16, <1>17, <1>18, Zenon DEF Next

(* The lock bit excludes a second release. *)
LEMMA LockStep ==
  TypeOK /\ LockHeld /\ ReleaseExclusive /\ [Next]_vars => (LockHeld /\ ReleaseExclusive)'
<1> SUFFICES ASSUME TypeOK, LockHeld, ReleaseExclusive, [Next]_vars PROVE (LockHeld /\ ReleaseExclusive)'
  BY Zenon
<1>1. CASE UNCHANGED vars
  BY <1>1, Zenon DEF vars, cpvars, taskvars, LockHeld, ReleaseExclusive
<1>2. ASSUME NEW h \in Harts, critical_start(h) PROVE (LockHeld /\ ReleaseExclusive)'
  BY <1>2 DEF critical_start, Goto, cpvars, taskvars, LockHeld, ReleaseExclusive
<1>3. ASSUME NEW h \in Harts, critical_start_or(h) PROVE (LockHeld /\ ReleaseExclusive)'
  BY <1>3 DEF critical_start_or, Goto, cpvars, taskvars, LockHeld, ReleaseExclusive
<1>4. ASSUME NEW h \in Harts, push_end(h) PROVE (LockHeld /\ ReleaseExclusive)'
  BY <1>4 DEF push_end, Goto, cpvars, taskvars, LockHeld, ReleaseExclusive
<1>5. ASSUME NEW h \in Harts, critical_end_tick_open(h) PROVE (LockHeld /\ ReleaseExclusive)'
  BY <1>5 DEF critical_end_tick_open, Goto, cpvars, taskvars, LockHeld,
        ReleaseExclusive
<1>6. ASSUME NEW h \in Harts, critical_end(h) PROVE (LockHeld /\ ReleaseExclusive)'
  BY <1>6 DEF critical_end, Goto, cpvars, taskvars, LockHeld, ReleaseExclusive
<1>7. ASSUME NEW h \in Harts, load_flags(h) PROVE (LockHeld /\ ReleaseExclusive)'
  BY <1>7 DEF load_flags, Goto, cpvars, taskvars, LockHeld, ReleaseExclusive
<1>8. ASSUME NEW h \in Harts, read_need_release(h) PROVE (LockHeld /\ ReleaseExclusive)'
  BY <1>8 DEF read_need_release, Goto, cpvars, taskvars, LockHeld, ReleaseExclusive
<1>9. ASSUME NEW h \in Harts, cas_flags(h) PROVE (LockHeld /\ ReleaseExclusive)'
  <2>1. CASE flags = prev[h]
    <3>1. CasOk(h)
      BY <1>9, <2>1, CasSuccess, Zenon
    <3> QED
      BY <3>1 DEF CasOk, CasFrame, LockHeld, ReleaseExclusive
  <2>2. CASE flags # prev[h]
    <3>1. CasRetry(h)
      BY <1>9, <2>2, CasFailure, Zenon
    <3> QED
      BY <3>1 DEF CasRetry, CasFrame, LockHeld, ReleaseExclusive
  <2> QED
    BY <2>1, <2>2, Zenon
<1>10. ASSUME NEW h \in Harts, append_pending(h) PROVE (LockHeld /\ ReleaseExclusive)'
  BY <1>10 DEF append_pending, Goto, cpvars, taskvars, LockHeld, ReleaseExclusive
<1>11. ASSUME NEW h \in Harts, append_current(h) PROVE (LockHeld /\ ReleaseExclusive)'
  BY <1>11 DEF append_current, Goto, cpvars, taskvars, LockHeld, ReleaseExclusive
<1>12. ASSUME NEW h \in Harts, swap_queues(h) PROVE (LockHeld /\ ReleaseExclusive)'
  BY <1>12 DEF swap_queues, Goto, cpvars, taskvars, LockHeld, ReleaseExclusive
<1>13. ASSUME NEW h \in Harts, unlock_flags(h) PROVE (LockHeld /\ ReleaseExclusive)'
  BY <1>13, Zenon DEF unlock_flags, Goto, cpvars, taskvars, TypeOK, LockHeld,
        ReleaseExclusive
<1>14. ASSUME NEW h \in Harts, release_one(h) PROVE (LockHeld /\ ReleaseExclusive)'
  BY <1>14, Zenon DEF release_one, cpvars, taskvars, LockHeld, ReleaseExclusive
<1>15. ASSUME NEW h \in Harts, release_done(h) PROVE (LockHeld /\ ReleaseExclusive)'
  BY <1>15 DEF release_done, Goto, cpvars, taskvars, LockHeld, ReleaseExclusive
<1>16. ASSUME NEW h \in Harts, NEW o \in Objs, rcu_read(h, o) PROVE (LockHeld /\ ReleaseExclusive)'
  BY <1>16, Zenon DEF rcu_read, rec, cpvars, taskvars, LockHeld, ReleaseExclusive
<1>17. ASSUME NEW h \in Harts, NEW o \in Objs, rcu_drop(h, o) PROVE (LockHeld /\ ReleaseExclusive)'
  BY <1>17 DEF rcu_drop, Goto, rec, cpvars, taskvars, LockHeld, ReleaseExclusive
<1>18. ASSUME NEW h \in Harts, NEW o \in Objs, special_push_rec(h, o) PROVE (LockHeld /\ ReleaseExclusive)'
  BY <1>18, Zenon DEF special_push_rec, rec, cpvars, taskvars, LockHeld, ReleaseExclusive
<1> QED
  BY <1>1, <1>2, <1>3, <1>4, <1>5, <1>6, <1>7, <1>8, <1>9, <1>10, <1>11, <1>12, <1>13, <1>14, <1>15, <1>16, <1>17, <1>18, Zenon DEF Next

(* Open sections stay flagged. *)
LEMMA SectionStep ==
  TypeOK /\ SectionsFlagged /\ [Next]_vars => SectionsFlagged'
<1> SUFFICES ASSUME TypeOK, SectionsFlagged, [Next]_vars PROVE SectionsFlagged'
  BY Zenon
<1>1. CASE UNCHANGED vars
  BY <1>1, Zenon DEF vars, cpvars, localvars, taskvars, SectionsFlagged
<1>2. ASSUME NEW h \in Harts, critical_start(h) PROVE SectionsFlagged'
  BY <1>2 DEF critical_start, Goto, cpvars, taskvars, TypeOK, SectionsFlagged,
        Ending
<1>3. ASSUME NEW h \in Harts, critical_start_or(h) PROVE SectionsFlagged'
  BY <1>3 DEF critical_start_or, Goto, cpvars, localvars, taskvars, SectionsFlagged,
        Ending
<1>4. ASSUME NEW h \in Harts, push_end(h) PROVE SectionsFlagged'
  BY <1>4 DEF push_end, Goto, cpvars, localvars, taskvars, SectionsFlagged, Ending
<1>5. ASSUME NEW h \in Harts, critical_end_tick_open(h) PROVE SectionsFlagged'
  BY <1>5, Zenon DEF critical_end_tick_open, Goto, cpvars, localvars, taskvars, TypeOK,
        SectionsFlagged, Ending
<1>6. ASSUME NEW h \in Harts, critical_end(h) PROVE SectionsFlagged'
  BY <1>6, Zenon DEF critical_end, Goto, cpvars, taskvars, TypeOK, SectionsFlagged
<1>7. ASSUME NEW h \in Harts, load_flags(h) PROVE SectionsFlagged'
  BY <1>7 DEF load_flags, Goto, cpvars, localvars, taskvars, SectionsFlagged, Ending
<1>8. ASSUME NEW h \in Harts, read_need_release(h) PROVE SectionsFlagged'
  BY <1>8 DEF read_need_release, Goto, cpvars, localvars, taskvars, SectionsFlagged,
        Ending
<1>9. ASSUME NEW h \in Harts, cas_flags(h) PROVE SectionsFlagged'
  <2>1. CASE flags = prev[h]
    <3>1. CasOk(h)
      BY <1>9, <2>1, CasSuccess, Zenon
    <3> QED
      BY <3>1 DEF CasOk, CasFrame, SectionsFlagged, Ending
  <2>2. CASE flags # prev[h]
    <3>1. CasRetry(h)
      BY <1>9, <2>2, CasFailure, Zenon
    <3> QED
      BY <3>1 DEF CasRetry, CasFrame, SectionsFlagged, Ending
  <2> QED
    BY <2>1, <2>2, Zenon
<1>10. ASSUME NEW h \in Harts, append_pending(h) PROVE SectionsFlagged'
  BY <1>10 DEF append_pending, Goto, cpvars, taskvars, SectionsFlagged, Ending
<1>11. ASSUME NEW h \in Harts, append_current(h) PROVE SectionsFlagged'
  BY <1>11 DEF append_current, Goto, cpvars, taskvars, SectionsFlagged, Ending
<1>12. ASSUME NEW h \in Harts, swap_queues(h) PROVE SectionsFlagged'
  BY <1>12 DEF swap_queues, Goto, cpvars, taskvars, SectionsFlagged, Ending
<1>13. ASSUME NEW h \in Harts, unlock_flags(h) PROVE SectionsFlagged'
  BY <1>13 DEF unlock_flags, Goto, cpvars, localvars, taskvars, SectionsFlagged,
        Ending
<1>14. ASSUME NEW h \in Harts, release_one(h) PROVE SectionsFlagged'
  BY <1>14, Zenon DEF release_one, cpvars, taskvars, SectionsFlagged
<1>15. ASSUME NEW h \in Harts, release_done(h) PROVE SectionsFlagged'
  BY <1>15 DEF release_done, Goto, cpvars, localvars, taskvars, SectionsFlagged,
        Ending
<1>16. ASSUME NEW h \in Harts, NEW o \in Objs, rcu_read(h, o) PROVE SectionsFlagged'
  BY <1>16 DEF rcu_read, rec, cpvars, localvars, taskvars, SectionsFlagged
<1>17. ASSUME NEW h \in Harts, NEW o \in Objs, rcu_drop(h, o) PROVE SectionsFlagged'
  BY <1>17 DEF rcu_drop, Goto, rec, cpvars, taskvars, SectionsFlagged, Ending
<1>18. ASSUME NEW h \in Harts, NEW o \in Objs, special_push_rec(h, o) PROVE SectionsFlagged'
  BY <1>18, Zenon DEF special_push_rec, rec, cpvars, taskvars, SectionsFlagged
<1> QED
  BY <1>1, <1>2, <1>3, <1>4, <1>5, <1>6, <1>7, <1>8, <1>9, <1>10, <1>11, <1>12, <1>13, <1>14, <1>15, <1>16, <1>17, <1>18, Zenon DEF Next

(* Every action moves values between queues without loss. *)
LEMMA OnceStep ==
  TypeOK /\ ExactlyOnce /\ [Next]_vars => ExactlyOnce'
<1> SUFFICES ASSUME TypeOK, ExactlyOnce, [Next]_vars PROVE ExactlyOnce'
  BY Zenon
<1>1. CASE UNCHANGED vars
  BY <1>1, Zenon DEF vars, cpvars, localvars, taskvars, ExactlyOnce, Local
<1>2. ASSUME NEW h \in Harts, critical_start(h) PROVE ExactlyOnce'
  BY <1>2, Zenon DEF critical_start, cpvars, taskvars, ExactlyOnce, Local
<1>3. ASSUME NEW h \in Harts, critical_start_or(h) PROVE ExactlyOnce'
  BY <1>3, Zenon DEF critical_start_or, cpvars, localvars, taskvars, ExactlyOnce, Local
<1>4. ASSUME NEW h \in Harts, push_end(h) PROVE ExactlyOnce'
  BY <1>4, Zenon DEF push_end, cpvars, localvars, taskvars, ExactlyOnce, Local
<1>5. ASSUME NEW h \in Harts, critical_end_tick_open(h) PROVE ExactlyOnce'
  BY <1>5, Zenon DEF critical_end_tick_open, cpvars, localvars, taskvars, ExactlyOnce,
        Local
<1>6. ASSUME NEW h \in Harts, critical_end(h) PROVE ExactlyOnce'
  BY <1>6 DEF critical_end, Goto, cpvars, taskvars, TypeOK, ExactlyOnce, Local
<1>7. ASSUME NEW h \in Harts, load_flags(h) PROVE ExactlyOnce'
  BY <1>7, Zenon DEF load_flags, cpvars, localvars, taskvars, ExactlyOnce, Local
<1>8. ASSUME NEW h \in Harts, read_need_release(h) PROVE ExactlyOnce'
  BY <1>8, Zenon DEF read_need_release, cpvars, localvars, taskvars, ExactlyOnce, Local
<1>9. ASSUME NEW h \in Harts, cas_flags(h) PROVE ExactlyOnce'
  <2>1. CASE flags = prev[h]
    <3>1. CasOk(h)
      BY <1>9, <2>1, CasSuccess, Zenon
    <3> QED
      BY <3>1, Zenon DEF CasOk, CasFrame, ExactlyOnce, Local
  <2>2. CASE flags # prev[h]
    <3>1. CasRetry(h)
      BY <1>9, <2>2, CasFailure, Zenon
    <3> QED
      BY <3>1, Zenon DEF CasRetry, CasFrame, ExactlyOnce, Local
  <2> QED
    BY <2>1, <2>2, Zenon
<1>10. ASSUME NEW h \in Harts, append_pending(h) PROVE ExactlyOnce'
  BY <1>10 DEF append_pending, Goto, cpvars, taskvars, TypeOK, ExactlyOnce, Local
<1>11. ASSUME NEW h \in Harts, append_current(h) PROVE ExactlyOnce'
  BY <1>11 DEF append_current, Goto, cpvars, taskvars, TypeOK, ExactlyOnce, Local
<1>12. ASSUME NEW h \in Harts, swap_queues(h) PROVE ExactlyOnce'
  BY <1>12 DEF swap_queues, Goto, cpvars, taskvars, TypeOK, ExactlyOnce, Local
<1>13. ASSUME NEW h \in Harts, unlock_flags(h) PROVE ExactlyOnce'
  BY <1>13, Zenon DEF unlock_flags, cpvars, localvars, taskvars, ExactlyOnce, Local
<1>14. ASSUME NEW h \in Harts, release_one(h) PROVE ExactlyOnce'
  BY <1>14 DEF release_one, cpvars, taskvars, TypeOK, ExactlyOnce, Local
<1>15. ASSUME NEW h \in Harts, release_done(h) PROVE ExactlyOnce'
  BY <1>15, Zenon DEF release_done, cpvars, localvars, taskvars, ExactlyOnce, Local
<1>16. ASSUME NEW h \in Harts, NEW o \in Objs, rcu_read(h, o) PROVE ExactlyOnce'
  BY <1>16, Zenon DEF rcu_read, rec, cpvars, localvars, taskvars, ExactlyOnce, Local
<1>17. ASSUME NEW h \in Harts, NEW o \in Objs, rcu_drop(h, o) PROVE ExactlyOnce'
  BY <1>17 DEF rcu_drop, Goto, rec, cpvars, taskvars, TypeOK, ExactlyOnce, Local
<1>18. ASSUME NEW h \in Harts, NEW o \in Objs, special_push_rec(h, o) PROVE ExactlyOnce'
  BY <1>18 DEF special_push_rec, rec, cpvars, taskvars, TypeOK, ExactlyOnce, Local
<1> QED
  BY <1>1, <1>2, <1>3, <1>4, <1>5, <1>6, <1>7, <1>8, <1>9, <1>10, <1>11, <1>12, <1>13, <1>14, <1>15, <1>16, <1>17, <1>18, Zenon DEF Next

(* Every action preserves what is known of the readers of queued values. *)
LEMMA GraceStep ==
  IInv /\ [Next]_vars => GraceInv'
<1> SUFFICES ASSUME IInv, [Next]_vars PROVE GraceInv'
  BY Zenon
<1>1. CASE UNCHANGED vars
  BY <1>1 DEF vars, cpvars, localvars, taskvars, IInv, TypeOK, LockHeld, GraceInv,
        HeldInCurrent, Unheld
<1>2. ASSUME NEW h \in Harts, critical_start(h) PROVE GraceInv'
  BY <1>2 DEF critical_start, Goto, cpvars, taskvars, IInv, TypeOK, LockHeld,
        GraceInv, HeldInCurrent, Unheld
<1>3. ASSUME NEW h \in Harts, critical_start_or(h) PROVE GraceInv'
  BY <1>3 DEF critical_start_or, Goto, cpvars, localvars, taskvars, IInv, GraceInv,
        HeldInCurrent, Unheld
<1>4. ASSUME NEW h \in Harts, push_end(h) PROVE GraceInv'
  BY <1>4 DEF push_end, Goto, cpvars, localvars, taskvars, IInv, TypeOK, LockHeld,
        GraceInv, HeldInCurrent, Unheld
<1>5. ASSUME NEW h \in Harts, critical_end_tick_open(h) PROVE GraceInv'
  BY <1>5 DEF critical_end_tick_open, Goto, cpvars, localvars, taskvars, IInv,
        TypeOK, LockHeld, GraceInv, HeldInCurrent, Unheld
<1>6. ASSUME NEW h \in Harts, critical_end(h) PROVE GraceInv'
  BY <1>6 DEF critical_end, Goto, cpvars, taskvars, IInv, TypeOK, LockHeld, GraceInv,
        HeldInCurrent, Unheld
<1>7. ASSUME NEW h \in Harts, load_flags(h) PROVE GraceInv'
  BY <1>7 DEF load_flags, Goto, cpvars, localvars, taskvars, IInv, TypeOK, LockHeld,
        GraceInv, HeldInCurrent, Unheld
<1>8. ASSUME NEW h \in Harts, read_need_release(h) PROVE GraceInv'
  BY <1>8 DEF read_need_release, Goto, cpvars, localvars, taskvars, IInv, TypeOK,
        LockHeld, GraceInv, HeldInCurrent, Unheld
<1>9. ASSUME NEW h \in Harts, cas_flags(h) PROVE GraceInv'
  <2>1. CASE flags = prev[h]
    <3>0. TypeOK /\ SectionsFlagged /\ GraceInv /\ LockHeld
      BY Zenon DEF IInv
    <3>1. CasOk(h)
      BY <1>9, <2>1, <3>0, CasSuccess, Zenon
    <3>2. PICK l \in {"to_pending", "to_current", "swap"} :
            /\ pc' = [pc EXCEPT ![h] = l]
            /\ l # "to_pending" => /\ flags.cur \subseteq {h}
                                   /\ flags.pend \ {h} \subseteq flags'.cur
            /\ l = "swap" => h \in flags'.cur
      BY <3>1, Zenon DEF CasOk
    <3>3. /\ refs[h] = {} /\ refs' = refs
          /\ \A o \in Objs : HeldInCurrent(o) => HeldInCurrent(o)'
      BY <3>0, <3>1, Zenon DEF CasOk, CasFrame, SectionsFlagged, HeldInCurrent
    <3>4. CASE l = "to_pending"
      BY <3>0, <3>1, <3>2, <3>3, <3>4
         DEF CasOk, CasFrame, TypeOK, GraceInv, Unheld
    <3>5. CASE l # "to_pending"
      <4>1. \A o \in Objs : HeldInCurrent(o) => Unheld(o)
        BY <3>2, <3>3, <3>5, Zenon DEF HeldInCurrent, Unheld
      <4>2. \A o \in Objs : HeldInCurrent(o)'
        BY <3>0, <3>2, <3>3, <3>5, Zenon DEF HeldInCurrent, SectionsFlagged
      <4> QED
        BY <3>0, <3>1, <3>2, <3>3, <3>5, <4>1, <4>2
           DEF CasOk, CasFrame, TypeOK, GraceInv, Unheld, LockHeld
    <3> QED
      BY <3>4, <3>5, Zenon
  <2>2. CASE flags # prev[h]
    <3>1. CasRetry(h)
      BY <1>9, <2>2, CasFailure, Zenon
    <3> QED
      BY <3>1 DEF CasRetry, CasFrame, IInv, TypeOK, LockHeld, GraceInv, HeldInCurrent,
        Unheld
  <2> QED
    BY <2>1, <2>2, Zenon
<1>10. ASSUME NEW h \in Harts, append_pending(h) PROVE GraceInv'
  BY <1>10 DEF append_pending, Goto, cpvars, taskvars, IInv, TypeOK, PCs, Ending,
        LockHeld, ReleaseExclusive, GraceInv, HeldInCurrent, Unheld
<1>11. ASSUME NEW h \in Harts, append_current(h) PROVE GraceInv'
  BY <1>11 DEF append_current, Goto, cpvars, taskvars, IInv, TypeOK, LockHeld,
        ReleaseExclusive, GraceInv, HeldInCurrent, Unheld
<1>12. ASSUME NEW h \in Harts, swap_queues(h) PROVE GraceInv'
  BY <1>12 DEF swap_queues, Goto, cpvars, taskvars, IInv, TypeOK, Flags,
        ReleaseExclusive, GraceInv, HeldInCurrent, Unheld
<1>13. ASSUME NEW h \in Harts, unlock_flags(h) PROVE GraceInv'
  <2>1. /\ flags'.cur = flags.cur \ {h} /\ pc[h] = "unlock" /\ pc' = [pc EXCEPT ![h] = "free"]
        /\ UNCHANGED <<rcu_current, rcu_pending, pending, refs, released, late>>
    BY <1>13 DEF unlock_flags, Goto, cpvars, localvars, taskvars
  <2>2. refs[h] = {} BY <2>1, Zenon DEF IInv, SectionsFlagged, Ending
  <2>3. \A o \in Objs : HeldInCurrent(o) => HeldInCurrent(o)'
    BY <2>1, <2>2, Zenon DEF HeldInCurrent
  <2>4. \A o \in Objs : Unheld(o) => Unheld(o)' BY <2>1, Zenon DEF Unheld
  <2>5. \A g \in Harts : pc[g] # "swap" BY <2>1, Zenon DEF IInv, ReleaseExclusive
  <2> QED BY <2>1, <2>3, <2>4, <2>5, Zenon DEF IInv, TypeOK, GraceInv
<1>14. ASSUME NEW h \in Harts, release_one(h) PROVE GraceInv'
  BY <1>14 DEF release_one, cpvars, taskvars, IInv, TypeOK, LockHeld, GraceInv,
        HeldInCurrent, Unheld
<1>15. ASSUME NEW h \in Harts, release_done(h) PROVE GraceInv'
  BY <1>15 DEF release_done, Goto, cpvars, localvars, taskvars, IInv, TypeOK,
        LockHeld, GraceInv, HeldInCurrent, Unheld
<1>16. ASSUME NEW h \in Harts, NEW o \in Objs, rcu_read(h, o) PROVE GraceInv'
  BY <1>16 DEF rcu_read, rec, cpvars, localvars, taskvars, IInv, TypeOK, Flags,
        LockHeld, ReleaseExclusive, ExactlyOnce, Local, GraceInv,
        HeldInCurrent, Unheld
<1>17. ASSUME NEW h \in Harts, NEW o \in Objs, rcu_drop(h, o) PROVE GraceInv'
  BY <1>17 DEF rcu_drop, Goto, rec, cpvars, taskvars, IInv, TypeOK, Flags, LockHeld,
        ReleaseExclusive, GraceInv, HeldInCurrent, Unheld
<1>18. ASSUME NEW h \in Harts, NEW o \in Objs, special_push_rec(h, o) PROVE GraceInv'
  BY <1>18 DEF special_push_rec, rec, cpvars, taskvars, IInv, TypeOK, Ending,
        LockHeld, ReleaseExclusive, GraceInv, HeldInCurrent, Unheld
<1> QED
  BY <1>1, <1>2, <1>3, <1>4, <1>5, <1>6, <1>7, <1>8, <1>9, <1>10, <1>11, <1>12, <1>13, <1>14, <1>15, <1>16, <1>17, <1>18, Zenon DEF Next

(* The initial state satisfies the invariant. *)
LEMMA InitIInv == Init => IInv
BY DEF Init, IInv, TypeOK, Flags, NoFlags, PCs, Ending, LockHeld,
        ReleaseExclusive, SectionsFlagged, ExactlyOnce, Local, GraceInv,
        Unheld

(* The invariant is inductive. *)
LEMMA NextIInv == IInv /\ [Next]_vars => IInv'
BY TypeStep, LockStep, SectionStep, OnceStep, GraceStep, Zenon DEF IInv

(* IInv holds in every reachable state. *)
LEMMA Invariance == Spec => []IInv
BY InitIInv, NextIInv, PTL DEF Spec

(* For any number of harts and values the variables keep their types. *)
THEOREM TypeCorrect == Spec => []TypeOK
<1>1. IInv => TypeOK
  BY Zenon DEF IInv
<1> QED
  BY <1>1, Invariance, PTL

(* For any number of harts at most one of them is inside the release of
   critical_end (manager.rs:116-124): the bit it adds to the current half keeps
   every other exchange from taking the release branch. *)
THEOREM ReleaseIsExclusive == Spec => []ReleaseExclusive
<1>1. IInv => ReleaseExclusive
  BY Zenon DEF IInv
<1> QED
  BY <1>1, Invariance, PTL

(* For any number of harts no value handed to RCU is lost, and none reaches its
   destructor twice. *)
THEOREM NoLeakNoDoubleRelease == Spec => []ExactlyOnce
<1>1. IInv => ExactlyOnce
  BY Zenon DEF IInv
<1> QED
  BY <1>1, Invariance, PTL

(* For any number of harts a value that was not queued during the set-up of a
   release cycle outlives every critical section that can hold it. *)
THEOREM GracePeriodHolds == Spec => []GracePeriod
<1>1. IInv => GracePeriod
  BY Zenon DEF IInv, GraceInv, GracePeriod, Unheld
<1> QED
  BY <1>1, Invariance, PTL

(* All of it together, for any number of harts and values: what the rcu run
   checks for three harts and two values. *)
THEOREM RcuIsSafe == Spec => []RcuSafe
BY ReleaseIsExclusive, NoLeakNoDoubleRelease, GracePeriodHolds, PTL DEF RcuSafe

(***************************************************************************)
(* The executor (Executor), for every finite set of harts and every set of  *)
(* tasks: SLEEP_COUNT is the number of raised sleep flags, up to the harts  *)
(* between the two writes, and a task that is not idle is in exactly one    *)
(* place.  The argument: a flag is raised only by its owner on the way to   *)
(* sleep and whoever takes it down owes one decrement; the queue holds a    *)
(* task once and only a scheduled one, a hart holds a task exactly while it *)
(* polls it, and no two hold the same.                                      *)
(***************************************************************************)
CONSTANTS Tasks, NoTask

VARIABLES queue, moved, task, pushing, cur, spun, sleep, count, todo, place  \* the variables of Executor; place is its pc

EX == INSTANCE Executor WITH pc <- place

(* The harts are finitely many, and "no task" is none. *)
ExecConstants == IsFiniteSet(Harts) /\ NoTask \notin Tasks

Places == {"fetch", "test", "pop", "run", "idle", "enter", "dec"} \cup EX!Sleeping \cup EX!Waking
Holding == {"run"} \cup EX!Waking
Settling == {"count", "dec", "wdec"}

(* A flag is raised by a hart on its way to sleep, and nobody wakes itself. *)
FlagInv ==
  \A h \in Harts : (sleep[h] => place[h] \in EX!Sleeping) /\ h \notin todo[h]

Has(q, t) == \E i \in 1..Len(q) : q[i] = t
Single(q) == \A i, j \in 1..Len(q) : q[i] = q[j] => i = j
Polled(t) == \E h \in Harts : cur[h] = t

(* The queue holds a task once.  A task is where its state says. *)
TaskInv ==
  /\ Single(queue)
  /\ \A t \in Tasks :
       /\ task[t] = "idle" => t \notin pushing /\ ~Has(queue, t) /\ ~Polled(t)
       /\ task[t] = "scheduled" => (t \in pushing <=> ~Has(queue, t)) /\ ~Polled(t)
       /\ task[t] \in {"running", "rerun"} => t \notin pushing /\ ~Has(queue, t) /\ Polled(t)

(* A hart has a task exactly while it polls one, and has it alone. *)
CurInv ==
  /\ \A h \in Harts : cur[h] \in Tasks <=> place[h] \in Holding
  /\ \A h, g \in Harts : (cur[h] = cur[g] /\ cur[h] \in Tasks) => h = g

ExecInv == EX!TypeOK /\ FlagInv /\ EX!SleepCountExact /\ TaskInv /\ CurInv

-----------------------------------------------------------------------------
(* The places of a hart. *)
LEMMA PlaceFacts ==
  /\ \A l \in {"fetch", "test", "pop", "idle", "enter"} : l \in Places /\ l \notin Holding /\ l \notin Settling /\ l \notin EX!Sleeping
  /\ \A l \in {"run", "scan", "cas"} : l \in Places /\ l \in Holding /\ l \notin Settling /\ l \notin EX!Sleeping
  /\ \A l \in {"wfi", "leave"} : l \in Places /\ l \notin Holding /\ l \notin Settling /\ l \in EX!Sleeping
  /\ "count" \in Places /\ "count" \notin Holding /\ "count" \in EX!Sleeping
  /\ "dec" \in Places /\ "dec" \notin Holding /\ "dec" \notin EX!Sleeping
  /\ "wdec" \in Places /\ "wdec" \in Holding /\ "wdec" \notin EX!Sleeping
  BY DEF Places, Holding, Settling, EX!Sleeping, EX!Waking

(* A step of a hart to another place. *)
LEMMA GotoPlace ==
  ASSUME EX!TypeOK, NEW h \in Harts, NEW l \in Places, EX!Goto(h, l)
  PROVE  /\ place' \in [Harts -> Places] /\ place'[h] = l
         /\ \A g \in Harts : g # h => place'[g] = place[g]
  BY Zenon DEF EX!Goto, EX!TypeOK, Places

(* The number of harts at some places changes by the one that moves. *)
LEMMA AtPcFacts ==
  ASSUME ExecConstants, NEW h \in Harts, NEW P,
         \A g \in Harts : g # h => place'[g] = place[g]
  PROVE  /\ IsFiniteSet(EX!AtPc(P)) /\ Cardinality(EX!AtPc(P)) \in Nat /\ Cardinality(EX!AtPc(P)') \in Nat
         /\ (place[h] \in P <=> place'[h] \in P) => Cardinality(EX!AtPc(P)') = Cardinality(EX!AtPc(P))
         /\ place[h] \notin P /\ place'[h] \in P => Cardinality(EX!AtPc(P)') = Cardinality(EX!AtPc(P)) + 1
         /\ place[h] \in P /\ place'[h] \notin P => Cardinality(EX!AtPc(P)') = Cardinality(EX!AtPc(P)) - 1
<1>1. EX!AtPc(P) \subseteq Harts /\ EX!AtPc(P)' \subseteq Harts
  BY Zenon DEF EX!AtPc
<1>2. IsFiniteSet(EX!AtPc(P)) /\ IsFiniteSet(EX!AtPc(P)')
  BY <1>1, FS_Subset, Zenon DEF ExecConstants
<1>3. Cardinality(EX!AtPc(P)) \in Nat /\ Cardinality(EX!AtPc(P)') \in Nat
  BY <1>2, FS_CardinalityType, Zenon
<1>4. (place[h] \in P <=> place'[h] \in P) => EX!AtPc(P)' = EX!AtPc(P)
  BY Zenon DEF EX!AtPc
<1>5. ASSUME place[h] \notin P, place'[h] \in P PROVE Cardinality(EX!AtPc(P)') = Cardinality(EX!AtPc(P)) + 1
  <2>1. EX!AtPc(P)' = EX!AtPc(P) \cup {h} /\ h \notin EX!AtPc(P)
    BY <1>5, Zenon DEF EX!AtPc
  <2> QED
    BY <1>2, <2>1, FS_AddElement, Zenon
<1>6. ASSUME place[h] \in P, place'[h] \notin P PROVE Cardinality(EX!AtPc(P)') = Cardinality(EX!AtPc(P)) - 1
  <2>1. EX!AtPc(P)' = EX!AtPc(P) \ {h} /\ h \in EX!AtPc(P)
    BY <1>6, Zenon DEF EX!AtPc
  <2> QED
    BY <1>2, <2>1, FS_RemoveElement, Zenon
<1> QED
  BY <1>2, <1>3, <1>4, <1>5, <1>6, Zenon


(* The number of raised flags changes by the one that is written. *)
Asleep == {h \in Harts : sleep[h]}

LEMMA AsleepFacts ==
  ASSUME ExecConstants, NEW h \in Harts, \A g \in Harts : g # h => sleep'[g] = sleep[g]
  PROVE  /\ Cardinality(Asleep) \in Nat /\ Cardinality(Asleep') \in Nat
         /\ sleep'[h] = sleep[h] => Cardinality(Asleep') = Cardinality(Asleep)
         /\ ~sleep[h] /\ sleep'[h] => Cardinality(Asleep') = Cardinality(Asleep) + 1
         /\ sleep[h] /\ ~sleep'[h] => Cardinality(Asleep') = Cardinality(Asleep) - 1
<1>1. Asleep \subseteq Harts /\ Asleep' \subseteq Harts
  BY Zenon DEF Asleep
<1>2. IsFiniteSet(Asleep) /\ IsFiniteSet(Asleep')
  BY <1>1, FS_Subset, Zenon DEF ExecConstants
<1>3. Cardinality(Asleep) \in Nat /\ Cardinality(Asleep') \in Nat
  BY <1>2, FS_CardinalityType, Zenon
<1>4. sleep'[h] = sleep[h] => Asleep' = Asleep
  BY Zenon DEF Asleep
<1>5. ASSUME ~sleep[h], sleep'[h] PROVE Cardinality(Asleep') = Cardinality(Asleep) + 1
  <2>1. Asleep' = Asleep \cup {h} /\ h \notin Asleep
    BY <1>5, Zenon DEF Asleep
  <2> QED
    BY <1>2, <2>1, FS_AddElement, Zenon
<1>6. ASSUME sleep[h], ~sleep'[h] PROVE Cardinality(Asleep') = Cardinality(Asleep) - 1
  <2>1. Asleep' = Asleep \ {h} /\ h \in Asleep
    BY <1>6, Zenon DEF Asleep
  <2> QED
    BY <1>2, <2>1, FS_RemoveElement, Zenon
<1> QED
  BY <1>3, <1>4, <1>5, <1>6, Zenon

(* Cardinality is the same in the instance. *)
LEMMA SameCardinality == \A S : EX!Cardinality(S) = Cardinality(S)
  BY Zenon DEF EX!Cardinality, Cardinality

(* The count, in these terms. *)
Exact == count = Cardinality(Asleep) - Cardinality(EX!AtPc({"count"})) + Cardinality(EX!AtPc({"dec", "wdec"}))

LEMMA ExactDef == EX!SleepCountExact <=> Exact
  BY SameCardinality, Zenon DEF EX!SleepCountExact, Exact, Asleep

(* The state of the tasks is left alone: a hart goes on with its task, or    *)
(* without one.                                                              *)
LEMMA TasksKept ==
  ASSUME EX!TypeOK, TaskInv, CurInv, NEW h \in Harts, UNCHANGED <<queue, task, pushing, cur>>,
         \A g \in Harts : g # h => place'[g] = place[g], place[h] \in Holding <=> place'[h] \in Holding
  PROVE  TaskInv' /\ CurInv'
<1>1. queue' = queue /\ task' = task /\ pushing' = pushing /\ cur' = cur
  BY Zenon
<1>p. \A t : Polled(t)' <=> Polled(t)
  BY <1>1, Zenon DEF Polled
<1>2. TaskInv'
  BY <1>1, <1>p, Zenon DEF TaskInv
<1>3. \A g \in Harts : place'[g] \in Holding <=> place[g] \in Holding
  BY Zenon
<1>4. CurInv'
  BY <1>1, <1>3, Zenon DEF CurInv
<1> QED
  BY <1>2, <1>4, Zenon

(* A step between places where nothing is left to count. *)
LEMMA PlainStep ==
  ASSUME ExecConstants, ExecInv, NEW h \in Harts, NEW l \in Places, EX!Goto(h, l),
         UNCHANGED <<queue, task, pushing, cur, sleep, count>>,
         moved' \in [Harts -> BOOLEAN], spun' \in [Harts -> BOOLEAN],
         todo' \in [Harts -> SUBSET Harts], \A g \in Harts : g \notin todo'[g],
         place[h] \in Holding <=> l \in Holding, place[h] \notin Settling, l \notin Settling,
         sleep[h] => l \in EX!Sleeping
  PROVE  ExecInv'
<1>i. EX!TypeOK /\ FlagInv /\ Exact /\ TaskInv /\ CurInv
  BY ExactDef, Zenon DEF ExecInv
<1>u. queue' = queue /\ task' = task /\ pushing' = pushing /\ cur' = cur /\ sleep' = sleep /\ count' = count
  BY Zenon
<1>p. /\ place' \in [Harts -> Places] /\ place'[h] = l
      /\ \A g \in Harts : g # h => place'[g] = place[g]
  BY <1>i, GotoPlace, Zenon
<1>1. EX!TypeOK'
  BY <1>i, <1>u, <1>p, Zenon DEF EX!TypeOK, Places
<1>2. FlagInv'
  BY <1>i, <1>u, <1>p, Zenon DEF FlagInv
<1>3. Exact'
  <2>1. Asleep' = Asleep
    BY <1>u, Zenon DEF Asleep
  <2>2. place[h] \notin {"count"} /\ l \notin {"count"} /\ place[h] \notin {"dec", "wdec"} /\ l \notin {"dec", "wdec"}
    BY Zenon DEF Settling
  <2>3. EX!AtPc({"count"})' = EX!AtPc({"count"}) /\ EX!AtPc({"dec", "wdec"})' = EX!AtPc({"dec", "wdec"})
    BY <1>p, <2>2, Zenon DEF EX!AtPc
  <2> QED
    BY <1>i, <1>u, <2>1, <2>3, Zenon DEF Exact
<1>4. TaskInv' /\ CurInv'
  BY <1>i, <1>u, <1>p, TasksKept, Zenon
<1>5. EX!SleepCountExact'
  BY <1>3, SameCardinality, Zenon DEF EX!SleepCountExact, Exact, Asleep
<1> QED
  BY <1>1, <1>2, <1>4, <1>5, Zenon DEF ExecInv

(* A step that changes a flag or the count, and keeps the balance. *)
LEMMA SleepStep ==
  ASSUME ExecInv, NEW h \in Harts, NEW l \in Places, EX!Goto(h, l),
         UNCHANGED <<queue, task, pushing, cur, moved, spun>>,
         todo' \in [Harts -> SUBSET Harts], \A g \in Harts : g \notin todo'[g],
         sleep' \in [Harts -> BOOLEAN], count' \in Int, place[h] \in Holding <=> l \in Holding,
         \A g \in Harts : (g # h /\ sleep'[g]) => sleep[g], (sleep'[h] => l \in EX!Sleeping),
         Exact'
  PROVE  ExecInv'
<1>i. EX!TypeOK /\ FlagInv /\ TaskInv /\ CurInv
  BY Zenon DEF ExecInv
<1>u. queue' = queue /\ task' = task /\ pushing' = pushing /\ cur' = cur /\ moved' = moved /\ spun' = spun
  BY Zenon
<1>p. /\ place' \in [Harts -> Places] /\ place'[h] = l
      /\ \A g \in Harts : g # h => place'[g] = place[g]
  BY <1>i, GotoPlace, Zenon
<1>1. EX!TypeOK'
  BY <1>i, <1>u, <1>p, Zenon DEF EX!TypeOK, Places
<1>2. FlagInv'
  BY <1>i, <1>p, Zenon DEF FlagInv
<1>3. TaskInv' /\ CurInv'
  BY <1>i, <1>u, <1>p, TasksKept, Zenon
<1>4. EX!SleepCountExact'
  BY SameCardinality, Zenon DEF EX!SleepCountExact, Exact, Asleep
<1> QED
  BY <1>1, <1>2, <1>3, <1>4, Zenon DEF ExecInv

(* What hart h, and the flag of x, stand for in the count. *)
One(b) == IF b THEN 1 ELSE 0
Share(h, x) == One(sleep[x]) - One(place[h] = "count") + One(place[h] \in {"dec", "wdec"})

(* The flag of x is written while h moves, and the count follows. *)
LEMMA Balance ==
  ASSUME ExecConstants, Exact, count \in Int, NEW h \in Harts, NEW x \in Harts,
         sleep \in [Harts -> BOOLEAN], sleep' \in [Harts -> BOOLEAN],
         \A g \in Harts : g # h => place'[g] = place[g], \A g \in Harts : g # x => sleep'[g] = sleep[g],
         count' = count - Share(h, x) + Share(h, x)'
  PROVE  Exact' /\ count' \in Int
<1>a0. sleep[x] \in BOOLEAN /\ sleep'[x] \in BOOLEAN
  BY Zenon
<1>a1. PICK na, na1 \in Nat : na = Cardinality(Asleep) /\ na1 = Cardinality(Asleep')
  BY AsleepFacts, Zenon
<1>a2. PICK a, a1 \in {0, 1} :
        /\ a = One(sleep[x]) /\ a1 = One(sleep'[x])
        /\ (a = 0 <=> ~(sleep[x])) /\ (a1 = 0 <=> ~(sleep'[x]))
  BY DEF One
<1>a3. na1 - a1 = na - a
  <2>1. (sleep[x] <=> sleep'[x]) => na1 = na
    BY <1>a1, AsleepFacts, <1>a0, Zenon
  <2>2. ~(sleep[x]) /\ sleep'[x] => na1 = na + 1
    BY <1>a1, AsleepFacts, <1>a0, Zenon
  <2>3. sleep[x] /\ ~(sleep'[x]) => na1 = na - 1
    BY <1>a1, AsleepFacts, <1>a0, Zenon
  <2> QED
    BY <1>a1, <1>a2, <2>1, <2>2, <2>3
<1>c0. \A p : p \in {"count"} <=> p = "count"
  BY Zenon
<1>c1. PICK nc, nc1 \in Nat : nc = Cardinality(EX!AtPc({"count"})) /\ nc1 = Cardinality(EX!AtPc({"count"})')
  BY AtPcFacts, Zenon
<1>c2. PICK c, c1 \in {0, 1} :
        /\ c = One(place[h] = "count") /\ c1 = One(place'[h] = "count")
        /\ (c = 0 <=> ~(place[h] = "count")) /\ (c1 = 0 <=> ~(place'[h] = "count"))
  BY DEF One
<1>c3. nc1 - c1 = nc - c
  <2>1. (place[h] = "count" <=> place'[h] = "count") => nc1 = nc
    BY <1>c1, AtPcFacts, <1>c0, Zenon
  <2>2. ~(place[h] = "count") /\ place'[h] = "count" => nc1 = nc + 1
    BY <1>c1, AtPcFacts, <1>c0, Zenon
  <2>3. place[h] = "count" /\ ~(place'[h] = "count") => nc1 = nc - 1
    BY <1>c1, AtPcFacts, <1>c0, Zenon
  <2> QED
    BY <1>c1, <1>c2, <2>1, <2>2, <2>3
<1>d1. PICK nd, nd1 \in Nat : nd = Cardinality(EX!AtPc({"dec", "wdec"})) /\ nd1 = Cardinality(EX!AtPc({"dec", "wdec"})')
  BY AtPcFacts, Zenon
<1>d2. PICK d, d1 \in {0, 1} :
        /\ d = One(place[h] \in {"dec", "wdec"}) /\ d1 = One(place'[h] \in {"dec", "wdec"})
        /\ (d = 0 <=> ~(place[h] \in {"dec", "wdec"})) /\ (d1 = 0 <=> ~(place'[h] \in {"dec", "wdec"}))
  BY DEF One
<1>d3. nd1 - d1 = nd - d
  <2>1. (place[h] \in {"dec", "wdec"} <=> place'[h] \in {"dec", "wdec"}) => nd1 = nd
    BY <1>d1, AtPcFacts, Zenon
  <2>2. ~(place[h] \in {"dec", "wdec"}) /\ place'[h] \in {"dec", "wdec"} => nd1 = nd + 1
    BY <1>d1, AtPcFacts, Zenon
  <2>3. place[h] \in {"dec", "wdec"} /\ ~(place'[h] \in {"dec", "wdec"}) => nd1 = nd - 1
    BY <1>d1, AtPcFacts, Zenon
  <2> QED
    BY <1>d1, <1>d2, <2>1, <2>2, <2>3
<1>1. count = na - nc + nd
  BY <1>a1, <1>c1, <1>d1, Zenon DEF Exact
<1>2. count' = count - (a - c + d) + (a1 - c1 + d1)
  BY <1>a2, <1>c2, <1>d2, Zenon DEF Share
<1>3. count' = na1 - nc1 + nd1 /\ count' \in Int
  <2>1. na \in Nat /\ na1 \in Nat /\ nc \in Nat /\ nc1 \in Nat /\ nd \in Nat /\ nd1 \in Nat
    BY <1>a1, <1>c1, <1>d1, Zenon
  <2>2. a \in Int /\ a1 \in Int /\ c \in Int /\ c1 \in Int /\ d \in Int /\ d1 \in Int
    BY <1>a2, <1>c2, <1>d2
  <2>3. PICK n, n1 : n = count /\ n1 = count'
    BY Zenon
  <2>4. n = na - nc + nd /\ n1 = n - (a - c + d) + (a1 - c1 + d1)
    BY <1>1, <1>2, <2>3, Zenon
  <2>5. na1 = na - a + a1 /\ nc1 = nc - c + c1 /\ nd1 = nd - d + d1
    BY <1>a3, <1>c3, <1>d3, <2>1, <2>2
  <2>6. n1 = na1 - nc1 + nd1 /\ n1 \in Int
    BY <2>1, <2>2, <2>4, <2>5
  <2> QED
    BY <2>3, <2>6, Zenon
<1> QED
  BY <1>a1, <1>c1, <1>d1, <1>3, Zenon DEF Exact

(* The steps of a hart that goes to sleep and wakes, and of a waker. *)
LEMMA SleepSteps ==
  ASSUME ExecConstants, ExecInv, NEW h \in Harts,
         \/ EX!enter_sleep(h) \/ EX!sleep_increase(h) \/ EX!leave_sleep(h) \/ EX!sleep_decrease(h)
         \/ EX!ClaimHart(h) \/ EX!WakerDecrease(h)
  PROVE  ExecInv'
<1>i. EX!TypeOK /\ FlagInv /\ Exact /\ count \in Int /\ sleep \in [Harts -> BOOLEAN]
      /\ todo \in [Harts -> SUBSET Harts] /\ \A g \in Harts : g \notin todo[g]
  BY ExactDef, Zenon DEF ExecInv, EX!TypeOK, FlagInv
<1>1. CASE EX!enter_sleep(h)
  <2>1. /\ place[h] = "enter" /\ EX!Goto(h, "count") /\ sleep' = [sleep EXCEPT ![h] = TRUE]
        /\ UNCHANGED <<queue, moved, task, pushing, cur, spun>> /\ count' = count /\ todo' = todo
    BY <1>1, Zenon DEF EX!enter_sleep
  <2>2. /\ place'[h] = "count" /\ \A g \in Harts : g # h => place'[g] = place[g]
    BY <1>i, <2>1, PlaceFacts, GotoPlace, Zenon
  <2>3. /\ sleep' \in [Harts -> BOOLEAN] /\ ~sleep[h] /\ sleep'[h]
        /\ \A g \in Harts : g # h => sleep'[g] = sleep[g]
    BY <1>i, <2>1, PlaceFacts, Zenon DEF FlagInv
  <2>4. Exact' /\ count' \in Int
    <3>1. count' = count - Share(h, h) + Share(h, h)'
      BY <1>i, <2>1, <2>2, <2>3 DEF Share, One
    <3> QED
      BY <1>i, <2>1, <2>2, <2>3, <3>1, Balance, Zenon
  <2> QED
    BY <1>i, <2>1, <2>2, <2>3, <2>4, PlaceFacts, SleepStep, Zenon
<1>2. CASE EX!sleep_increase(h)
  <2>1. /\ place[h] = "count" /\ EX!Goto(h, "wfi") /\ count' = count + 1
        /\ UNCHANGED <<queue, moved, task, pushing, cur, spun>> /\ sleep' = sleep /\ todo' = todo
    BY <1>2, Zenon DEF EX!sleep_increase
  <2>2. /\ place'[h] = "wfi" /\ \A g \in Harts : g # h => place'[g] = place[g]
    BY <1>i, <2>1, PlaceFacts, GotoPlace, Zenon
  <2>3. Exact' /\ count' \in Int
    <3>1. count' = count - Share(h, h) + Share(h, h)'
      BY <1>i, <2>1, <2>2 DEF Share, One
    <3> QED
      BY <1>i, <2>1, <2>2, <3>1, Balance, Zenon
  <2> QED
    BY <1>i, <2>1, <2>2, <2>3, PlaceFacts, SleepStep, Zenon
<1>3. CASE EX!leave_sleep(h)
  <2>1. /\ place[h] = "leave" /\ sleep' = [sleep EXCEPT ![h] = FALSE]
        /\ (sleep[h] /\ EX!Goto(h, "dec")) \/ (~sleep[h] /\ EX!Goto(h, "fetch"))
        /\ UNCHANGED <<queue, moved, task, pushing, cur, spun>> /\ count' = count /\ todo' = todo
    BY <1>3, Zenon DEF EX!leave_sleep
  <2>2. /\ sleep' \in [Harts -> BOOLEAN] /\ ~sleep'[h]
        /\ \A g \in Harts : g # h => sleep'[g] = sleep[g]
    BY <1>i, <2>1, Zenon
  <2>3. CASE sleep[h]
    <3>1. /\ EX!Goto(h, "dec") /\ place'[h] = "dec" /\ \A g \in Harts : g # h => place'[g] = place[g]
      BY <1>i, <2>1, <2>3, PlaceFacts, GotoPlace, Zenon
    <3>2. Exact' /\ count' \in Int
      <4>1. count' = count - Share(h, h) + Share(h, h)'
        BY <1>i, <2>1, <2>2, <2>3, <3>1 DEF Share, One
      <4> QED
        BY <1>i, <2>1, <2>2, <2>3, <3>1, <4>1, Balance, Zenon
    <3> QED
      BY <1>i, <2>1, <2>2, <3>1, <3>2, PlaceFacts, SleepStep, Zenon
  <2>4. CASE ~sleep[h]
    <3>1. /\ EX!Goto(h, "fetch") /\ place'[h] = "fetch" /\ \A g \in Harts : g # h => place'[g] = place[g]
      BY <1>i, <2>1, <2>4, PlaceFacts, GotoPlace, Zenon
    <3>2. Exact' /\ count' \in Int
      <4>1. count' = count - Share(h, h) + Share(h, h)'
        BY <1>i, <2>1, <2>2, <2>4, <3>1 DEF Share, One
      <4> QED
        BY <1>i, <2>1, <2>2, <2>4, <3>1, <4>1, Balance, Zenon
    <3> QED
      BY <1>i, <2>1, <2>2, <3>1, <3>2, PlaceFacts, SleepStep, Zenon
  <2> QED
    BY <2>3, <2>4, Zenon
<1>4. CASE EX!sleep_decrease(h)
  <2>1. /\ place[h] = "dec" /\ EX!Goto(h, "fetch") /\ count' = count - 1
        /\ UNCHANGED <<queue, moved, task, pushing, cur, spun>> /\ sleep' = sleep /\ todo' = todo
    BY <1>4, Zenon DEF EX!sleep_decrease
  <2>2. /\ place'[h] = "fetch" /\ \A g \in Harts : g # h => place'[g] = place[g]
    BY <1>i, <2>1, PlaceFacts, GotoPlace, Zenon
  <2>3. Exact' /\ count' \in Int
    <3>1. count' = count - Share(h, h) + Share(h, h)'
      BY <1>i, <2>1, <2>2 DEF Share, One
    <3> QED
      BY <1>i, <2>1, <2>2, <3>1, Balance, Zenon
  <2>4. ~sleep'[h]
    BY <1>i, <2>1, PlaceFacts, Zenon DEF FlagInv
  <2> QED
    BY <1>i, <2>1, <2>2, <2>3, <2>4, PlaceFacts, SleepStep, Zenon
<1>5. CASE EX!ClaimHart(h)
  <2>1. PICK g \in todo[h] :
          /\ sleep' = [sleep EXCEPT ![g] = FALSE]
          /\ todo' = [todo EXCEPT ![h] = @ \ {g}]
          /\ (sleep[g] /\ EX!Goto(h, "wdec")) \/ (~sleep[g] /\ EX!Goto(h, "scan"))
    BY <1>5, Zenon DEF EX!ClaimHart
  <2>2. /\ place[h] = "cas" /\ UNCHANGED <<queue, moved, task, pushing, cur, spun>> /\ count' = count
        /\ g \in Harts /\ ~sleep[h]
    <3>1. place[h] = "cas" /\ UNCHANGED <<queue, moved, task, pushing, cur, spun>> /\ count' = count
      BY <1>5, Zenon DEF EX!ClaimHart
    <3> QED
      BY <1>i, <3>1, PlaceFacts, Zenon DEF FlagInv
  <2>3. /\ sleep' \in [Harts -> BOOLEAN] /\ ~sleep'[g]
        /\ \A x \in Harts : x # g => sleep'[x] = sleep[x]
    BY <1>i, <2>1, <2>2, Zenon
  <2>4. /\ \A x \in Harts : sleep'[x] => sleep[x]
        /\ ~sleep'[h]
    BY <2>2, <2>3, Zenon
  <2>5. todo' \in [Harts -> SUBSET Harts] /\ \A x \in Harts : x \notin todo'[x]
    BY <1>i, <2>1, Zenon
  <2>6. CASE sleep[g]
    <3>1. /\ EX!Goto(h, "wdec") /\ place'[h] = "wdec" /\ \A x \in Harts : x # h => place'[x] = place[x]
      BY <1>i, <2>1, <2>6, PlaceFacts, GotoPlace, Zenon
    <3>2. Exact' /\ count' \in Int
      <4>1. count' = count - Share(h, g) + Share(h, g)'
        BY <1>i, <2>2, <2>3, <2>6, <3>1 DEF Share, One
      <4> QED
        BY <1>i, <2>2, <2>3, <2>6, <3>1, <4>1, Balance, Zenon
    <3> QED
      BY <1>i, <2>2, <2>3, <2>4, <2>5, <3>1, <3>2, PlaceFacts, SleepStep, Zenon
  <2>7. CASE ~sleep[g]
    <3>1. /\ EX!Goto(h, "scan") /\ place'[h] = "scan" /\ \A x \in Harts : x # h => place'[x] = place[x]
      BY <1>i, <2>1, <2>7, PlaceFacts, GotoPlace, Zenon
    <3>2. Exact' /\ count' \in Int
      <4>1. count' = count - Share(h, g) + Share(h, g)'
        BY <1>i, <2>2, <2>3, <2>7, <3>1 DEF Share, One
      <4> QED
        BY <1>i, <2>2, <2>3, <2>7, <3>1, <4>1, Balance, Zenon
    <3> QED
      BY <1>i, <2>2, <2>3, <2>4, <2>5, <3>1, <3>2, PlaceFacts, SleepStep, Zenon
  <2> QED
    BY <2>6, <2>7, Zenon
<1>6. CASE EX!WakerDecrease(h)
  <2>1. /\ place[h] = "wdec" /\ EX!Goto(h, "scan") /\ count' = count - 1
        /\ UNCHANGED <<queue, moved, task, pushing, cur, spun>> /\ sleep' = sleep /\ todo' = todo
    BY <1>6, Zenon DEF EX!WakerDecrease
  <2>2. /\ place'[h] = "scan" /\ \A g \in Harts : g # h => place'[g] = place[g]
    BY <1>i, <2>1, PlaceFacts, GotoPlace, Zenon
  <2>3. Exact' /\ count' \in Int
    <3>1. count' = count - Share(h, h) + Share(h, h)'
      BY <1>i, <2>1, <2>2 DEF Share, One
    <3> QED
      BY <1>i, <2>1, <2>2, <3>1, Balance, Zenon
  <2>4. ~sleep'[h]
    BY <1>i, <2>1, PlaceFacts, Zenon DEF FlagInv
  <2> QED
    BY <1>i, <2>1, <2>2, <2>3, <2>4, PlaceFacts, SleepStep, Zenon
<1> QED
  BY <1>1, <1>2, <1>3, <1>4, <1>5, <1>6, Zenon

-----------------------------------------------------------------------------
(* Sequences whose elements are distinct. *)
LEMMA AppendSingle ==
  ASSUME NEW S, NEW q \in Seq(S), NEW t \in S, Single(q), ~Has(q, t)
  PROVE  /\ Single(Append(q, t))
         /\ \A s : Has(Append(q, t), s) <=> (Has(q, s) \/ s = t)
<1>1. Len(Append(q, t)) = Len(q) + 1 /\ Len(q) \in Nat /\ Append(q, t)[Len(q) + 1] = t
      /\ \A i \in 1..Len(q) : Append(q, t)[i] = q[i]
  OBVIOUS
<1>2. PICK a : a = Append(q, t)
  BY Zenon
<1>3. PICK n : n = Len(q)
  BY Zenon
<1>4. Len(a) = n + 1 /\ n \in Nat /\ a[n + 1] = t /\ \A i \in 1..n : a[i] = q[i]
  BY <1>1, <1>2, <1>3, Zenon
<1>5. \A i \in 1..(n + 1) : i \in 1..n \/ i = n + 1
  BY <1>4
<1>6. n + 1 \in 1..(n + 1) /\ \A i \in 1..n : i \in 1..(n + 1)
  BY <1>4
<1>q. \A i \in 1..n : q[i] # t
  BY <1>3, Zenon DEF Has
<1>7. Single(a)
  <2> SUFFICES ASSUME NEW i \in 1..(n + 1), NEW j \in 1..(n + 1), a[i] = a[j] PROVE i = j
    BY <1>4, Zenon DEF Single
  <2>1. \A k, l \in 1..n : q[k] = q[l] => k = l
    BY <1>3, Zenon DEF Single
  <2> QED
    BY <1>4, <1>5, <1>q, <2>1, Zenon
<1>8. \A s : Has(a, s) <=> (Has(q, s) \/ s = t)
  BY <1>3, <1>4, <1>5, <1>6, Zenon DEF Has
<1> QED
  BY <1>2, <1>7, <1>8, Zenon

LEMMA TailSingle ==
  ASSUME NEW S, NEW q \in Seq(S), Single(q), q # <<>>
  PROVE  /\ Single(Tail(q)) /\ Head(q) \in S /\ Has(q, Head(q)) /\ Tail(q) \in Seq(S)
         /\ \A s : Has(Tail(q), s) <=> (Has(q, s) /\ s # Head(q))
<1>1. /\ Len(q) \in Nat /\ Len(q) > 0 /\ Len(Tail(q)) = Len(q) - 1 /\ Head(q) = q[1] /\ Head(q) \in S
      /\ Tail(q) \in Seq(S)
      /\ \A i \in 1..(Len(q) - 1) : Tail(q)[i] = q[i + 1]
  OBVIOUS
<1>2. PICK a : a = Tail(q)
  BY Zenon
<1>3. PICK n : n = Len(q)
  BY Zenon
<1>4. Len(a) = n - 1 /\ n \in Nat /\ n > 0 /\ \A i \in 1..(n - 1) : a[i] = q[i + 1]
  BY <1>1, <1>2, <1>3, Zenon
<1>5. /\ \A i \in 1..(n - 1) : i + 1 \in 1..n /\ i + 1 # 1
      /\ \A i, j \in 1..(n - 1) : i + 1 = j + 1 => i = j
      /\ 1 \in 1..n
      /\ \A i \in 1..n : i # 1 => \E j \in 1..(n - 1) : i = j + 1
  <2>1. \A i \in 1..n : i # 1 => (i - 1) \in 1..(n - 1) /\ i = (i - 1) + 1
    BY <1>4
  <2>2. \A i \in 1..n : i # 1 => \E j \in 1..(n - 1) : i = j + 1
    BY <2>1, Zenon
  <2> QED
    BY <1>4, <2>2
<1>s. \A k, l \in 1..n : q[k] = q[l] => k = l
  BY <1>3, Zenon DEF Single
<1>6. Single(a)
  <2> SUFFICES ASSUME NEW i \in 1..(n - 1), NEW j \in 1..(n - 1), a[i] = a[j] PROVE i = j
    BY <1>4, Zenon DEF Single
  <2>1. q[i + 1] = q[j + 1] /\ i + 1 \in 1..n /\ j + 1 \in 1..n
    BY <1>4, <1>5, Zenon
  <2> QED
    BY <1>5, <1>s, <2>1, Zenon
<1>7. ASSUME NEW s, Has(a, s) PROVE Has(q, s) /\ s # q[1]
  <2>1. PICK i \in 1..(n - 1) : a[i] = s
    BY <1>4, <1>7, Zenon DEF Has
  <2>2. i + 1 \in 1..n /\ q[i + 1] = s /\ i + 1 # 1
    BY <1>4, <1>5, <2>1, Zenon
  <2> QED
    BY <1>3, <1>5, <1>s, <2>2, Zenon DEF Has
<1>8. ASSUME NEW s, Has(q, s), s # q[1] PROVE Has(a, s)
  <2>1. PICK i \in 1..n : q[i] = s
    BY <1>3, <1>8, Zenon DEF Has
  <2>2. PICK j \in 1..(n - 1) : i = j + 1
    BY <1>5, <1>8, <2>1, Zenon
  <2>3. a[j] = s
    BY <1>4, <2>1, <2>2, Zenon
  <2> QED
    BY <1>4, <2>3, Zenon DEF Has
<1>9. Has(q, q[1])
  BY <1>3, <1>5, Zenon DEF Has
<1> QED
  BY <1>1, <1>2, <1>6, <1>7, <1>8, <1>9, Zenon

(* A step that leaves the flags, the count and the scan alone, of a hart     *)
(* that is not between a flag and the count.                                 *)
LEMMA TaskStep ==
  ASSUME ExecInv, UNCHANGED <<sleep, count, todo>>, EX!TypeOK', TaskInv', CurInv',
         \A h \in Harts : \/ place'[h] = place[h]
                          \/ (place[h] \notin Settling /\ place'[h] \notin Settling /\ ~sleep[h])
  PROVE  ExecInv'
<1>i. FlagInv /\ Exact
  BY ExactDef, Zenon DEF ExecInv
<1>u. sleep' = sleep /\ count' = count /\ todo' = todo
  BY Zenon
<1>1. FlagInv'
  BY <1>i, <1>u, Zenon DEF FlagInv
<1>2. \A h \in Harts : /\ place'[h] \in {"count"} <=> place[h] \in {"count"}
                       /\ place'[h] \in {"dec", "wdec"} <=> place[h] \in {"dec", "wdec"}
  BY Zenon DEF Settling
<1>3. EX!AtPc({"count"})' = EX!AtPc({"count"}) /\ EX!AtPc({"dec", "wdec"})' = EX!AtPc({"dec", "wdec"}) /\ Asleep' = Asleep
  BY <1>u, <1>2, Zenon DEF EX!AtPc, Asleep
<1>4. Exact'
  BY <1>i, <1>u, <1>3, Zenon DEF Exact
<1>5. EX!SleepCountExact'
  BY <1>4, SameCardinality, Zenon DEF EX!SleepCountExact, Exact, Asleep
<1> QED
  BY <1>1, <1>5, Zenon DEF ExecInv

(* Between polls, in the idle loop and in the scan of a waker. *)
LEMMA PlainSteps ==
  ASSUME ExecConstants, ExecInv, NEW h \in Harts,
         \/ EX!FetchBegin(h) \/ EX!FetchTest(h) \/ EX!IdleSpin(h) \/ EX!IdleSleep(h) \/ EX!Woken(h)
         \/ EX!have_sleep(h) \/ EX!ScanHart(h)
  PROVE  ExecInv'
<1>i. /\ EX!TypeOK /\ FlagInv /\ moved \in [Harts -> BOOLEAN] /\ spun \in [Harts -> BOOLEAN]
      /\ todo \in [Harts -> SUBSET Harts] /\ \A g \in Harts : g \notin todo[g]
      /\ sleep[h] => place[h] \in EX!Sleeping
  BY Zenon DEF ExecInv, EX!TypeOK, FlagInv
<1>1. CASE EX!FetchBegin(h)
  <2>1. /\ place[h] = "fetch" /\ EX!Goto(h, "test") /\ moved' = [moved EXCEPT ![h] = FALSE]
        /\ UNCHANGED <<queue, task, pushing, cur, sleep, count>> /\ todo' = todo /\ spun' = spun
    BY <1>1, Zenon DEF EX!FetchBegin
  <2> QED
    BY <1>i, <2>1, PlaceFacts, PlainStep, Zenon
<1>2. CASE EX!FetchTest(h)
  <2>1. /\ place[h] = "test" /\ moved' = [moved EXCEPT ![h] = FALSE]
        /\ UNCHANGED <<queue, task, pushing, cur, sleep, count>> /\ todo' = todo /\ spun' = spun
    BY <1>2, Zenon DEF EX!FetchTest
  <2>2. EX!Goto(h, "idle") \/ EX!Goto(h, "pop")
    BY <1>2, Zenon DEF EX!FetchTest
  <2> QED
    BY <1>i, <2>1, <2>2, PlaceFacts, PlainStep, Zenon
<1>3. CASE EX!IdleSpin(h)
  <2>1. /\ place[h] = "idle" /\ EX!Goto(h, "fetch")
        /\ UNCHANGED <<queue, task, pushing, cur, sleep, count>> /\ todo' = todo /\ moved' = moved
    BY <1>3, Zenon DEF EX!IdleSpin
  <2>2. spun' \in [Harts -> BOOLEAN]
    BY <1>i, <1>3, Zenon DEF EX!IdleSpin
  <2> QED
    BY <1>i, <2>1, <2>2, PlaceFacts, PlainStep, Zenon
<1>4. CASE EX!IdleSleep(h)
  <2>1. /\ place[h] = "idle" /\ EX!Goto(h, "enter")
        /\ UNCHANGED <<queue, task, pushing, cur, sleep, count>> /\ todo' = todo /\ moved' = moved /\ spun' = spun
    BY <1>4, Zenon DEF EX!IdleSleep
  <2> QED
    BY <1>i, <2>1, PlaceFacts, PlainStep, Zenon
<1>5. CASE EX!Woken(h)
  <2>1. /\ place[h] = "wfi" /\ EX!Goto(h, "leave")
        /\ UNCHANGED <<queue, task, pushing, cur, sleep, count>> /\ todo' = todo /\ moved' = moved /\ spun' = spun
    BY <1>5, Zenon DEF EX!Woken
  <2> QED
    BY <1>i, <2>1, PlaceFacts, PlainStep, Zenon
<1>6. CASE EX!have_sleep(h)
  <2>1. /\ place[h] = "run" /\ EX!Goto(h, "scan") /\ todo' = [todo EXCEPT ![h] = Harts \ {h}]
        /\ UNCHANGED <<queue, task, pushing, cur, sleep, count>> /\ moved' = moved /\ spun' = spun
    BY <1>6, Zenon DEF EX!have_sleep
  <2>2. todo' \in [Harts -> SUBSET Harts] /\ \A g \in Harts : g \notin todo'[g]
    BY <1>i, <2>1, Zenon
  <2>3. place[h] \in Holding /\ place[h] \notin Settling /\ ~sleep[h]
    BY <1>i, <2>1, PlaceFacts, Zenon
  <2>4. "scan" \in Places /\ "scan" \in Holding /\ "scan" \notin Settling
    BY PlaceFacts, Zenon
  <2> QED
    BY <1>i, <2>1, <2>2, <2>3, <2>4, PlainStep, Zenon
<1>7. CASE EX!ScanHart(h)
  <2>1. /\ place[h] = "scan"
        /\ UNCHANGED <<queue, task, pushing, cur, sleep, count>> /\ moved' = moved /\ spun' = spun
    BY <1>7, Zenon DEF EX!ScanHart
  <2>0. place[h] \in Holding /\ place[h] \notin Settling /\ ~sleep[h]
    BY <1>i, <2>1, PlaceFacts, Zenon
  <2>2. CASE (EX!Goto(h, "cas") \/ EX!Goto(h, "run")) /\ todo' = todo
    <3>1. CASE EX!Goto(h, "cas")
      BY <1>i, <2>0, <2>1, <2>2, <3>1, PlaceFacts, PlainStep, Zenon
    <3>2. CASE EX!Goto(h, "run")
      BY <1>i, <2>0, <2>1, <2>2, <3>2, PlaceFacts, PlainStep, Zenon
    <3> QED
      BY <2>2, <3>1, <3>2, Zenon
  <2>3. CASE place' = place /\ \E g \in todo[h] : todo' = [todo EXCEPT ![h] = @ \ {g}]
    <3>1. EX!Goto(h, "scan")
      BY <1>i, <2>1, <2>3, Zenon DEF EX!Goto, EX!TypeOK
    <3>2. todo' \in [Harts -> SUBSET Harts] /\ \A g \in Harts : g \notin todo'[g]
      <4>1. PICK g \in todo[h] : todo' = [todo EXCEPT ![h] = todo[h] \ {g}]
        BY <2>3, Zenon
      <4>2. todo[h] \ {g} \in SUBSET Harts /\ h \notin todo[h] \ {g}
        BY <1>i, Zenon
      <4> QED
        BY <1>i, <4>1, <4>2, Zenon
    <3> QED
      BY <1>i, <2>0, <2>1, <3>1, <3>2, PlaceFacts, PlainStep, Zenon
  <2> QED
    BY <1>7, <2>2, <2>3, Zenon DEF EX!ScanHart
<1> QED
  BY <1>1, <1>2, <1>3, <1>4, <1>5, <1>6, <1>7, Zenon

(* A waker makes a task scheduled, or asks for another poll. *)
LEMMA WakeInv ==
  ASSUME ExecInv, NEW t \in Tasks, EX!Wake(t)
  PROVE  ExecInv'
<1>i. EX!TypeOK /\ TaskInv /\ CurInv
  BY Zenon DEF ExecInv
<1>u. queue' = queue /\ moved' = moved /\ place' = place /\ cur' = cur /\ spun' = spun /\ sleep' = sleep
      /\ count' = count /\ todo' = todo
  BY Zenon DEF EX!Wake
<1>1. \/ (task[t] = "idle" /\ task' = [task EXCEPT ![t] = "scheduled"] /\ pushing' = pushing \cup {t})
      \/ (task[t] = "running" /\ task' = [task EXCEPT ![t] = "rerun"] /\ pushing' = pushing)
  BY Zenon DEF EX!Wake
<1>t. /\ \/ (task[t] = "idle" /\ task'[t] = "scheduled" /\ pushing' = pushing \cup {t})
         \/ (task[t] = "running" /\ task'[t] = "rerun" /\ pushing' = pushing)
      /\ \A s \in Tasks : s # t => task'[s] = task[s]
      /\ task' \in [Tasks -> {"idle", "scheduled", "running", "rerun"}]
  BY <1>i, <1>1, Zenon DEF EX!TypeOK
<1>2. EX!TypeOK'
  BY <1>i, <1>u, <1>t, Zenon DEF EX!TypeOK
<1>3. TaskInv'
  <2>1. Single(queue)' /\ \A s : (Has(queue, s)' <=> Has(queue, s)) /\ (Polled(s)' <=> Polled(s))
    BY <1>i, <1>u, Zenon DEF TaskInv, Polled
  <2>2. \A s \in Tasks : s # t => (s \in pushing' <=> s \in pushing)
    BY <1>t, Zenon
  <2>3. \A s \in Tasks : s # t =>
          /\ task'[s] = "idle" => s \notin pushing' /\ ~Has(queue, s)' /\ ~Polled(s)'
          /\ task'[s] = "scheduled" => (s \in pushing' <=> ~Has(queue, s)') /\ ~Polled(s)'
          /\ task'[s] \in {"running", "rerun"} => s \notin pushing' /\ ~Has(queue, s)' /\ Polled(s)'
    BY <1>i, <1>t, <2>1, <2>2, Zenon DEF TaskInv
  <2>4. /\ task'[t] = "idle" => t \notin pushing' /\ ~Has(queue, t)' /\ ~Polled(t)'
        /\ task'[t] = "scheduled" => (t \in pushing' <=> ~Has(queue, t)') /\ ~Polled(t)'
        /\ task'[t] \in {"running", "rerun"} => t \notin pushing' /\ ~Has(queue, t)' /\ Polled(t)'
    BY <1>i, <1>t, <2>1, Zenon DEF TaskInv
  <2> QED
    BY <2>1, <2>3, <2>4, Zenon DEF TaskInv
<1>4. CurInv'
  BY <1>i, <1>u, Zenon DEF CurInv
<1> QED
  BY <1>u, <1>2, <1>3, <1>4, TaskStep, Zenon

(* TaskQueue::push *)
LEMMA PushInv ==
  ASSUME ExecInv, NEW t \in Tasks, EX!Push(t)
  PROVE  ExecInv'
<1>i. EX!TypeOK /\ TaskInv /\ CurInv /\ queue \in Seq(Tasks)
  BY Zenon DEF ExecInv, EX!TypeOK
<1>u. task' = task /\ place' = place /\ cur' = cur /\ spun' = spun /\ sleep' = sleep /\ count' = count /\ todo' = todo
  BY Zenon DEF EX!Push
<1>1. t \in pushing /\ pushing' = pushing \ {t} /\ queue' = Append(queue, t)
      /\ moved' = [h \in Harts |-> place[h] = "test"]
  BY Zenon DEF EX!Push, EX!Stir
<1>2. task[t] = "scheduled" /\ ~Has(queue, t) /\ ~Polled(t)
  BY <1>i, <1>1, Zenon DEF TaskInv, EX!TypeOK
<1>3. Single(queue') /\ (\A s : Has(queue', s) <=> (Has(queue, s) \/ s = t)) /\ queue' \in Seq(Tasks)
  <2>1. Single(queue)
    BY <1>i, Zenon DEF TaskInv
  <2>2. Append(queue, t) \in Seq(Tasks)
    BY <1>i
  <2> QED
    BY <1>i, <1>1, <1>2, <2>1, <2>2, AppendSingle, Zenon
<1>4. EX!TypeOK'
  <2>1. moved' \in [Harts -> BOOLEAN] /\ pushing' \subseteq Tasks
    BY <1>i, <1>1, Zenon DEF EX!TypeOK
  <2> QED
    BY <1>i, <1>u, <1>3, <2>1, Zenon DEF EX!TypeOK
<1>5. TaskInv'
  <2>1. \A s : Polled(s)' <=> Polled(s)
    BY <1>u, Zenon DEF Polled
  <2> QED
    BY <1>i, <1>u, <1>1, <1>2, <1>3, <2>1, Zenon DEF TaskInv
<1>6. CurInv'
  BY <1>i, <1>u, Zenon DEF CurInv
<1> QED
  BY <1>u, <1>4, <1>5, <1>6, TaskStep, Zenon

(* The rest of fetch, and Runnable::run. *)
LEMMA FetchPopInv ==
  ASSUME ExecConstants, ExecInv, NEW h \in Harts, EX!FetchPop(h)
  PROVE  ExecInv'
<1>i. EX!TypeOK /\ FlagInv /\ TaskInv /\ CurInv /\ queue \in Seq(Tasks)
  BY Zenon DEF ExecInv, EX!TypeOK
<1>u. pushing' = pushing /\ sleep' = sleep /\ count' = count /\ todo' = todo /\ place[h] = "pop"
  BY Zenon DEF EX!FetchPop
<1>s. ~sleep[h] /\ place[h] \notin Holding /\ place[h] \notin Settling
  BY <1>i, <1>u, PlaceFacts, Zenon DEF FlagInv
<1>1. CASE queue = <<>> /\ EX!Goto(h, "idle") /\ UNCHANGED <<queue, moved, cur, task, spun>>
  <2>1. /\ todo \in [Harts -> SUBSET Harts] /\ moved \in [Harts -> BOOLEAN] /\ spun \in [Harts -> BOOLEAN]
        /\ \A g \in Harts : g \notin todo[g]
    BY <1>i, Zenon DEF EX!TypeOK, FlagInv
  <2> QED
    BY <1>1, <1>u, <1>s, <2>1, PlaceFacts, PlainStep, Zenon
<1>2. CASE queue # <<>>
  <2>1. PICK t : t = Head(queue)
    BY Zenon
  <2>2. /\ cur' = [cur EXCEPT ![h] = t] /\ task' = [task EXCEPT ![t] = "running"]
        /\ queue' = Tail(queue) /\ EX!Goto(h, "run") /\ spun' = [spun EXCEPT ![h] = FALSE]
        /\ moved' = [g \in Harts |-> place[g] = "test"]
    BY <1>2, <2>1, Zenon DEF EX!FetchPop, EX!Stir
  <2>3. /\ Single(queue') /\ t \in Tasks /\ Has(queue, t) /\ queue' \in Seq(Tasks)
        /\ \A s : Has(queue', s) <=> (Has(queue, s) /\ s # t)
    <3>1. Single(queue)
      BY <1>i, Zenon DEF TaskInv
    <3> QED
      BY <1>i, <1>2, <2>1, <2>2, <3>1, TailSingle, Zenon
  <2>4. task[t] = "scheduled" /\ t \notin pushing /\ ~Polled(t)
    BY <1>i, <2>3, Zenon DEF TaskInv, EX!TypeOK
  <2>5. /\ place' \in [Harts -> Places] /\ place'[h] = "run"
        /\ \A g \in Harts : g # h => place'[g] = place[g]
    BY <1>i, <2>2, PlaceFacts, GotoPlace, Zenon
  <2>6. /\ cur' \in [Harts -> Tasks \cup {NoTask}] /\ cur'[h] = t
        /\ \A g \in Harts : g # h => cur'[g] = cur[g]
    BY <1>i, <2>2, <2>3, Zenon DEF EX!TypeOK
  <2>7. /\ task' \in [Tasks -> {"idle", "scheduled", "running", "rerun"}] /\ task'[t] = "running"
        /\ \A s \in Tasks : s # t => task'[s] = task[s]
    BY <1>i, <2>2, <2>3, Zenon DEF EX!TypeOK
  <2>8. EX!TypeOK'
    <3>1. moved' \in [Harts -> BOOLEAN] /\ spun' \in [Harts -> BOOLEAN]
      BY <1>i, <2>2, Zenon DEF EX!TypeOK
    <3> QED
      BY <1>i, <1>u, <2>3, <2>5, <2>6, <2>7, <3>1, Zenon DEF EX!TypeOK, Places
  <2>9. cur[h] \notin Tasks
    BY <1>i, <1>s, Zenon DEF CurInv
  <2>10. Polled(t)' /\ \A s \in Tasks : s # t => (Polled(s)' <=> Polled(s))
    BY <2>6, <2>9, Zenon DEF Polled
  <2>11. TaskInv'
    <3>1. \A s \in Tasks : s # t =>
            /\ task'[s] = "idle" => s \notin pushing' /\ ~Has(queue', s) /\ ~Polled(s)'
            /\ task'[s] = "scheduled" => (s \in pushing' <=> ~Has(queue', s)) /\ ~Polled(s)'
            /\ task'[s] \in {"running", "rerun"} => s \notin pushing' /\ ~Has(queue', s) /\ Polled(s)'
      BY <1>i, <1>u, <2>3, <2>7, <2>10, Zenon DEF TaskInv
    <3>2. "running" # "idle" /\ "running" # "scheduled"
      BY Zenon
    <3>3. t \notin pushing' /\ ~Has(queue', t) /\ Polled(t)'
      BY <1>u, <2>3, <2>4, <2>10, Zenon
    <3> QED
      BY <2>3, <2>7, <3>1, <3>2, <3>3, Zenon DEF TaskInv
  <2>12. CurInv'
    <3>1. \A g \in Harts : cur'[g] \in Tasks <=> place'[g] \in Holding
      BY <1>i, <2>3, <2>5, <2>6, PlaceFacts, Zenon DEF CurInv
    <3>2. \A g \in Harts : cur[g] # t
      BY <2>4, Zenon DEF Polled
    <3> QED
      BY <1>i, <2>6, <3>1, <3>2, Zenon DEF CurInv
  <2>13. \A g \in Harts : \/ place'[g] = place[g]
                          \/ (place[g] \notin Settling /\ place'[g] \notin Settling /\ ~sleep[g])
    BY <1>s, <2>5, PlaceFacts, Zenon
  <2> QED
    BY <1>u, <2>8, <2>11, <2>12, <2>13, TaskStep, Zenon
<1> QED
  BY <1>1, <1>2, Zenon DEF EX!FetchPop

(* The poll returns. *)
LEMMA RunEndInv ==
  ASSUME ExecConstants, ExecInv, NEW h \in Harts, EX!RunEnd(h)
  PROVE  ExecInv'
<1>i. EX!TypeOK /\ FlagInv /\ TaskInv /\ CurInv
  BY Zenon DEF ExecInv
<1>u. queue' = queue /\ moved' = moved /\ spun' = spun /\ sleep' = sleep /\ count' = count /\ todo' = todo
      /\ place[h] = "run" /\ EX!Goto(h, "fetch") /\ cur' = [cur EXCEPT ![h] = NoTask]
  BY Zenon DEF EX!RunEnd
<1>s. ~sleep[h] /\ place[h] \in Holding /\ place[h] \notin Settling
  BY <1>i, <1>u, PlaceFacts, Zenon DEF FlagInv
<1>1. PICK t : t = cur[h]
  BY Zenon
<1>2. t \in Tasks /\ Polled(t)
  BY <1>i, <1>s, <1>1, Zenon DEF CurInv, Polled
<1>3. task[t] \in {"running", "rerun"} /\ t \notin pushing /\ ~Has(queue, t)
  BY <1>i, <1>2, Zenon DEF TaskInv, EX!TypeOK
<1>4. \/ (task' = [task EXCEPT ![t] = "scheduled"] /\ pushing' = pushing \cup {t})
      \/ (task' = [task EXCEPT ![t] = "idle"] /\ pushing' = pushing)
  BY <1>1, Zenon DEF EX!RunEnd
<1>5. /\ task' \in [Tasks -> {"idle", "scheduled", "running", "rerun"}]
      /\ \A s \in Tasks : s # t => task'[s] = task[s]
      /\ (task'[t] = "scheduled" /\ t \in pushing') \/ (task'[t] = "idle" /\ t \notin pushing')
      /\ \A s \in Tasks : s # t => (s \in pushing' <=> s \in pushing)
      /\ pushing' \subseteq Tasks
  BY <1>i, <1>2, <1>3, <1>4, Zenon DEF EX!TypeOK
<1>6. /\ place' \in [Harts -> Places] /\ place'[h] = "fetch"
      /\ \A g \in Harts : g # h => place'[g] = place[g]
  BY <1>i, <1>u, PlaceFacts, GotoPlace, Zenon
<1>7. /\ cur' \in [Harts -> Tasks \cup {NoTask}] /\ cur'[h] = NoTask
      /\ \A g \in Harts : g # h => cur'[g] = cur[g]
  BY <1>i, <1>u, Zenon DEF EX!TypeOK
<1>8. EX!TypeOK'
  BY <1>i, <1>u, <1>5, <1>6, <1>7, Zenon DEF EX!TypeOK, Places
<1>9. NoTask \notin Tasks
  BY Zenon DEF ExecConstants
<1>10. ~Polled(t)' /\ \A s \in Tasks : s # t => (Polled(s)' <=> Polled(s))
  <2>1. \A g \in Harts : cur[g] = t => g = h
    BY <1>i, <1>1, <1>2, Zenon DEF CurInv
  <2> QED
    BY <1>1, <1>2, <1>7, <1>9, <2>1, Zenon DEF Polled
<1>11. TaskInv'
  <2>1. \A s \in Tasks : s # t =>
          /\ task'[s] = "idle" => s \notin pushing' /\ ~Has(queue', s) /\ ~Polled(s)'
          /\ task'[s] = "scheduled" => (s \in pushing' <=> ~Has(queue', s)) /\ ~Polled(s)'
          /\ task'[s] \in {"running", "rerun"} => s \notin pushing' /\ ~Has(queue', s) /\ Polled(s)'
    BY <1>i, <1>u, <1>5, <1>10, Zenon DEF TaskInv
  <2>2. /\ task'[t] = "idle" => t \notin pushing' /\ ~Has(queue', t) /\ ~Polled(t)'
        /\ task'[t] = "scheduled" => (t \in pushing' <=> ~Has(queue', t)) /\ ~Polled(t)'
        /\ task'[t] \in {"running", "rerun"} => t \notin pushing' /\ ~Has(queue', t) /\ Polled(t)'
    BY <1>u, <1>3, <1>5, <1>10, Zenon
  <2>3. Single(queue')
    BY <1>i, <1>u, Zenon DEF TaskInv
  <2> QED
    BY <2>1, <2>2, <2>3, Zenon DEF TaskInv
<1>12. CurInv'
  <2>1. \A g \in Harts : cur'[g] \in Tasks <=> place'[g] \in Holding
    <3>1. cur'[h] \notin Tasks /\ place'[h] \notin Holding
      BY <1>6, <1>7, <1>9, PlaceFacts, Zenon
    <3> QED
      BY <1>i, <1>6, <1>7, <3>1, Zenon DEF CurInv
  <2>2. \A g, x \in Harts : (cur'[g] = cur'[x] /\ cur'[g] \in Tasks) => g = x
    BY <1>i, <1>7, <1>9, Zenon DEF CurInv
  <2> QED
    BY <2>1, <2>2, Zenon DEF CurInv
<1>13. \A g \in Harts : \/ place'[g] = place[g]
                        \/ (place[g] \notin Settling /\ place'[g] \notin Settling /\ ~sleep[g])
  BY <1>s, <1>6, PlaceFacts, Zenon
<1> QED
  BY <1>u, <1>8, <1>11, <1>12, <1>13, TaskStep, Zenon

-----------------------------------------------------------------------------
(* The initial state. *)
LEMMA ExecInit == ASSUME ExecConstants, EX!Init PROVE ExecInv
<1>1. EX!TypeOK
  BY DEF EX!Init, EX!TypeOK
<1>2. FlagInv
  BY Zenon DEF EX!Init, FlagInv
<1>3. EX!SleepCountExact
  <2>1. Asleep = {} /\ EX!AtPc({"count"}) = {} /\ EX!AtPc({"dec", "wdec"}) = {} /\ count = 0
    BY Zenon DEF EX!Init, Asleep, EX!AtPc
  <2>2. Cardinality({}) = 0
    BY FS_EmptySet, Zenon
  <2>3. Exact
    BY <2>1, <2>2 DEF Exact
  <2> QED
    BY <2>3, ExactDef, Zenon
<1>4. TaskInv
  <2>1. queue = <<>> /\ pushing = {} /\ \A t \in Tasks : task[t] = "idle" /\ \A h \in Harts : cur[h] # t
    BY Zenon DEF EX!Init, ExecConstants
  <2>2. Single(<<>>) /\ \A t : ~Has(<<>>, t)
    BY DEF Single, Has
  <2>3. "idle" # "scheduled" /\ "idle" # "running" /\ "idle" # "rerun"
    BY Zenon
  <2> QED
    BY <2>1, <2>2, <2>3, Zenon DEF TaskInv, Polled
<1>5. CurInv
  BY PlaceFacts, Zenon DEF EX!Init, CurInv, ExecConstants
<1> QED
  BY <1>1, <1>2, <1>3, <1>4, <1>5, Zenon DEF ExecInv

(* Every step. *)
LEMMA ExecStep == ASSUME ExecConstants, ExecInv, [EX!Next]_(EX!vars) PROVE ExecInv'
<1>1. CASE \E t \in Tasks : EX!Wake(t) \/ EX!Push(t)
  BY <1>1, WakeInv, PushInv, Zenon
<1>2. CASE \E h \in Harts : EX!HartStep(h) \/ EX!have_sleep(h)
  BY <1>2, PlainSteps, SleepSteps, FetchPopInv, RunEndInv, Zenon DEF EX!HartStep
<1>3. CASE UNCHANGED EX!vars
  <2>1. /\ queue' = queue /\ moved' = moved /\ task' = task /\ pushing' = pushing /\ place' = place
        /\ cur' = cur /\ spun' = spun /\ sleep' = sleep /\ count' = count /\ todo' = todo
    BY <1>3, Zenon DEF EX!vars
  <2>2. EX!TypeOK' /\ FlagInv'
    BY <2>1, Zenon DEF ExecInv, EX!TypeOK, FlagInv
  <2>3. EX!SleepCountExact'
    BY <2>1, Zenon DEF ExecInv, EX!SleepCountExact, EX!AtPc
  <2>4. TaskInv' /\ CurInv'
    <3>1. \A t : Polled(t)' <=> Polled(t)
      BY <2>1, Zenon DEF Polled
    <3> QED
      BY <2>1, <3>1, Zenon DEF ExecInv, TaskInv, CurInv
  <2> QED
    BY <2>2, <2>3, <2>4, Zenon DEF ExecInv
<1> QED
  BY <1>1, <1>2, <1>3, Zenon DEF EX!Next

(* A set whose members are equal, and that has one or none. *)
LEMMA AtMostOne ==
  ASSUME NEW S, \A x, y \in S : x = y
  PROVE  Cardinality(S) = IF \E x : x \in S THEN 1 ELSE 0
<1>1. CASE \E x : x \in S
  <2>1. PICK x : x \in S
    BY <1>1, Zenon
  <2>2. S = {x}
    BY <2>1, Zenon
  <2> QED
    BY <1>1, <2>2, FS_Singleton, Zenon
<1>2. CASE ~ \E x : x \in S
  <2>1. S = {}
    BY <1>2, Zenon
  <2> QED
    BY <1>2, <2>1, FS_EmptySet, Zenon
<1> QED
  BY <1>1, <1>2, Zenon

(* What the invariant says of the places of a task. *)
LEMMA HeldOnce == ASSUME ExecInv PROVE EX!TaskHeldOnce
<1>i. EX!TypeOK /\ TaskInv /\ CurInv
  BY Zenon DEF ExecInv
<1> SUFFICES ASSUME NEW t \in Tasks
             PROVE  (IF t \in pushing THEN 1 ELSE 0)
                    + Cardinality({i \in 1..Len(queue) : queue[i] = t})
                    + Cardinality({h \in Harts : cur[h] = t})
                    = IF task[t] = "idle" THEN 0 ELSE 1
  BY SameCardinality, Zenon DEF EX!TaskHeldOnce
<1>1. Cardinality({i \in 1..Len(queue) : queue[i] = t}) = IF Has(queue, t) THEN 1 ELSE 0
  <2> DEFINE Q == {i \in 1..Len(queue) : queue[i] = t}
  <2>1. \A x, y \in Q : x = y
    BY <1>i, Zenon DEF TaskInv, Single
  <2>2. (\E x : x \in Q) <=> Has(queue, t)
    BY Zenon DEF Has
  <2> HIDE DEF Q
  <2>3. Cardinality(Q) = IF Has(queue, t) THEN 1 ELSE 0
    BY <2>1, <2>2, AtMostOne, Zenon
  <2> QED
    BY <2>3, Zenon DEF Q
<1>2. Cardinality({h \in Harts : cur[h] = t}) = IF Polled(t) THEN 1 ELSE 0
  <2> DEFINE P == {h \in Harts : cur[h] = t}
  <2>1. \A x, y \in P : x = y
    BY <1>i, Zenon DEF CurInv
  <2>2. (\E x : x \in P) <=> Polled(t)
    BY Zenon DEF Polled
  <2> HIDE DEF P
  <2>3. Cardinality(P) = IF Polled(t) THEN 1 ELSE 0
    BY <2>1, <2>2, AtMostOne, Zenon
  <2> QED
    BY <2>3, Zenon DEF P
<1>3. task[t] \in {"idle", "scheduled", "running", "rerun"}
  BY <1>i, Zenon DEF EX!TypeOK
<1>4. \/ (task[t] = "idle" /\ t \notin pushing /\ ~Has(queue, t) /\ ~Polled(t))
      \/ (task[t] # "idle" /\ t \in pushing /\ ~Has(queue, t) /\ ~Polled(t))
      \/ (task[t] # "idle" /\ t \notin pushing /\ Has(queue, t) /\ ~Polled(t))
      \/ (task[t] # "idle" /\ t \notin pushing /\ ~Has(queue, t) /\ Polled(t))
  BY <1>i, <1>3, Zenon DEF TaskInv
<1> QED
  BY <1>1, <1>2, <1>4

(* SLEEP_COUNT is the number of raised flags, up to the harts between the    *)
(* two writes; and a task is in one place unless it is idle.                 *)
THEOREM ExecutorIsSafe == ASSUME ExecConstants PROVE EX!Spec => []EX!ExecutorSafe
<1>1. EX!Init => ExecInv
  BY ExecInit, Zenon
<1>2. ExecInv /\ [EX!Next]_(EX!vars) => ExecInv'
  BY ExecStep, Zenon
<1>3. ExecInv => EX!ExecutorSafe
  BY HeldOnce, Zenon DEF ExecInv, EX!ExecutorSafe
<1> QED
  BY <1>1, <1>2, <1>3, PTL DEF EX!Spec
=============================================================================
