-------------------------------- MODULE Rcu --------------------------------
(***************************************************************************)
(* The RCU reclamation system: the global RcuManager                       *)
(* (ftl-util/src/rcu/manager.rs), the per-hart LocalRcuManager in front of *)
(* it (kernel/src/memory/rcu.rs) and the executor loop that brackets every *)
(* polled task with them (kernel/src/executor/mod.rs).                     *)
(*                                                                         *)
(* Every atomic access to `flags`, every unlocked read and every critical  *)
(* section of the spin lock `cp` is one step; a hart may be overtaken      *)
(* between any two of them.  Memory is sequentially consistent.            *)
(***************************************************************************)
EXTENDS Naturals, FiniteSets

CONSTANTS Harts,     \* the ids bound to the manager (at most 32 of them)
          Objs       \* the RCU protected values

ASSUME HartsFinite == IsFiniteSet(Harts) /\ Cardinality(Harts) <= 32

VARIABLES
  flags,        \* the word `flags`: [cur |-> bits 63..32, pend |-> bits 31..0]
  rcu_current,  \* CP.rcu_current
  rcu_pending,  \* CP.rcu_pending
  pending,      \* LocalRcuManager.pending, the `add` of critical_end
  pending_rec,  \* LocalRcuManager.pending_rec
  critical,     \* LocalRcuManager.critical
  pc,           \* where each hart is
  prev,         \* critical_end's local `prev`
  need,         \* critical_end's local `need_release`
  linked,       \* the values a reader can still reach
  refs,         \* the values each hart's running task holds a reference to
  released,     \* the values whose destructor has run
  late          \* history: values queued while a release cycle was being set up

cpvars    == <<rcu_current, rcu_pending>>
localvars == <<pending, pending_rec, critical>>
taskvars  == <<linked, refs>>
vars == <<flags, cpvars, localvars, pc, prev, need, taskvars, released, late>>

NoFlags == [cur |-> {}, pend |-> {}]

(* The program counter of a hart: outside a task; between the load and the
   fetch_or of critical_start; running a task; inside special_push; and the
   points of critical_end. *)
Ending == {"load", "peek", "cas", "to_pending", "to_current",
           "swap", "unlock", "free"}
PCs == {"idle", "set", "run", "push"} \cup Ending

(* LocalRcuManager.rec: set by special_push and by critical_end. *)
rec(h) == pc[h] \in Ending \cup {"push"}

Goto(h, l) == pc' = [pc EXCEPT ![h] = l]

Init ==
  /\ flags = NoFlags
  /\ rcu_current = {} /\ rcu_pending = {}
  /\ pending = [h \in Harts |-> {}]
  /\ pending_rec = [h \in Harts |-> {}]
  /\ critical = [h \in Harts |-> FALSE]
  /\ pc = [h \in Harts |-> "idle"]
  /\ prev = [h \in Harts |-> NoFlags]
  /\ need = [h \in Harts |-> FALSE]
  /\ linked = Objs
  /\ refs = [h \in Harts |-> {}]
  /\ released = {} /\ late = {}

-----------------------------------------------------------------------------
(* Entering a critical section.  run_until_idle fetched a task and calls
   LocalRcuManager::critical_start, which does nothing when the section of an
   earlier task is still open; otherwise RcuManager::critical_start loads the
   flags and sets this hart's pending bit if it is clear. *)
critical_start(h) ==
  /\ pc[h] = "idle"
  /\ critical' = [critical EXCEPT ![h] = TRUE]
  /\ Goto(h, IF critical[h] \/ h \in flags.pend THEN "run" ELSE "set")
  /\ UNCHANGED <<flags, cpvars, pending, pending_rec, prev, need, taskvars,
                 released, late>>

(* Mutation: init_id was never called, the hart sets a bit that is nobody's. *)
critical_start_or_unbound(h) ==
  /\ pc[h] = "set"
  /\ flags' = [flags EXCEPT !.pend = @ \cup {"unbound"}]
  /\ Goto(h, "run")
  /\ UNCHANGED <<cpvars, localvars, prev, need, taskvars, released, late>>

critical_start_or(h) ==
  /\ pc[h] = "set"
  /\ flags' = [flags EXCEPT !.pend = @ \cup {h}]
  /\ Goto(h, "run")
  /\ UNCHANGED <<cpvars, localvars, prev, need, taskvars, released, late>>

(* The polled task reads a protected pointer: rcu_read. *)
rcu_read(h, o) ==
  /\ pc[h] = "run" /\ o \in linked
  /\ refs' = [refs EXCEPT ![h] = @ \cup {o}]
  /\ UNCHANGED <<flags, cpvars, localvars, pc, prev, need, linked, released,
                 late>>

(* The task replaces a protected pointer and queues the old value: rcu_write
   or rcu_drop, then LocalRcuManager::push with `rec` clear. *)
rcu_drop(h, o) ==
  /\ pc[h] = "run" /\ o \in linked
  /\ linked' = linked \ {o}
  /\ pending' = [pending EXCEPT ![h] = @ \cup {o}]
  /\ Goto(h, "push")
  /\ UNCHANGED <<flags, cpvars, pending_rec, critical, prev, need, refs,
                 released, late>>

push_end(h) ==
  /\ pc[h] = "push"
  /\ Goto(h, "run")
  /\ UNCHANGED <<flags, cpvars, localvars, prev, need, taskvars, released, late>>

(* An interrupt handler queues a value while `rec` is set: special_push puts
   it into pending_rec. *)
special_push_rec(h, o) ==
  /\ rec(h) /\ o \in linked
  /\ linked' = linked \ {o}
  /\ pending_rec' = [pending_rec EXCEPT ![h] = @ \cup {o}]
  /\ UNCHANGED <<flags, cpvars, pending, critical, pc, prev, need, refs,
                 released, late>>

-----------------------------------------------------------------------------
(* The task returned from its poll, so its references are gone.  Without a
   timer tick critical_end_tick returns and the section stays open. *)
critical_end_tick_open(h) ==
  /\ pc[h] = "run"
  /\ refs' = [refs EXCEPT ![h] = {}]
  /\ Goto(h, "idle")
  /\ UNCHANGED <<flags, cpvars, localvars, prev, need, linked, released, late>>

(* LocalRcuManager::critical_end up to the call of the global manager, reached
   from critical_end_tick after a tick or because there is no task to run. *)
critical_end(h) ==
  /\ pc[h] \in {"run", "idle"}
  /\ pc[h] = "idle" => critical[h] \/ pending[h] # {}
  /\ refs' = [refs EXCEPT ![h] = {}]
  /\ critical' = [critical EXCEPT ![h] = FALSE]
  /\ pending' = [pending EXCEPT ![h] = @ \cup pending_rec[h]]
  /\ pending_rec' = [pending_rec EXCEPT ![h] = {}]
  /\ Goto(h, "load")
  /\ UNCHANGED <<flags, cpvars, prev, need, linked, released, late>>

(* RcuManager::critical_end: the first load of the flags. *)
load_flags(h) ==
  /\ pc[h] = "load"
  /\ prev' = [prev EXCEPT ![h] = flags]
  /\ Goto(h, IF h \in flags.cur \cup flags.pend THEN "peek" ELSE "to_pending")
  /\ UNCHANGED <<flags, cpvars, localvars, need, taskvars, released, late>>

(* The unlocked look at the two queues. *)
read_need_release(h) ==
  /\ pc[h] = "peek"
  /\ need' = [need EXCEPT ![h] = rcu_pending # {} \/ rcu_current # {}]
  /\ Goto(h, "cas")
  /\ UNCHANGED <<flags, cpvars, localvars, prev, taskvars, released, late>>

(* `release`: no other hart was in the current half of `prev`. *)
release(h) == prev[h].cur \ {h} = {}

(* Mutation: the release does not set its own bit as a lock. *)
next_flags_unlocked(h) ==
  IF release(h) THEN [cur |-> prev[h].pend \ {h}, pend |-> {}]
  ELSE [cur |-> prev[h].cur \ {h}, pend |-> prev[h].pend \ {h}]

(* Mutation: the harts of the pending half are forgotten instead of moved to
   the current half. *)
next_flags_forgetful(h) ==
  IF release(h) THEN [cur |-> IF need[h] THEN {h} ELSE {}, pend |-> {}]
  ELSE [cur |-> prev[h].cur \ {h}, pend |-> prev[h].pend \ {h}]

(* The word the compare_exchange of critical_end stores. *)
next_flags(h) ==
  IF release(h)
  THEN [cur  |-> (prev[h].pend \ {h}) \cup (IF need[h] THEN {h} ELSE {}),
        pend |-> {}]
  ELSE [cur |-> prev[h].cur \ {h}, pend |-> prev[h].pend \ {h}]

after_cas(h) == IF ~release(h) THEN "to_pending"
                ELSE IF need[h] THEN "swap" ELSE "to_current"

cas_flags(h) ==
  /\ pc[h] = "cas"
  /\ IF flags = prev[h]
     THEN /\ flags' = next_flags(h)
          /\ Goto(h, after_cas(h))
          /\ prev' = [prev EXCEPT ![h] = NoFlags]
          /\ need' = [need EXCEPT ![h] = FALSE]
     ELSE /\ prev' = [prev EXCEPT ![h] = flags]
          /\ Goto(h, "peek")
          /\ UNCHANGED <<flags, need>>
  /\ UNCHANGED <<cpvars, localvars, taskvars, released, late>>

(* Mutation: `add` is copied and not emptied. *)
append_pending_copy(h) ==
  /\ pc[h] = "to_pending"
  /\ rcu_pending' = rcu_pending \cup pending[h]
  /\ prev' = [prev EXCEPT ![h] = NoFlags]
  /\ Goto(h, "idle")
  /\ UNCHANGED <<flags, rcu_current, localvars, need, taskvars, released, late>>

(* Not a release: `add` goes to rcu_pending under the lock. *)
append_pending(h) ==
  /\ pc[h] = "to_pending"
  /\ rcu_pending' = rcu_pending \cup pending[h]
  /\ pending' = [pending EXCEPT ![h] = {}]
  /\ late' = IF \E g \in Harts : pc[g] = "swap"
             THEN late \cup pending[h] ELSE late
  /\ prev' = [prev EXCEPT ![h] = NoFlags]
  /\ Goto(h, "idle")
  /\ UNCHANGED <<flags, rcu_current, pending_rec, critical, need, taskvars,
                 released>>

(* A release that saw both queues empty bypasses the lock bit. *)
append_current(h) ==
  /\ pc[h] = "to_current"
  /\ rcu_current' = rcu_current \cup pending[h]
  /\ pending' = [pending EXCEPT ![h] = {}]
  /\ Goto(h, "idle")
  /\ UNCHANGED <<flags, rcu_pending, pending_rec, critical, prev, need,
                 taskvars, released, late>>

(* vec_swap(add, current) and fast_append(current, pending) under the lock. *)
swap_queues(h) ==
  /\ pc[h] = "swap"
  /\ pending' = [pending EXCEPT ![h] = rcu_current]
  /\ rcu_current' = pending[h] \cup rcu_pending
  /\ rcu_pending' = {}
  /\ Goto(h, "unlock")
  /\ UNCHANGED <<flags, pending_rec, critical, prev, need, taskvars, released,
                 late>>

(* flags.fetch_and(!mask_current). *)
unlock_flags(h) ==
  /\ pc[h] = "unlock"
  /\ flags' = [flags EXCEPT !.cur = @ \ {h}]
  /\ Goto(h, "free")
  /\ UNCHANGED <<cpvars, localvars, prev, need, taskvars, released, late>>

(* add.drain(..): the destructors run one by one. *)
release_one(h) ==
  /\ pc[h] = "free"
  /\ \E o \in pending[h] :
       /\ released' = released \cup {o}
       /\ pending' = [pending EXCEPT ![h] = @ \ {o}]
  /\ UNCHANGED <<flags, cpvars, pending_rec, critical, pc, prev, need,
                 taskvars, late>>

release_done(h) ==
  /\ pc[h] = "free" /\ pending[h] = {}
  /\ Goto(h, "idle")
  /\ UNCHANGED <<flags, cpvars, localvars, prev, need, taskvars, released, late>>

Next ==
  \E h \in Harts :
    \/ critical_start(h) \/ critical_start_or(h)
    \/ \E o \in Objs : rcu_read(h, o) \/ rcu_drop(h, o) \/ special_push_rec(h, o)
    \/ push_end(h)
    \/ critical_end_tick_open(h) \/ critical_end(h)
    \/ load_flags(h) \/ read_need_release(h) \/ cas_flags(h)
    \/ append_pending(h) \/ append_current(h)
    \/ swap_queues(h) \/ unlock_flags(h)
    \/ release_one(h) \/ release_done(h)

Spec == Init /\ [][Next]_vars

-----------------------------------------------------------------------------
Flags == [cur : SUBSET Harts, pend : SUBSET Harts]

(* Every variable of the manager and of the harts keeps its type; in
   particular only bits of bound hart ids are ever set in `flags`. *)
TypeOK ==
  /\ flags \in Flags
  /\ rcu_current \subseteq Objs /\ rcu_pending \subseteq Objs
  /\ pending \in [Harts -> SUBSET Objs]
  /\ pending_rec \in [Harts -> SUBSET Objs]
  /\ critical \in [Harts -> BOOLEAN]
  /\ pc \in [Harts -> PCs]
  /\ prev \in [Harts -> Flags]
  /\ need \in [Harts -> BOOLEAN]
  /\ linked \subseteq Objs
  /\ refs \in [Harts -> SUBSET Objs]
  /\ released \subseteq Objs /\ late \subseteq Objs

(* "The release queues are now locked, no other hart takes part in the
   release" (manager.rs:116): from the exchange that sets its own bit in the
   current half to the fetch_and that clears it, a hart is alone. *)
ReleaseExclusive ==
  \A g, h \in Harts :
    pc[g] \in {"swap", "unlock"} /\ pc[h] \in {"swap", "unlock"} => g = h

Local(h) == pending[h] \cup pending_rec[h]

(* No value is leaked and none is released twice (a leaked RcuDrop panics,
   rcu/mod.rs:40-44): a value is linked, in exactly one of the queues of the
   manager and of the harts, or released. *)
ExactlyOnce ==
  /\ \A o \in Objs : \/ o \in linked \cup rcu_current \cup rcu_pending \cup released
                     \/ \E h \in Harts : o \in Local(h)
  /\ linked \cap (rcu_current \cup rcu_pending \cup released) = {}
  /\ rcu_current \cap (rcu_pending \cup released) = {}
  /\ rcu_pending \cap released = {}
  /\ \A h \in Harts :
       /\ Local(h) \cap (linked \cup rcu_current \cup rcu_pending \cup released) = {}
       /\ pending[h] \cap pending_rec[h] = {}
       /\ \A g \in Harts \ {h} : Local(g) \cap Local(h) = {}

(* A value collected outside the set-up of a release cycle (the interval from
   the locking exchange to the swap of the queues) is destroyed only when no
   task that could have read it before its unlinking is still in its critical
   section: the grace period of manager.rs:15-16. *)
GracePeriod ==
  \A o \in released \ late : \A h \in Harts : o \notin refs[h]

(* What critical_start, critical_end and collect keep, whatever harts meet in
   them: one release at a time, no value lost or released twice, and none
   released within its grace period. *)
RcuSafe == ReleaseExclusive /\ ExactlyOnce /\ GracePeriod

(* The promise of manager.rs:15-16 without that restriction: a value some
   critical section still refers to is not destroyed. *)
ReadersProtected ==
  \A o \in released : \A h \in Harts : o \notin refs[h]
=============================================================================
