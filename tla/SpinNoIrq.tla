----------------------------- MODULE SpinNoIrq ------------------------------
(***************************************************************************)
(* SpinNoIrqLock: the test-and-set lock SpinMutex (ftl-util/src/sync/       *)
(* spin_mutex.rs) with the support SpinNoIrq (kernel/src/sync/mod.rs),      *)
(* whose FlagsGuard switches the interrupts of the hart off and restores    *)
(* them.  A hart runs a thread, or an interrupt handler on top of it; both  *)
(* take locks, nested in one order of the locks (the handler of the timer   *)
(* takes SLEEP_QUEUE and, waking, TASK_QUEUE).  Guards are dropped in the   *)
(* reverse order of their creation, as scopes end.                          *)
(***************************************************************************)
EXTENDS Naturals, Sequences

CONSTANTS Harts, NLocks

Locks == 1..NLocks   \* a lock is taken only above the ones already held
None == [lock |-> 0, saved |-> FALSE, at |-> "none"]

VARIABLES
  lock,   \* AtomicBool of each lock
  sie,    \* sstatus.sie of each hart
  irq,    \* HartLocal.interrupt: the hart is in the handler
  op,     \* the call in progress, for the thread and for the handler
  guards  \* the guards alive on the hart: the lock, FlagsGuard.0, the context

vars == <<lock, sie, irq, op, guards>>

Contexts == {"thread", "irq"}

Calls == [lock : 0..NLocks, saved : BOOLEAN,
          at : {"none", "spin", "cas", "trybefore", "trycas", "restore"}]

TypeOK ==
  /\ lock \in [Locks -> BOOLEAN] /\ sie \in [Harts -> BOOLEAN] /\ irq \in [Harts -> BOOLEAN]
  /\ op \in [Harts -> [Contexts -> Calls]]
  /\ \A h \in Harts : guards[h] \in Seq([lock : Locks, saved : BOOLEAN, ctx : Contexts])

Init ==
  /\ lock = [l \in Locks |-> FALSE]
  /\ sie = [h \in Harts |-> TRUE] /\ irq = [h \in Harts |-> FALSE]
  /\ op = [h \in Harts |-> [c \in Contexts |-> None]]
  /\ guards = [h \in Harts |-> <<>>]

Ctx(h) == IF irq[h] THEN "irq" ELSE "thread"
Call(h) == op[h][Ctx(h)]
At(h, p) == op' = [op EXCEPT ![h][Ctx(h)].at = p]
Top(h) == guards[h][Len(guards[h])]
Own(h) == {i \in DOMAIN guards[h] : guards[h][i].ctx = Ctx(h)}

(* What the context may ask for next: a lock above those it has itself. *)
MayTake(h, l) == Call(h).at = "none" /\ \A i \in Own(h) : guards[h][i].lock < l

(* FlagsGuard::no_irq_region, disable_and_store. *)
before_lock(h, l, p) ==
  /\ op' = [op EXCEPT ![h][Ctx(h)] = [lock |-> l, saved |-> sie[h], at |-> p]]
  /\ sie' = [sie EXCEPT ![h] = FALSE]

(* Mutation: the drop of a nested guard enables interrupts regardless. *)
restore_always(h, saved) == sie' = [sie EXCEPT ![h] = TRUE]

(* Drop of FlagsGuard: interrupt::restore. *)
restore(h, saved) == sie' = [sie EXCEPT ![h] = @ \/ saved]

MakeGuard(h) ==
  /\ lock' = [lock EXCEPT ![Call(h).lock] = TRUE]
  /\ guards' = [guards EXCEPT ![h] =
                  Append(@, [lock |-> Call(h).lock, saved |-> Call(h).saved, ctx |-> Ctx(h)])]
  /\ op' = [op EXCEPT ![h][Ctx(h)] = None]

-----------------------------------------------------------------------------
StartLock(h, l) ==
  /\ MayTake(h, l)
  /\ before_lock(h, l, "spin")
  /\ UNCHANGED <<lock, irq, guards>>

wait_unlock(h) ==
  /\ Call(h).at = "spin" /\ ~lock[Call(h).lock]
  /\ At(h, "cas")
  /\ UNCHANGED <<lock, sie, irq, guards>>

(* Mutation: the lock that looked free is stored to, not exchanged. *)
CompareExchange_store(h) ==
  /\ Call(h).at = "cas"
  /\ MakeGuard(h)
  /\ UNCHANGED <<sie, irq>>

(* The loop of lock ends with a guard or waits again. *)
CompareExchange(h) ==
  /\ Call(h).at = "cas"
  /\ IF lock[Call(h).lock]
       THEN At(h, "spin") /\ UNCHANGED <<lock, guards>>
       ELSE MakeGuard(h)
  /\ UNCHANGED <<sie, irq>>

(* try_lock looks at the lock before it switches the interrupts off. *)
TryLoad(h, l) ==
  /\ MayTake(h, l) /\ ~lock[l]
  /\ op' = [op EXCEPT ![h][Ctx(h)] = [lock |-> l, saved |-> FALSE, at |-> "trybefore"]]
  /\ UNCHANGED <<lock, sie, irq, guards>>

TryBefore(h) ==
  /\ Call(h).at = "trybefore"
  /\ before_lock(h, Call(h).lock, "trycas")
  /\ UNCHANGED <<lock, irq, guards>>

(* Mutation: the failing path forgets the guard of the interrupts. *)
TryCas_forget(h) ==
  /\ Call(h).at = "trycas"
  /\ IF lock[Call(h).lock]
       THEN /\ op' = [op EXCEPT ![h][Ctx(h)] = None]
            /\ UNCHANGED <<lock, guards, sie>>
       ELSE MakeGuard(h) /\ UNCHANGED sie
  /\ UNCHANGED irq

(* A failed exchange restores the interrupts and gives None. *)
TryCas(h) ==
  /\ Call(h).at = "trycas"
  /\ IF lock[Call(h).lock]
       THEN /\ restore(h, Call(h).saved)
            /\ op' = [op EXCEPT ![h][Ctx(h)] = None]
            /\ UNCHANGED <<lock, guards>>
       ELSE MakeGuard(h) /\ UNCHANGED sie
  /\ UNCHANGED irq

(* Drop of MutexGuard: the store, and then the drop of its field.          *)
DropGuard(h) ==
  /\ Call(h).at = "none" /\ Own(h) # {}
  /\ lock' = [lock EXCEPT ![Top(h).lock] = FALSE]
  /\ op' = [op EXCEPT ![h][Ctx(h)] = [lock |-> 0, saved |-> Top(h).saved, at |-> "restore"]]
  /\ guards' = [guards EXCEPT ![h] = SubSeq(@, 1, Len(@) - 1)]
  /\ UNCHANGED <<sie, irq>>

DropFlags(h) ==
  /\ Call(h).at = "restore"
  /\ restore(h, Call(h).saved)
  /\ op' = [op EXCEPT ![h][Ctx(h)] = None]
  /\ UNCHANGED <<lock, irq, guards>>

-----------------------------------------------------------------------------
(* The hart takes an interrupt where its flag allows it, with the flag off  *)
(* in the handler, and returns from it with the flag on again.              *)
Interrupt(h) ==
  /\ sie[h] /\ ~irq[h]
  /\ irq' = [irq EXCEPT ![h] = TRUE] /\ sie' = [sie EXCEPT ![h] = FALSE]
  /\ UNCHANGED <<lock, op, guards>>

ReturnFromInterrupt(h) ==
  /\ irq[h] /\ Call(h).at = "none" /\ Own(h) = {}
  /\ irq' = [irq EXCEPT ![h] = FALSE] /\ sie' = [sie EXCEPT ![h] = TRUE]
  /\ UNCHANGED <<lock, op, guards>>

Next == \E h \in Harts :
  \/ \E l \in Locks : StartLock(h, l) \/ TryLoad(h, l)
  \/ wait_unlock(h) \/ CompareExchange(h) \/ TryBefore(h) \/ TryCas(h)
  \/ DropGuard(h) \/ DropFlags(h) \/ Interrupt(h) \/ ReturnFromInterrupt(h)

Spec == Init /\ [][Next]_vars

-----------------------------------------------------------------------------
(* The handler never finds a lock held by the thread it interrupted: it     *)
(* would spin on it for ever, with the thread unable to run.                *)
HandlerNeverSelfLocks ==
  \A h \in Harts : irq[h] => \A i \in DOMAIN guards[h] : guards[h][i].ctx = "irq"

(* A lock is taken exactly when a guard of it is alive, and then one guard, *)
(* on all harts and in all contexts.                                        *)
OneGuard ==
  \A l \in Locks :
    /\ lock[l] <=> \E h \in Harts : \E i \in DOMAIN guards[h] : guards[h][i].lock = l
    /\ \A h, g \in Harts : \A i \in DOMAIN guards[h], j \in DOMAIN guards[g] :
         guards[h][i].lock = l /\ guards[g][j].lock = l => h = g /\ i = j

(* The flag comes back as it was: a thread without guards and calls runs    *)
(* with interrupts on, so that no tick is lost for good.                    *)
FlagsRestored ==
  \A h \in Harts : ~irq[h] /\ guards[h] = <<>> /\ Call(h).at \in {"none", "trybefore"} => sie[h]
=============================================================================
