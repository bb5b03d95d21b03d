------------------------------ MODULE HartEnv -------------------------------
(***************************************************************************)
(* AlwaysLocal and the task switch (kernel/src/local/always_local.rs,       *)
(* local/mod.rs) with the guards of user/mod.rs.  AutoSie and AutoSum count *)
(* in the AlwaysLocal of the running task and may be held across an await,  *)
(* so a task takes them to whichever hart polls it next; NativeAutoSie is   *)
(* a saved bit on the stack of one poll.  A hart may be interrupted         *)
(* whenever its SIE bit is set.                                             *)
(***************************************************************************)
EXTENDS Integers

CONSTANTS
  Harts, Tasks,
  MaxNest     \* bound on the guards of one kind that a task holds

VARIABLES
  env,        \* AlwaysLocal of every task, and of every hart when it runs none
  pc,         \* where every hart is: running an environment or changing it
  now, next,  \* the environment in use (local_now), and the one to come
  open,       \* open_intrrupt of the switch in progress
  native,     \* what the NativeAutoSie on the stack has saved
  sie, sum    \* the two bits of sstatus

vars == <<env, pc, now, next, open, native, sie, sum>>

Envs == Tasks \cup Harts
Switching == {"env", "swap", "open"}

TypeOK ==
  /\ env \in [Envs -> [sie : 0..MaxNest, sum : 0..MaxNest]]
  /\ pc \in [Harts -> {"run", "close"} \cup Switching]
  /\ now \in [Harts -> Envs] /\ next \in [Harts -> Envs]
  /\ open \in [Harts -> BOOLEAN]
  /\ native \in [Harts -> {"none", "on", "off"}]
  /\ sie \in [Harts -> BOOLEAN] /\ sum \in [Harts -> BOOLEAN]

Init ==
  /\ env = [e \in Envs |-> [sie |-> 0, sum |-> 0]]
  /\ pc = [h \in Harts |-> "run"]
  /\ now = [h \in Harts |-> h] /\ next = [h \in Harts |-> h]
  /\ open = [h \in Harts |-> FALSE]
  /\ native = [h \in Harts |-> "none"]
  /\ sie = [h \in Harts |-> TRUE] /\ sum = [h \in Harts |-> FALSE]

Set(f, h, v) == f' = [f EXCEPT ![h] = v]
Running(h) == pc[h] = "run" /\ native[h] = "none"

-----------------------------------------------------------------------------
(* enter_task_switch and leave_task_switch, and switch_kernel_task both ways. *)
SwitchBegin(h, e) ==
  /\ Running(h)
  /\ IF now[h] = h THEN e \in Tasks /\ \A g \in Harts : now[g] # e /\ next[g] # e
                   ELSE e = h
  /\ Set(next, h, e) /\ Set(pc, h, "close")
  /\ UNCHANGED <<env, now, open, native, sie, sum>>

(* Mutation: the counter of the new environment decides. *)
SwitchClose_new(h) ==
  /\ pc[h] = "close"
  /\ Set(sie, h, sie[h] /\ env[next[h]].sie # 0)
  /\ Set(pc, h, "env")
  /\ UNCHANGED <<env, now, next, open, native, sum>>

SwitchClose(h) ==
  /\ pc[h] = "close"
  /\ Set(sie, h, sie[h] /\ env[now[h]].sie # 0)
  /\ Set(pc, h, "env")
  /\ UNCHANGED <<env, now, next, open, native, sum>>

(* Mutation: the SUM bit is only ever set for the new environment. *)
env_change_set_only(h) ==
  /\ pc[h] = "env"
  /\ Set(sum, h, sum[h] \/ env[next[h]].sum > 0)
  /\ Set(open, h, env[next[h]].sie = 0)
  /\ Set(pc, h, "swap")
  /\ UNCHANGED <<env, now, next, native, sie>>

env_change(h) ==
  LET old == env[now[h]].sum > 0
      new == env[next[h]].sum > 0
  IN  /\ pc[h] = "env"
      /\ Set(sum, h, IF old # new THEN new ELSE sum[h])
      /\ Set(open, h, env[next[h]].sie = 0)
      /\ Set(pc, h, "swap")
      /\ UNCHANGED <<env, now, next, native, sie>>

SwitchSwap(h) ==
  /\ pc[h] = "swap"
  /\ Set(now, h, next[h]) /\ Set(pc, h, "open")
  /\ UNCHANGED <<env, next, open, native, sie, sum>>

SwitchOpen(h) ==
  /\ pc[h] = "open"
  /\ Set(sie, h, sie[h] \/ open[h])
  /\ Set(open, h, FALSE) /\ Set(pc, h, "run")
  /\ UNCHANGED <<env, now, next, native, sum>>

-----------------------------------------------------------------------------
CountSie(h, d) == env' = [env EXCEPT ![now[h]].sie = @ + d]
CountSum(h, d) == env' = [env EXCEPT ![now[h]].sum = @ + d]

(* AutoSie: the bit is cleared by the first guard and set by the last. *)
sie_inc(h) ==
  /\ Running(h) /\ now[h] \in Tasks /\ env[now[h]].sie < MaxNest
  /\ Set(sie, h, sie[h] /\ env[now[h]].sie # 0)
  /\ CountSie(h, 1)
  /\ UNCHANGED <<pc, now, next, open, native, sum>>

(* Mutation: every guard that goes sets the bit. *)
sie_dec_always(h) ==
  /\ Running(h) /\ env[now[h]].sie # 0
  /\ Set(sie, h, TRUE)
  /\ CountSie(h, -1)
  /\ UNCHANGED <<pc, now, next, open, native, sum>>

sie_dec(h) ==
  /\ Running(h) /\ env[now[h]].sie # 0
  /\ Set(sie, h, sie[h] \/ env[now[h]].sie = 1)
  /\ CountSie(h, -1)
  /\ UNCHANGED <<pc, now, next, open, native, sum>>

(* AutoSum, the same with the bit the other way round. *)
sum_inc(h) ==
  /\ Running(h) /\ now[h] \in Tasks /\ env[now[h]].sum < MaxNest
  /\ Set(sum, h, sum[h] \/ env[now[h]].sum = 0)
  /\ CountSum(h, 1)
  /\ UNCHANGED <<pc, now, next, open, native, sie>>

sum_dec(h) ==
  /\ Running(h) /\ env[now[h]].sum # 0
  /\ Set(sum, h, sum[h] /\ env[now[h]].sum # 1)
  /\ CountSum(h, -1)
  /\ UNCHANGED <<pc, now, next, open, native, sie>>

(* NativeAutoSie::new and its Drop: no await in between. *)
NativeAutoSie(h) ==
  /\ Running(h)
  /\ Set(native, h, IF sie[h] THEN "on" ELSE "off")
  /\ Set(sie, h, FALSE)
  /\ UNCHANGED <<env, pc, now, next, open, sum>>

NativeAutoSieDrop(h) ==
  /\ native[h] # "none"
  /\ Set(sie, h, sie[h] \/ native[h] = "on")
  /\ Set(native, h, "none")
  /\ UNCHANGED <<env, pc, now, next, open, sum>>

Next ==
  \E h \in Harts :
    \/ \E e \in Envs : SwitchBegin(h, e)
    \/ SwitchClose(h) \/ env_change(h) \/ SwitchSwap(h) \/ SwitchOpen(h)
    \/ sie_inc(h) \/ sie_dec(h) \/ sum_inc(h) \/ sum_dec(h)
    \/ NativeAutoSie(h) \/ NativeAutoSieDrop(h)

Spec == Init /\ [][Next]_vars

-----------------------------------------------------------------------------
(* A hart that can be interrupted is not between two environments, and the  *)
(* one it runs holds no AutoSie: the handler, which uses always_local and   *)
(* the locks taken with interrupts off, never lands in the middle of either.*)
InterruptsSafe ==
  \A h \in Harts : sie[h] => pc[h] \notin Switching /\ env[now[h]].sie = 0

(* Running code has the interrupt and user-access bits that its guards ask  *)
(* for, also after an await that moved it to a hart where the bits differed.*)
BitsFollowTask ==
  \A h \in Harts : Running(h) =>
    /\ sie[h] = (env[now[h]].sie = 0)
    /\ sum[h] = (env[now[h]].sum > 0)

(* A hart that can be interrupted is in one whole environment, and its bits *)
(* are those the running task's guards ask for.                             *)
HartEnvSafe == InterruptsSafe /\ BitsFollowTask
=============================================================================
