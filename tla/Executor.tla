------------------------------ MODULE Executor ------------------------------
(***************************************************************************)
(* The task queue of kernel/src/executor/mod.rs, the idle loop of kmain,    *)
(* and how harts go to sleep and are counted as asleep (local/mod.rs).      *)
(* async_task is a library: of it, the scheduling state of a task is kept.  *)
(* The mailbox and the RCU calls around a poll belong to Mailbox and Rcu.   *)
(***************************************************************************)
EXTENDS Integers, Sequences, FiniteSets

CONSTANTS Harts, Tasks, NoTask

VARIABLES
  queue,   \* TASK_QUEUE
  moved,   \* the queue has changed under a test made without its lock
  task,    \* async_task's state of every task
  pushing, \* tasks made scheduled and not yet in the queue
  pc, cur, \* where every hart is, and the task it polls
  spun,    \* spin_end is Some
  sleep,   \* HartLocal.sleep
  count,   \* SLEEP_COUNT
  todo     \* harts that try_wake_sleep_hart has still to look at

vars == <<queue, moved, task, pushing, pc, cur, spun, sleep, count, todo>>

Sleeping == {"count", "wfi", "leave"}
Waking == {"scan", "cas", "wdec"}

TypeOK ==
  /\ queue \in Seq(Tasks) /\ pushing \subseteq Tasks
  /\ moved \in [Harts -> BOOLEAN]
  /\ task \in [Tasks -> {"idle", "scheduled", "running", "rerun"}]
  /\ pc \in [Harts -> {"fetch", "test", "pop", "run", "idle", "enter", "dec"} \cup Sleeping \cup Waking]
  /\ cur \in [Harts -> Tasks \cup {NoTask}]
  /\ spun \in [Harts -> BOOLEAN] /\ sleep \in [Harts -> BOOLEAN]
  /\ count \in Int /\ todo \in [Harts -> SUBSET Harts]

Init ==
  /\ queue = <<>> /\ pushing = {} /\ moved = [h \in Harts |-> FALSE]
  /\ task = [t \in Tasks |-> "idle"]
  /\ pc = [h \in Harts |-> "fetch"] /\ cur = [h \in Harts |-> NoTask]
  /\ spun = [h \in Harts |-> FALSE] /\ sleep = [h \in Harts |-> FALSE]
  /\ count = 0 /\ todo = [h \in Harts |-> {}]

Goto(h, p) == pc' = [pc EXCEPT ![h] = p]
Stir == moved' = [h \in Harts |-> pc[h] = "test"]

-----------------------------------------------------------------------------
(* async_task: a waker schedules an idle task, and asks for another run of   *)
(* one that is being polled.  Tasks are woken by other tasks and interrupts. *)
Wake(t) ==
  \/ /\ task[t] = "idle"
     /\ task' = [task EXCEPT ![t] = "scheduled"]
     /\ pushing' = pushing \cup {t}
     /\ UNCHANGED <<queue, moved, pc, cur, spun, sleep, count, todo>>
  \/ /\ task[t] = "running"
     /\ task' = [task EXCEPT ![t] = "rerun"]
     /\ UNCHANGED <<queue, moved, pushing, pc, cur, spun, sleep, count, todo>>

(* TaskQueue::push *)
Push(t) ==
  /\ t \in pushing
  /\ pushing' = pushing \ {t}
  /\ queue' = Append(queue, t)
  /\ Stir
  /\ UNCHANGED <<task, pc, cur, spun, sleep, count, todo>>

(* fetch reads the ends of the queue without its lock: when the queue       *)
(* changes meanwhile, either answer may come out.                           *)
FetchBegin(h) ==
  /\ pc[h] = "fetch"
  /\ moved' = [moved EXCEPT ![h] = FALSE]
  /\ Goto(h, "test")
  /\ UNCHANGED <<queue, task, pushing, cur, spun, sleep, count, todo>>

FetchTest(h) ==
  /\ pc[h] = "test"
  /\ moved' = [moved EXCEPT ![h] = FALSE]
  /\ \/ (queue = <<>> \/ moved[h]) /\ Goto(h, "idle")
     \/ (queue # <<>> \/ moved[h]) /\ Goto(h, "pop")
  /\ UNCHANGED <<queue, task, pushing, cur, spun, sleep, count, todo>>

(* Mutation: the task is read before the lock is held and dropped later. *)
FetchPop_peek(h) ==
  /\ pc[h] = "pop" /\ queue # <<>>
  /\ cur' = [cur EXCEPT ![h] = Head(queue)]
  /\ task' = [task EXCEPT ![Head(queue)] = "running"]
  /\ Goto(h, "run")
  /\ spun' = [spun EXCEPT ![h] = FALSE]
  /\ Stir
  /\ UNCHANGED <<queue, pushing, sleep, count, todo>>

(* The rest of fetch, under the lock, and Runnable::run. *)
FetchPop(h) ==
  /\ pc[h] = "pop"
  /\ \/ /\ queue = <<>>
        /\ Goto(h, "idle")
        /\ UNCHANGED <<queue, moved, cur, task, spun>>
     \/ /\ queue # <<>>
        /\ cur' = [cur EXCEPT ![h] = Head(queue)]
        /\ task' = [task EXCEPT ![Head(queue)] = "running"]
        /\ queue' = Tail(queue)
        /\ Goto(h, "run")
        /\ spun' = [spun EXCEPT ![h] = FALSE]
        /\ Stir
  /\ UNCHANGED <<pushing, sleep, count, todo>>

(* Mutation: a wake during the poll is forgotten. *)
RunEnd_forget(h) ==
  /\ pc[h] = "run"
  /\ task' = [task EXCEPT ![cur[h]] = "idle"]
  /\ cur' = [cur EXCEPT ![h] = NoTask]
  /\ Goto(h, "fetch")
  /\ UNCHANGED <<queue, moved, pushing, spun, sleep, count, todo>>

(* The poll returns; a task that was woken meanwhile is scheduled again. *)
RunEnd(h) ==
  /\ pc[h] = "run"
  /\ LET again == task[cur[h]] = "rerun"
     IN  /\ task' = [task EXCEPT ![cur[h]] = IF again THEN "scheduled" ELSE "idle"]
         /\ pushing' = IF again THEN pushing \cup {cur[h]} ELSE pushing
  /\ cur' = [cur EXCEPT ![h] = NoTask]
  /\ Goto(h, "fetch")
  /\ UNCHANGED <<queue, moved, spun, sleep, count, todo>>

-----------------------------------------------------------------------------
(* kmain: nothing to run.  The hart spins for a while, and for as long as a  *)
(* timer is due; else it goes to sleep.                                      *)
IdleSpin(h) ==
  /\ pc[h] = "idle"
  /\ spun' \in {[spun EXCEPT ![h] = b] : b \in BOOLEAN}
  /\ spun[h] \/ spun'[h]
  /\ Goto(h, "fetch")
  /\ UNCHANGED <<queue, moved, task, pushing, cur, sleep, count, todo>>

IdleSleep(h) ==
  /\ pc[h] = "idle" /\ spun[h]
  /\ Goto(h, "enter")
  /\ UNCHANGED <<queue, moved, task, pushing, cur, spun, sleep, count, todo>>

enter_sleep(h) ==
  /\ pc[h] = "enter"
  /\ sleep' = [sleep EXCEPT ![h] = TRUE]
  /\ Goto(h, "count")
  /\ UNCHANGED <<queue, moved, task, pushing, cur, spun, count, todo>>

sleep_increase(h) ==
  /\ pc[h] = "count"
  /\ count' = count + 1
  /\ Goto(h, "wfi")
  /\ UNCHANGED <<queue, moved, task, pushing, cur, spun, sleep, todo>>

(* wfi ends with the timer tick: software interrupts are not enabled. *)
Woken(h) ==
  /\ pc[h] = "wfi"
  /\ Goto(h, "leave")
  /\ UNCHANGED <<queue, moved, task, pushing, cur, spun, sleep, count, todo>>

(* Mutation: the hart that was asleep always takes itself off the count. *)
leave_sleep_always(h) ==
  /\ pc[h] = "leave"
  /\ sleep' = [sleep EXCEPT ![h] = FALSE]
  /\ Goto(h, "dec")
  /\ UNCHANGED <<queue, moved, task, pushing, cur, spun, count, todo>>

(* leave_sleep: a compare-exchange, and the count if this hart won it. *)
leave_sleep(h) ==
  /\ pc[h] = "leave"
  /\ sleep' = [sleep EXCEPT ![h] = FALSE]
  /\ Goto(h, IF sleep[h] THEN "dec" ELSE "fetch")
  /\ UNCHANGED <<queue, moved, task, pushing, cur, spun, count, todo>>

sleep_decrease(h) ==
  /\ pc[h] = "dec"
  /\ count' = count - 1
  /\ Goto(h, "fetch")
  /\ UNCHANGED <<queue, moved, task, pushing, cur, spun, sleep, todo>>

-----------------------------------------------------------------------------
(* try_wake_sleep_hart, called by the task that has created another one. *)
have_sleep(h) ==
  /\ pc[h] = "run" /\ count # 0
  /\ todo' = [todo EXCEPT ![h] = Harts \ {h}]
  /\ Goto(h, "scan")
  /\ UNCHANGED <<queue, moved, task, pushing, cur, spun, sleep, count>>

ScanHart(h) ==
  /\ pc[h] = "scan"
  /\ \/ \E g \in todo[h] :
          \/ sleep[g] /\ Goto(h, "cas") /\ UNCHANGED todo
          \/ /\ ~sleep[g] /\ UNCHANGED pc
             /\ todo' = [todo EXCEPT ![h] = @ \ {g}]
     \/ todo[h] = {} /\ Goto(h, "run") /\ UNCHANGED todo
  /\ UNCHANGED <<queue, moved, task, pushing, cur, spun, sleep, count>>

ClaimHart(h) ==
  /\ pc[h] = "cas"
  /\ \E g \in todo[h] :
       /\ sleep' = [sleep EXCEPT ![g] = FALSE]
       /\ todo' = [todo EXCEPT ![h] = @ \ {g}]
       /\ Goto(h, IF sleep[g] THEN "wdec" ELSE "scan")
  /\ UNCHANGED <<queue, moved, task, pushing, cur, spun, count>>

WakerDecrease(h) ==
  /\ pc[h] = "wdec"
  /\ count' = count - 1
  /\ Goto(h, "scan")
  /\ UNCHANGED <<queue, moved, task, pushing, cur, spun, sleep, todo>>

HartStep(h) ==
  \/ FetchBegin(h) \/ FetchTest(h) \/ FetchPop(h) \/ RunEnd(h)
  \/ IdleSpin(h) \/ IdleSleep(h) \/ enter_sleep(h) \/ sleep_increase(h)
  \/ Woken(h) \/ leave_sleep(h) \/ sleep_decrease(h)
  \/ ScanHart(h) \/ ClaimHart(h) \/ WakerDecrease(h)

Next ==
  \/ \E t \in Tasks : Wake(t) \/ Push(t)
  \/ \E h \in Harts : HartStep(h) \/ have_sleep(h)

(* Harts do not stop, polls end, ticks keep coming. *)
Fairness ==
  /\ \A h \in Harts : WF_vars(HartStep(h)) /\ SF_vars(RunEnd(h))
  /\ \A t \in Tasks : WF_vars(Push(t))

Spec == Init /\ [][Next]_vars /\ Fairness

-----------------------------------------------------------------------------
AtPc(P) == {h \in Harts : pc[h] \in P}

(* SLEEP_COUNT is the number of raised sleep flags, up to the harts that    *)
(* have changed a flag and not yet the count: sleeper and waker never both  *)
(* take the same sleep off.  (It may be below zero, that is wrap, for a     *)
(* moment: the waker may claim a flag whose owner has not counted it yet.)  *)
SleepCountExact ==
  count = Cardinality({h \in Harts : sleep[h]})
          - Cardinality(AtPc({"count"})) + Cardinality(AtPc({"dec", "wdec"}))

(* A task is polled by one hart at a time, and a scheduled one is in exactly *)
(* one place: about to be pushed, in the queue once, or being polled.        *)
TaskHeldOnce ==
  \A t \in Tasks :
    LET places == (IF t \in pushing THEN 1 ELSE 0)
                  + Cardinality({i \in 1..Len(queue) : queue[i] = t})
                  + Cardinality({h \in Harts : cur[h] = t})
    IN  places = IF task[t] = "idle" THEN 0 ELSE 1

(* The count of sleeping harts is exact, and no task is polled or queued     *)
(* twice or lost.                                                            *)
ExecutorSafe == SleepCountExact /\ TaskHeldOnce

(* A task that was woken is polled, even one woken during its own poll and   *)
(* even when every hart is asleep.                                           *)
EveryWokenTaskRuns ==
  \A t \in Tasks : task[t] \in {"scheduled", "rerun"} ~> task[t] = "running"
=============================================================================
