------------------------------ MODULE MCEvents ------------------------------
(***************************************************************************)
(* What wakes whom: the event bus of a process, the executor and its idle   *)
(* harts, and what processes wait for (MCProcesses).  They share nothing    *)
(* here, and a behaviour exercises one of them.                             *)
(***************************************************************************)
EXTENDS EventBus, MCProcesses

CONSTANTS Harts, Tasks, NoTask, watched

(* Threads are interchangeable in EventBus, and tasks in Executor and in     *)
(* Timers: what holds eventually of the watched one does of all.             *)
ASSUME WatchedAssumption == watched \in Threads \cap Tasks \cap TimerTasks

VARIABLES
  x_queue, x_moved, x_task, x_pushing, x_pc, x_cur, x_spun, x_sleep, x_count, x_todo

X == INSTANCE Executor WITH
  queue <- x_queue, moved <- x_moved, task <- x_task, pushing <- x_pushing, pc <- x_pc,
  cur <- x_cur, spun <- x_spun, sleep <- x_sleep, count <- x_count, todo <- x_todo

x_vars == <<x_queue, x_moved, x_task, x_pushing, x_pc, x_cur, x_spun, x_sleep, x_count, x_todo>>

(* The variables of a part that is not exercised have no value of interest. *)
XOff == /\ x_queue = 0 /\ x_moved = 0 /\ x_task = 0 /\ x_pushing = 0 /\ x_pc = 0
        /\ x_cur = 0 /\ x_spun = 0 /\ x_sleep = 0 /\ x_count = 0 /\ x_todo = 0

EventsInit ==
  /\ which \in {"bus", "executor"} \cup ProcessParts
  /\ Init
  /\ IF which = "executor" THEN X!Init ELSE XOff
  /\ ProcessesInit

EventsNext ==
  \/ which = "bus" /\ Next /\ UNCHANGED <<which, ward, x_vars, p_vars, d_vars>>
  \/ which = "executor" /\ X!Next /\ UNCHANGED <<which, ward, vars, p_vars, d_vars>>
  \/ ProcessesNext /\ UNCHANGED <<which, ward, vars, x_vars>>

(* The fairness of the part that is exercised. *)
BusFair ==
  \A o \in Actors : WF_vars(which = "bus" /\ (BusStep(o) \/ (o \in Threads /\ WaitStep(o))))

XFair ==
  /\ \A h \in Harts : /\ WF_x_vars(which = "executor" /\ X!HartStep(h))
                      /\ SF_x_vars(which = "executor" /\ X!RunEnd(h))
  /\ \A t \in Tasks : WF_x_vars(which = "executor" /\ X!Push(t))

EventsSpec ==
  /\ EventsInit /\ [][EventsNext]_<<which, ward, vars, x_vars, p_vars, d_vars>>
  /\ BusFair /\ XFair /\ ChildrenFair /\ TimersFair

(* become_zomble and kill set events of the bus, wait4 clears. *)
SetsAndClears == {<<{}, {e}>> : e \in Events} \cup {<<{e}, {}>> : e \in Events}

-----------------------------------------------------------------------------
(* The type invariants of the parts. *)
EventsTypeOK ==
  /\ TypeOK /\ ProcessesTypeOK
  /\ which = "executor" => X!TypeOK

(* Executor: SLEEP_COUNT follows the sleep flags, and a scheduled task is in *)
(* one place and polled by one hart.                                         *)
ExecutorSafe == which = "executor" => X!ExecutorSafe

(* Somebody is to be woken: the watched thread sleeps while an event of its  *)
(* mask is set, or the watched task is scheduled, or sleeps with a deadline, *)
(* or the ward is a zombie without a parent.                                 *)
Asleep ==
  CASE which = "bus" -> pc[watched] = "parked" /\ mask[watched] \cap event # {}
    [] which = "executor" -> x_task[watched] \in {"scheduled", "rerun"}
    [] which = "children" -> Orphaned
    [] which = "timers" -> d_pc[watched] \in D!Waits /\ d_deadline[watched] # D!Forever
    [] OTHER -> FALSE

(* The thread runs, the task is polled, the wait is over, or initproc has    *)
(* reaped the ward.                                                          *)
Served ==
  CASE which = "bus" -> pc[watched] # "parked"
    [] which = "executor" -> x_task[watched] = "running"
    [] which = "children" -> p_life[ward] = "reaped"
    [] which = "timers" -> d_pc[watched] = "out"
    [] OTHER -> TRUE

(* EventBus: a thread asleep while an event it waits for is set runs again.  *)
(* Executor: a woken task is polled, also when every hart sleeps.            *)
(* ProcessTree: every orphan that exits is reaped by initproc.  Timers: a    *)
(* wait with a deadline ends.                                                *)
EveryoneWoken == Asleep ~> Served
=============================================================================
