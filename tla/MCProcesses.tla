---------------------------- MODULE MCProcesses -----------------------------
(***************************************************************************)
(* What a process waits for: its children, and time.  Instances of          *)
(* ProcessTree, with initproc g and three processes of one thread each, and *)
(* of Timers.                                                               *)
(***************************************************************************)
EXTENDS ProcessShape, Naturals

CONSTANTS g, a, b, c,
          TimerTasks, TimerHarts, Delays, MaxTime

VARIABLES
  which,
  ward,   \* the process whose end is followed, chosen once
  p_life, p_parent, p_children, p_quit, p_wakers, p_fired, p_pc, p_target, p_taken,
  d_heap, d_now, d_deadline, d_tracer, d_happened, d_pc, d_notified, d_hpc, d_current

P == INSTANCE ProcessTree WITH
  life <- p_life, parent <- p_parent, children <- p_children, quit <- p_quit, wakers <- p_wakers,
  fired <- p_fired, pc <- p_pc, target <- p_target, taken <- p_taken

D == INSTANCE Timers WITH
  Tasks <- TimerTasks, Harts <- TimerHarts,
  heap <- d_heap, now <- d_now, deadline <- d_deadline, tracer <- d_tracer, happened <- d_happened,
  pc <- d_pc, notified <- d_notified, hpc <- d_hpc, current <- d_current

Single == [t \in {g, a, b, c} |-> t]

p_vars == <<p_life, p_parent, p_children, p_quit, p_wakers, p_fired, p_pc, p_target, p_taken>>

d_vars == <<d_heap, d_now, d_deadline, d_tracer, d_happened, d_pc, d_notified, d_hpc, d_current>>

(* The variables of a part that is not exercised have no value of interest. *)
POff == /\ p_life = 0 /\ p_parent = 0 /\ p_children = 0 /\ p_quit = 0 /\ p_wakers = 0
        /\ p_fired = 0 /\ p_pc = 0 /\ p_target = 0 /\ p_taken = 0

DOff == /\ d_heap = 0 /\ d_now = 0 /\ d_deadline = 0 /\ d_tracer = 0 /\ d_happened = 0
        /\ d_pc = 0 /\ d_notified = 0 /\ d_hpc = 0 /\ d_current = 0

ProcessParts == {"children", "timers"}

ProcessesInit ==
  /\ IF which = "children" THEN P!Init /\ ward \in Procs \ {initproc} ELSE POff /\ ward = 0
  /\ IF which = "timers" THEN D!Init ELSE DOff

(* Processes that are not born yet are interchangeable: they are forked in the *)
(* order a, b, c.                                                            *)
ForkedInOrder ==
  /\ p_life[b] # "unborn" => p_life[a] # "unborn"
  /\ p_life[c] # "unborn" => p_life[b] # "unborn"

ProcessesNext ==
  \/ which = "children" /\ P!Next /\ ForkedInOrder' /\ UNCHANGED d_vars
  \/ which = "timers" /\ D!Next /\ UNCHANGED p_vars

(* The fairness of the part that is exercised. *)
ChildrenFair == \A t \in Tids : WF_p_vars(which = "children" /\ P!GoesOn(t))

TimersFair ==
  /\ \A t \in TimerTasks : WF_d_vars(which = "timers" /\ D!TaskStep(t))
  /\ \A h \in TimerHarts : WF_d_vars(which = "timers" /\ (D!check_timer(h) \/ D!WakeDue(h)))
  /\ WF_d_vars(which = "timers" /\ D!Clock)

-----------------------------------------------------------------------------
(* The type invariants of the two parts. *)
ProcessesTypeOK ==
  /\ which = "children" => P!TypeOK
  /\ which = "timers" => D!TypeOK

(* ProcessTree: no child is lost, listed twice or reaped twice, and a report *)
(* that overtakes its child on the way to initproc is resolved when it comes.*)
ChildrenSafe == which = "children" => P!ChildrenSafe

(* ProcessTree: nobody sleeps in wait4 beside a zombie it waits for, unless   *)
(* somebody is about to set the event.                                       *)
NoSleepBesideZombie == which = "children" => P!NoSleepBesideZombie

(* Timers: a parked task whose deadline is to come has its timer queued, no  *)
(* entry outlives its tracer, and tracers are exact.                         *)
TimersSafe == which = "timers" => D!TimerArmed /\ D!TracerAlive

(* A process without a living parent has exited. *)
Orphaned == p_life[ward] = "exited" /\ p_life[p_parent[ward]] # "alive"
=============================================================================
