------------------------------- MODULE Timers -------------------------------
(***************************************************************************)
(* The sleep queue and the TimeoutFuture of kernel/src/timer/sleep.rs.  A   *)
(* task polls a future of its own with a deadline; the queue is a MaxHeap   *)
(* of deadlines and wakers under one lock, and the tick of any hart pops    *)
(* what is due.  Tests made without the lock are steps of their own.  The   *)
(* tracer of a future is the word the heap writes its place to.             *)
(***************************************************************************)
EXTENDS MaxHeap, FiniteSets

CONSTANTS
  Tasks, Harts,
  Delays,    \* how far away a deadline may be
  MaxTime    \* bound on the clock

Forever == MaxTime + 1   \* SleepQueue::ignore

VARIABLES
  heap,      \* SLEEP_QUEUE; heap.at[t] is what the tracer of t shows
  now,       \* timer::now
  deadline,  \* TimeoutFuture.timeout
  tracer,    \* TimeoutFuture.tracer is Some
  happened,  \* the inner future would return Ready
  pc, notified,
  hpc, current  \* check_timer on each hart, and its local current

vars == <<heap, now, deadline, tracer, happened, pc, notified, hpc, current>>

Waits == {"poll", "late", "arm", "park", "parked"}

TypeOK ==
  /\ now \in 0..MaxTime /\ deadline \in [Tasks -> 0..Forever]
  /\ tracer \in [Tasks -> BOOLEAN] /\ happened \in [Tasks -> BOOLEAN]
  /\ pc \in [Tasks -> Waits \cup {"out", "detach", "remove"}]
  /\ notified \in [Tasks -> BOOLEAN]
  /\ hpc \in [Harts -> {"out", "check"}] /\ current \in [Harts -> 0..MaxTime]
  /\ heap.at \in [Tasks -> 0..Cardinality(Tasks)]

Init ==
  /\ heap = [data |-> <<>>, at |-> [t \in Tasks |-> 0]]
  /\ now = 0
  /\ deadline = [t \in Tasks |-> 0] /\ tracer = [t \in Tasks |-> FALSE]
  /\ happened = [t \in Tasks |-> FALSE]
  /\ pc = [t \in Tasks |-> "out"] /\ notified = [t \in Tasks |-> FALSE]
  /\ hpc = [h \in Harts |-> "out"] /\ current = [h \in Harts |-> 0]

Goto(t, p) == pc' = [pc EXCEPT ![t] = p]

-----------------------------------------------------------------------------
(* TimeoutFuture::new and the first poll. *)
NewTimeout(t, d) ==
  /\ pc[t] = "out" /\ d <= Forever
  /\ deadline' = [deadline EXCEPT ![t] = d]
  /\ happened' = [happened EXCEPT ![t] = FALSE]
  /\ Goto(t, "poll")
  /\ UNCHANGED <<heap, now, tracer, notified, hpc, current>>

PollInner(t) ==
  /\ pc[t] = "poll"
  /\ Goto(t, IF happened[t] THEN "detach" ELSE "late")
  /\ UNCHANGED <<heap, now, deadline, tracer, happened, notified, hpc, current>>

(* Mutation: the deadline itself is still too early. *)
PollDeadline_strict(t) ==
  /\ pc[t] = "late"
  /\ Goto(t, IF now > deadline[t] THEN "detach" ELSE IF tracer[t] THEN "park" ELSE "arm")
  /\ UNCHANGED <<heap, now, deadline, tracer, happened, notified, hpc, current>>

(* The deadline is looked at once the inner future is pending. *)
PollDeadline(t) ==
  /\ pc[t] = "late"
  /\ Goto(t, IF now >= deadline[t] THEN "detach" ELSE IF tracer[t] THEN "park" ELSE "arm")
  /\ UNCHANGED <<heap, now, deadline, tracer, happened, notified, hpc, current>>

(* push_timer, the first time only; deadlines without end are not queued. *)
push_timer(t) ==
  /\ pc[t] = "arm"
  /\ tracer' = [tracer EXCEPT ![t] = TRUE]
  /\ heap' = IF deadline[t] = Forever THEN heap ELSE push(heap, [key |-> deadline[t], id |-> t])
  /\ Goto(t, "park")
  /\ UNCHANGED <<now, deadline, happened, notified, hpc, current>>

(* The executor parks a task that returned Pending, unless it was woken. *)
Park(t) ==
  /\ pc[t] = "park"
  /\ Goto(t, IF notified[t] THEN "poll" ELSE "parked")
  /\ notified' = [notified EXCEPT ![t] = FALSE]
  /\ UNCHANGED <<heap, now, deadline, tracer, happened, hpc, current>>

(* The future that waits is dropped, with the one it belongs to. *)
DropFuture(t) ==
  /\ pc[t] = "parked"
  /\ Goto(t, "detach")
  /\ UNCHANGED <<heap, now, deadline, tracer, happened, notified, hpc, current>>

(* The future is over: its locals are gone. *)
Leave(t) ==
  /\ Goto(t, "out")
  /\ tracer' = [tracer EXCEPT ![t] = FALSE]
  /\ deadline' = [deadline EXCEPT ![t] = 0] /\ happened' = [happened EXCEPT ![t] = FALSE]
  /\ notified' = [notified EXCEPT ![t] = FALSE]

(* Mutation: the tracer is dropped and its entry stays in the queue. *)
deatch_timer_drop_only(t) ==
  /\ pc[t] = "detach"
  /\ Leave(t)
  /\ UNCHANGED <<heap, now, hpc, current>>

(* deatch_timer and the test of pop_timer outside the lock. *)
deatch_timer(t) ==
  /\ pc[t] = "detach"
  /\ IF tracer[t] /\ heap.at[t] # 0
       THEN Goto(t, "remove") /\ UNCHANGED <<deadline, tracer, happened, notified>>
       ELSE Leave(t)
  /\ UNCHANGED <<heap, now, hpc, current>>

(* pop_timer under the lock: a tick may have been faster. *)
pop_timer(t) ==
  /\ pc[t] = "remove"
  /\ heap' = IF heap.at[t] = 0 THEN heap ELSE remove_idx(heap, heap.at[t])
  /\ Leave(t)
  /\ UNCHANGED <<now, hpc, current>>

-----------------------------------------------------------------------------
Wake(W) ==
  /\ pc' = [t \in Tasks |-> IF t \in W /\ pc[t] = "parked" THEN "poll" ELSE pc[t]]
  /\ notified' = [t \in Tasks |-> notified[t] \/ (t \in W /\ pc[t] \in Waits \ {"parked"})]

(* What the inner future waits for happens, and wakes the task. *)
InnerReady(t) ==
  /\ pc[t] \in Waits /\ ~happened[t]
  /\ happened' = [happened EXCEPT ![t] = TRUE]
  /\ Wake({t})
  /\ UNCHANGED <<heap, now, deadline, tracer, hpc, current>>

(* check_timer: an empty queue is left alone, else the time is read. *)
check_timer(h) ==
  /\ hpc[h] = "out" /\ heap.data # <<>>
  /\ current' = [current EXCEPT ![h] = now]
  /\ hpc' = [hpc EXCEPT ![h] = "check"]
  /\ UNCHANGED <<heap, now, deadline, tracer, happened, pc, notified>>

(* Mutation: a timer that is due at the next instant is popped as well. *)
Due_early(s, c) == s.data # <<>> /\ s.data[1].key <= c + 1

Due(s, c) == s.data # <<>> /\ s.data[1].key <= c

RECURSIVE PopDue(_, _)
PopDue(s, c) == IF Due(s, c) THEN PopDue(pop(s), c) ELSE s

(* The loop of SleepQueue::check_timer, all under the lock. *)
WakeDue(h) ==
  /\ hpc[h] = "check"
  /\ heap' = PopDue(heap, current[h])
  /\ Wake({t \in Tasks : heap.at[t] # 0 /\ heap'.at[t] = 0})
  /\ hpc' = [hpc EXCEPT ![h] = "out"]
  /\ current' = [current EXCEPT ![h] = 0]
  /\ UNCHANGED <<now, deadline, tracer, happened>>

Clock ==
  /\ now < MaxTime
  /\ now' = now + 1
  /\ UNCHANGED <<heap, deadline, tracer, happened, pc, notified, hpc, current>>

TaskStep(t) ==
  \/ PollInner(t) \/ PollDeadline(t) \/ push_timer(t) \/ Park(t) \/ deatch_timer(t) \/ pop_timer(t)

Next ==
  \/ Clock
  \/ \E t \in Tasks : TaskStep(t) \/ InnerReady(t) \/ DropFuture(t) \/ NewTimeout(t, Forever)
                      \/ \E d \in Delays : now + d <= MaxTime /\ NewTimeout(t, now + d)
  \/ \E h \in Harts : check_timer(h) \/ WakeDue(h)

(* Tasks that can run are run, time passes, and every hart keeps ticking. *)
Fairness ==
  /\ \A t \in Tasks : WF_vars(TaskStep(t))
  /\ \A h \in Harts : WF_vars(check_timer(h) \/ WakeDue(h))
  /\ WF_vars(Clock)

Spec == Init /\ [][Next]_vars /\ Fairness

-----------------------------------------------------------------------------
(* A parked task whose deadline is still to come has its timer in the queue: *)
(* nothing pops it early, and it is not forgotten between poll and push.     *)
TimerArmed ==
  \A t \in Tasks : pc[t] = "parked" /\ deadline[t] # Forever => heap.at[t] # 0

(* The heap holds no pointer to the tracer of a future that is gone, and    *)
(* every tracer shows the place of its entry: the debug_assert in the Drop  *)
(* of TimerTracer.                                                          *)
TracerAlive == Traced(heap) /\ \A t \in Tasks : heap.at[t] # 0 => tracer[t]

(* A wait with a deadline ends, whether or not its event happens.           *)
EveryTimeoutEnds ==
  \A t \in Tasks : pc[t] \in Waits /\ deadline[t] # Forever ~> pc[t] = "out"
=============================================================================
