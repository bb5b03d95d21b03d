------------------------------ MODULE MCHarts -------------------------------
(***************************************************************************)
(* What harts do without sleeping: RCU sections, the spinning locks, the    *)
(* change of environment, the mail between harts, the heap the timers are   *)
(* kept in, and the memory that processes, one on each hart, share after    *)
(* fork.  They share nothing, and a behaviour exercises one of them.        *)
(***************************************************************************)
EXTENDS Rcu, TLC

CONSTANTS MaxSeq,   \* writes to the data of the sequence lock
          IrqHarts, NLocks,
          Tasks, MaxNest,                  \* environments
          Changers, Vas, MAX_SPEC_SFENCE,  \* mail
          MaxLen, Keys,                    \* heap
          Nothing                          \* no page

VARIABLES
  which,
  q_locked, q_pending, q_tail, q_next, q_nlocked, q_qval, q_nxt, q_pc,
  s_seq, s_d1, s_d2, s_my, s_v1, s_v2, s_since, s_try, s_pc,
  n_lock, n_sie, n_irq, n_op, n_guards,
  e_env, e_pc, e_now, e_next, e_open, e_native, e_sie, e_sum,
  m_stale, m_icache, m_mailbox, m_local, m_pc, m_work,
  h_heap, h_keys,
  c_alive, c_pte, c_sc, c_count, c_free, c_data, c_perm, c_predict, c_parent, c_job,
  c_panicked, c_calls, c_mem,
  g_proc, g_writer, g_box, g_tsm, g_pc, g_sig, g_frames, g_event, g_sends, g_calls,
  g_settled, g_raw, g_killed, g_execed

Q == INSTANCE QSpinLock WITH
  locked <- q_locked, pending <- q_pending, tail <- q_tail, next <- q_next,
  nlocked <- q_nlocked, qval <- q_qval, nxt <- q_nxt, pc <- q_pc

S == INSTANCE SeqMutex WITH
  seq <- s_seq, d1 <- s_d1, d2 <- s_d2, my <- s_my, v1 <- s_v1, v2 <- s_v2,
  since <- s_since, try <- s_try, pc <- s_pc

NoIrq == INSTANCE SpinNoIrq WITH
  Harts <- IrqHarts,
  lock <- n_lock, sie <- n_sie, irq <- n_irq, op <- n_op, guards <- n_guards

E == INSTANCE HartEnv WITH
  Harts <- IrqHarts,
  env <- e_env, pc <- e_pc, now <- e_now, next <- e_next, open <- e_open,
  native <- e_native, sie <- e_sie, sum <- e_sum

M == INSTANCE Mailbox WITH
  Harts <- IrqHarts,
  stale <- m_stale, icache <- m_icache, mailbox <- m_mailbox, local_mail <- m_local,
  pc <- m_pc, work <- m_work

H == INSTANCE TraceHeap WITH heap <- h_heap, keys <- h_keys

(* One page and more calls; two pages, in one area or in two. *)
OnePage == {1}
TwoPages == {1, 2}
OneArea == {{OnePage}}
OneOrTwoAreas == {{TwoPages}, {{1}, {2}}}
PageFrames == 1 .. 3
Stored == {1}

C1 == INSTANCE CopyOnWrite WITH
  Procs <- Harts, Pages <- OnePage, Layouts <- OneArea, Frames <- PageFrames, Values <- Stored,
  MaxCalls <- 3, None <- Nothing, alive <- c_alive, pte <- c_pte, sc <- c_sc,
  count <- c_count, free <- c_free, data <- c_data, perm <- c_perm, predict <- c_predict,
  parent <- c_parent, job <- c_job, panicked <- c_panicked, calls <- c_calls, mem <- c_mem

C2 == INSTANCE CopyOnWrite WITH
  Procs <- Harts, Pages <- TwoPages, Layouts <- OneOrTwoAreas, Frames <- PageFrames, Values <- Stored,
  MaxCalls <- 2, None <- Nothing, alive <- c_alive, pte <- c_pte, sc <- c_sc,
  count <- c_count, free <- c_free, data <- c_data, perm <- c_perm, predict <- c_predict,
  parent <- c_parent, job <- c_job, panicked <- c_panicked, calls <- c_calls, mem <- c_mem

SigThreads == {1, 2}

Installed(sigs, handler) ==
  [s \in sigs |-> [handler |-> IF s = 9 THEN "SIG_DFL" ELSE handler, mask |-> {}]]

Start(threads, action) ==
  [threads |-> threads, action |-> action, mask |-> {}, realtime |-> <<>>, rt |-> <<>>]

(* A signal of each kind, for one thread or two, or for one with handlers.   *)
Kinds == {1, 9, 34}

KindStarts ==
  {Start({1}, Installed(Kinds, "SIG_DFL")), Start({1, 2}, Installed(Kinds, "SIG_DFL")),
   Start({1}, Installed(Kinds, "user"))}

KindActions == [handler : {"user"}, mask : {Kinds}] \cup [handler : {"SIG_IGN"}, mask : {{}}]

G1 == INSTANCE Signals WITH
  Threads <- SigThreads, Sigs <- Kinds, DIRECT_FETCH <- 2, Starts <- KindStarts, Actions <- KindActions,
  MaxSends <- 2, MaxCalls <- 1, proc <- g_proc, writer <- g_writer, box <- g_box,
  tsm <- g_tsm, pc <- g_pc, sig <- g_sig, frames <- g_frames, event <- g_event,
  sends <- g_sends, calls <- g_calls, settled <- g_settled, raw <- g_raw,
  killed <- g_killed, execed <- g_execed

(* Two real-time signals: 34 waits, blocked, as often as RTQueue::fetch walks *)
(* or once less, for the process or for the thread.                          *)
RealTime == {34, 35}

Blocked(realtime, rt) ==
  [Start({1}, Installed(RealTime, "user")) EXCEPT !.mask = {34}, !.realtime = realtime, !.rt = rt]

RealTimeStarts == {Blocked(<<34>>, <<>>), Blocked(<<34, 34>>, <<>>), Blocked(<<>>, <<34, 34>>)}

RealTimeActions == [handler : {"user"}, mask : {{35}}]

G2 == INSTANCE Signals WITH
  Threads <- SigThreads, Sigs <- RealTime, DIRECT_FETCH <- 2, Starts <- RealTimeStarts,
  Actions <- RealTimeActions,
  MaxSends <- 2, MaxCalls <- 1, proc <- g_proc, writer <- g_writer, box <- g_box,
  tsm <- g_tsm, pc <- g_pc, sig <- g_sig, frames <- g_frames, event <- g_event,
  sends <- g_sends, calls <- g_calls, settled <- g_settled, raw <- g_raw,
  killed <- g_killed, execed <- g_execed

q_vars == <<q_locked, q_pending, q_tail, q_next, q_nlocked, q_qval, q_nxt, q_pc>>
s_vars == <<s_seq, s_d1, s_d2, s_my, s_v1, s_v2, s_since, s_try, s_pc>>
n_vars == <<n_lock, n_sie, n_irq, n_op, n_guards>>
e_vars == <<e_env, e_pc, e_now, e_next, e_open, e_native, e_sie, e_sum>>
m_vars == <<m_stale, m_icache, m_mailbox, m_local, m_pc, m_work>>
h_vars == <<h_heap, h_keys>>
c_vars == <<c_alive, c_pte, c_sc, c_count, c_free, c_data, c_perm, c_predict, c_parent,
            c_job, c_panicked, c_calls, c_mem>>
g_vars == <<g_proc, g_writer, g_box, g_tsm, g_pc, g_sig, g_frames, g_event, g_sends,
            g_calls, g_settled, g_raw, g_killed, g_execed>>

(* The variables of a part that is not exercised have no value of interest. *)
QOff == /\ q_locked = 0 /\ q_pending = 0 /\ q_tail = 0 /\ q_next = 0
        /\ q_nlocked = 0 /\ q_qval = 0 /\ q_nxt = 0 /\ q_pc = 0

SOff == /\ s_seq = 0 /\ s_d1 = 0 /\ s_d2 = 0 /\ s_my = 0 /\ s_v1 = 0
        /\ s_v2 = 0 /\ s_since = 0 /\ s_try = 0 /\ s_pc = 0

NOff == n_lock = 0 /\ n_sie = 0 /\ n_irq = 0 /\ n_op = 0 /\ n_guards = 0

EOff == /\ e_env = 0 /\ e_pc = 0 /\ e_now = 0 /\ e_next = 0 /\ e_open = 0
        /\ e_native = 0 /\ e_sie = 0 /\ e_sum = 0

MOff == /\ m_stale = 0 /\ m_icache = 0 /\ m_mailbox = 0 /\ m_local = 0
        /\ m_pc = 0 /\ m_work = 0

HOff == h_heap = 0 /\ h_keys = 0

COff == /\ c_alive = 0 /\ c_pte = 0 /\ c_sc = 0 /\ c_count = 0 /\ c_free = 0
        /\ c_data = 0 /\ c_perm = 0 /\ c_predict = 0 /\ c_parent = 0 /\ c_job = 0
        /\ c_panicked = 0 /\ c_calls = 0 /\ c_mem = 0

GOff == /\ g_proc = 0 /\ g_writer = 0 /\ g_box = 0 /\ g_tsm = 0 /\ g_pc = 0
        /\ g_sig = 0 /\ g_frames = 0 /\ g_event = 0 /\ g_sends = 0 /\ g_calls = 0
        /\ g_settled = 0 /\ g_raw = 0 /\ g_killed = 0 /\ g_execed = 0

HartsInit ==
  /\ which \in {"rcu", "qspin", "seq", "noirq", "env", "mail", "heap", "cow1", "cow2", "signals1", "signals2"}
  /\ Init
  /\ IF which = "qspin" THEN Q!Init ELSE QOff
  /\ IF which = "seq" THEN S!Init ELSE SOff
  /\ IF which = "noirq" THEN NoIrq!Init ELSE NOff
  /\ IF which = "env" THEN E!Init ELSE EOff
  /\ IF which = "mail" THEN M!Init ELSE MOff
  /\ IF which = "heap" THEN H!Init ELSE HOff
  /\ CASE which = "cow1" -> C1!Init [] which = "cow2" -> C2!Init [] OTHER -> COff
  /\ CASE which = "signals1" -> G1!Init [] which = "signals2" -> G2!Init [] OTHER -> GOff

HartsNext ==
  \/ which = "rcu" /\ Next
     /\ UNCHANGED <<which, q_vars, s_vars, n_vars, e_vars, m_vars, h_vars, c_vars, g_vars>>
  \/ which = "qspin" /\ Q!Next
     /\ UNCHANGED <<which, vars, s_vars, n_vars, e_vars, m_vars, h_vars, c_vars, g_vars>>
  \/ which = "seq" /\ S!Next
     /\ UNCHANGED <<which, vars, q_vars, n_vars, e_vars, m_vars, h_vars, c_vars, g_vars>>
  \/ which = "noirq" /\ NoIrq!Next
     /\ UNCHANGED <<which, vars, q_vars, s_vars, e_vars, m_vars, h_vars, c_vars, g_vars>>
  \/ which = "env" /\ E!Next
     /\ UNCHANGED <<which, vars, q_vars, s_vars, n_vars, m_vars, h_vars, c_vars, g_vars>>
  \/ which = "mail" /\ M!Next
     /\ UNCHANGED <<which, vars, q_vars, s_vars, n_vars, e_vars, h_vars, c_vars, g_vars>>
  \/ which = "heap" /\ H!Next
     /\ UNCHANGED <<which, vars, q_vars, s_vars, n_vars, e_vars, m_vars, c_vars, g_vars>>
  \/ /\ \/ which = "cow1" /\ C1!Next
        \/ which = "cow2" /\ C2!Next
     /\ UNCHANGED <<which, vars, q_vars, s_vars, n_vars, e_vars, m_vars, h_vars, g_vars>>
  \/ /\ \/ which = "signals1" /\ G1!Next
        \/ which = "signals2" /\ G2!Next
     /\ UNCHANGED <<which, vars, q_vars, s_vars, n_vars, e_vars, m_vars, h_vars, c_vars>>

HartsSpec ==
  /\ HartsInit
  /\ [][HartsNext]_<<which, vars, q_vars, s_vars, n_vars, e_vars, m_vars, h_vars, c_vars, g_vars>>

Perms == Permutations(Harts) \cup Permutations(Objs)

-----------------------------------------------------------------------------
(* The type invariants of the parts. *)
HartsTypeOK ==
  /\ TypeOK
  /\ which = "qspin" => Q!TypeOK
  /\ which = "seq" => S!TypeOK
  /\ which = "noirq" => NoIrq!TypeOK
  /\ which = "env" => E!TypeOK
  /\ which = "mail" => M!TypeOK
  /\ which = "cow1" => C1!TypeOK
  /\ which = "cow2" => C2!TypeOK
  /\ which = "signals1" => G1!TypeOK
  /\ which = "signals2" => G2!TypeOK

(* QSpinLock: one guard at a time, by whichever of the three ways; nobody   *)
(* writes to a node whose owner has left the queue; the pending bit has one *)
(* owner, and the queue waits for it.  SeqMutex: a read is one write's data *)
(* and not older than its start; one writer, and an odd number exactly      *)
(* while it is inside.  SpinNoIrqLock: no handler meets a lock of the       *)
(* thread it interrupted; one guard for a taken lock; without guards the    *)
(* interrupts are on again.                                                 *)
SpinLocksSafe ==
  /\ which = "qspin" => Q!QMutualExclusion /\ Q!QNodeAlive /\ Q!PendingOwned
  /\ which = "seq" => S!ReadAtomic /\ S!OneWriter
  /\ which = "noirq" => NoIrq!HandlerNeverSelfLocks /\ NoIrq!OneGuard /\ NoIrq!FlagsRestored

(* HartEnv: a hart that can be interrupted is in one whole environment, and *)
(* its bits are those the running task's guards ask for.                    *)
HartEnvSafe == which = "env" => E!HartEnvSafe

(* Mailbox: what may be stale has its flush under way, and a mailbox nobody *)
(* looks at stays bounded.                                                  *)
MailboxSafe == which = "mail" => M!MailboxSafe

(* MaxHeap: tracers show the places of their elements, what was pushed is   *)
(* inside once, the smallest first, and parents are not larger.             *)
HeapExact == which = "heap" => H!TracersExact /\ H!HoldsSmallestFirst /\ H!HeapOrder

(* CopyOnWrite: no process sees the stores of another, and the counters     *)
(* and the free frames agree with what the page tables hold, whatever       *)
(* faults, forks that fail, unmaps and exits meet.                          *)
CowSafe ==
  /\ which = "cow1" => C1!Isolation /\ C1!CountsExact
  /\ which = "cow2" => C2!Isolation /\ C2!CountsExact

(* Signals: after a pass that took no signal, the test in front of user mode *)
(* misses nothing that arrived since the pass began; a SIGKILL of the        *)
(* process stays for its other threads; a running handler's signal is        *)
(* blocked, and handlers (rt_sigprocmask may) do not block SIGKILL or        *)
(* SIGSTOP.                                                                  *)
SignalsSafe ==
  /\ which = "signals1" =>
       G1!NothingMissed /\ G1!KillStays /\ G1!HandlerBlocked /\ G1!NeverBlockedByHandler
  /\ which = "signals2" => G2!NothingMissed /\ G2!HandlerBlocked

(* Signals: no step loses one on its way from the mailbox to the thread that *)
(* acts on it, and of the real-time signals that a thread does not block it  *)
(* takes the one that was sent first.                                        *)
SignalsKept ==
  [][/\ which = "signals1" => G1!Kept
     /\ which = "signals2" => G2!Kept]_<<which, g_vars>>
=============================================================================
