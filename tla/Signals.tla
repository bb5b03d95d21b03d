------------------------------ MODULE Signals ------------------------------
(***************************************************************************)
(* Signals of one process: the process-wide pending set and actions         *)
(* (ProcSignalManager), each thread's mailbox and private pending set        *)
(* (ThreadSignalManager), the pass that userloop makes before it re-enters   *)
(* user mode (have_signal, handle_signal), and the system calls that change  *)
(* them: kill, tkill, rt_sigaction, rt_sigprocmask, rt_sigreturn, execve,    *)
(* clone.  kernel/src/signal/{mod,manager}.rs, syscall/signal.rs.            *)
(*                                                                           *)
(* A signal is its user number.  recv_id of a thread is the pair of its      *)
(* sequence number `seq` (the high 63 bits) and its flag `que` (the low      *)
(* bit).  The real-time queues, linked lists in the code, are sequences.  A  *)
(* thread reads the process's manager without its lock in several places, so *)
(* handle_signal is one step per access.                                     *)
(***************************************************************************)
EXTENDS Integers, Sequences, SequencesExt, FiniteSets, FiniteSetsExt

CONSTANTS Threads,    \* the threads the process may have
          Starts,     \* what it may start with: its threads and their actions,
                      \* the mask, and the real-time signals that wait
          DIRECT_FETCH,   \* 8: how far RTQueue::fetch walks
          Sigs,       \* the signals that are sent
          Actions,    \* what sigaction installs: a handler and its mask
          MaxSends,   \* bound: signals sent
          MaxCalls    \* bound: system calls other than sigreturn

VARIABLES proc,     \* ProcSignalManagerInner
          writer,   \* the thread inside replace_action, and what it installs
          box,      \* ThreadSignalMailbox of each thread
          tsm,      \* the rest of ThreadSignalManager
          pc, sig,  \* where the thread is, and the signal it has taken
          frames,   \* the SignalContexts on its user stack, newest last
          event,    \* RECEIVE_SIGNAL of the process's event bus
          sends, calls,
          settled,  \* history: its last pass found nothing, and nothing was
                    \* made deliverable since behind the pass's back
          raw,      \* history: its mask was last written by sigprocmask
          killed,   \* history: threads that died of the process's SIGKILL
          execed    \* history: an execve has reset the process's manager

vars == <<proc, writer, box, tsm, pc, sig, frames, event, sends, calls,
          settled, raw, killed, execed>>

SIGKILL == 9
SIGSEGV == 11
SIGSTOP == 19
NEVER_CAPTURE == {SIGKILL, SIGSTOP}
Std == 1..32
None == 0
NoOne == [who |-> None, on |-> None, handler |-> "SIG_DFL", mask |-> {}]

-----------------------------------------------------------------------------
(* signal/mod.rs: the choice of a signal and the default actions *)

\* The bit test asks for SIGKILL and SIGSTOP together.
fetch_never_capture(s) == IF NEVER_CAPTURE \subseteq s THEN SIGKILL ELSE None

fetch(s) ==
  LET never == fetch_never_capture(s)
  IN  IF s = {} THEN None
      ELSE IF never # None THEN never
      ELSE IF SIGSEGV \in s THEN SIGSEGV
      ELSE Min(s)

(* Mutation: every taken signal is cleared, SIGKILL too *)
clear_sig_all(s, a) == s \ {a}

clear_sig(s, a) == IF a \in NEVER_CAPTURE THEN s ELSE s \ {a}

defalut_action(s) == IF s \in {17, 18, 23} \/ s \notin Std THEN "Ignore" ELSE "Abort"

get_action(handler, s) ==
  CASE handler = "SIG_DFL" -> defalut_action(s)
    [] handler = "SIG_IGN" -> "Ignore"
    [] handler = "SIG_ERR" -> "Abort"
    [] handler = "user"    -> "Handler"

reset_never_capture(s, act) ==
  [handler |-> IF s \in NEVER_CAPTURE THEN "SIG_DFL" ELSE act.handler,
   mask    |-> act.mask \ NEVER_CAPTURE]

DEFAULT == [handler |-> "SIG_DFL", mask |-> {}]

IgnoreOf(action) == {s \in Sigs : get_action(action[s].handler, s) = "Ignore"}

NewProc == [pending |-> {}, realtime |-> <<>>, action |-> [s \in Sigs |-> DEFAULT],
            ignore |-> IgnoreOf([s \in Sigs |-> DEFAULT]), recv_id |-> 0]

NewBox == [std |-> {}, send_id |-> 0, realtime |-> <<>>]

NewTsm == [seq |-> 0, que |-> FALSE, std |-> {}, rt |-> <<>>, mask |-> {}, proc_id |-> 0]

\* The program may have installed handlers and made threads before, and may
\* have blocked the signals that wait (`realtime` for the process, `rt` for a
\* thread): its last pass has found nothing to take.
Init ==
  /\ \E start \in Starts :
       /\ pc = [t \in Threads |-> IF t \in start.threads THEN "user" ELSE "unborn"]
       /\ proc = [NewProc EXCEPT !.action = start.action, !.ignore = IgnoreOf(start.action),
                                 !.realtime = start.realtime, !.recv_id = Len(start.realtime)]
       /\ box = [t \in Threads |->
                  IF t \in start.threads THEN [NewBox EXCEPT !.send_id = Len(start.rt)] ELSE NewBox]
       /\ tsm = [t \in Threads |->
                  IF t \in start.threads
                  THEN [NewTsm EXCEPT !.seq = Len(start.rt), !.rt = start.rt, !.mask = start.mask,
                                      !.proc_id = Len(start.realtime)]
                  ELSE NewTsm]
  /\ writer = NoOne
  /\ sig = [t \in Threads |-> None]
  /\ frames = [t \in Threads |-> <<>>]
  /\ event = FALSE
  /\ sends = 0 /\ calls = 0
  /\ settled = [t \in Threads |-> TRUE]
  /\ raw = [t \in Threads |-> FALSE]
  /\ killed = {} /\ execed = FALSE

Alive(t) == pc[t] \notin {"unborn", "dead"}

\* The process's manager is locked: replace_action writes, or a thread that
\* holds the lock is in the loop of bit_fold.
Writing == writer.who # None
Locked == Writing \/ \E t \in Threads : pc[t] = "fold_locked"

-----------------------------------------------------------------------------
(* Sending *)

\* sys_kill, and the exit signal of a child: ProcSignalManager::receive
Kill(s) ==
  /\ sends < MaxSends /\ ~Locked
  /\ \E t \in Threads : Alive(t)
  /\ sends' = sends + 1
  /\ proc' = IF s \in proc.ignore THEN proc
             ELSE [proc EXCEPT
                     !.pending = IF s \in Std THEN @ \union {s} ELSE @,
                     !.realtime = IF s \in Std THEN @ ELSE Append(@, s),
                     !.recv_id = @ + 1]
  /\ event' = TRUE
  /\ UNCHANGED <<writer, box, tsm, pc, sig, frames, calls, settled, raw, killed, execed>>

(* Mutation: the sequence number is not advanced for a real-time signal *)
mailbox_receive_quiet(b, s) ==
  IF s \in b.std THEN b
  ELSE [b EXCEPT !.std = IF s \in Std THEN @ \union {s} ELSE @,
                 !.realtime = IF s \in Std THEN @ ELSE Append(@, s),
                 !.send_id = IF s \in Std THEN @ + 1 ELSE @]

\* ThreadSignalMailbox::receive
mailbox_receive(b, s) ==
  IF s \in b.std THEN b
  ELSE [b EXCEPT !.std = IF s \in Std THEN @ \union {s} ELSE @,
                 !.realtime = IF s \in Std THEN @ ELSE Append(@, s),
                 !.send_id = @ + 1]

\* sys_tkill, sys_tgkill, the interval timers, a fault with a SIGSEGV handler
Tkill(t, s) ==
  /\ sends < MaxSends /\ Alive(t)
  /\ sends' = sends + 1
  /\ box' = [box EXCEPT ![t] = mailbox_receive(@, s)]
  /\ UNCHANGED <<proc, writer, tsm, pc, sig, frames, event, calls, settled, raw, killed, execed>>

-----------------------------------------------------------------------------
(* The pass before user mode *)

have_signal(t) ==
  \/ tsm[t].que \/ tsm[t].seq # box[t].send_id
  \/ tsm[t].proc_id # proc.recv_id

\* userloop, after a trap or interrupt that changes none of this state, or at
\* the end of a system call
Check(t) ==
  /\ pc[t] \in {"user", "check"}
  /\ pc' = [pc EXCEPT ![t] = IF have_signal(t) THEN "fetch" ELSE "user"]
  /\ UNCHANGED <<proc, writer, box, tsm, sig, frames, event, sends, calls, settled, raw, killed, execed>>

\* take_std_signal of the thread, then on to the process
TakeStd(t, m) ==
  LET a == fetch(m.std \ m.mask)
  IN  /\ tsm' = [tsm EXCEPT ![t] = [m EXCEPT !.std = IF a = None THEN @ ELSE clear_sig(@, a)]]
      /\ sig' = [sig EXCEPT ![t] = a]
      /\ pc' = [pc EXCEPT ![t] = IF a = None THEN "proc_std" ELSE "update"]

\* fetch_mailbox: the unlocked look at send_id
FetchId(t) ==
  /\ pc[t] = "fetch"
  /\ IF tsm[t].seq = box[t].send_id
     THEN TakeStd(t, tsm[t])
     ELSE /\ tsm' = [tsm EXCEPT ![t].seq = box[t].send_id]
          /\ pc' = [pc EXCEPT ![t] = "box"]
          /\ UNCHANGED sig
  /\ UNCHANGED <<proc, writer, box, frames, event, sends, calls, settled, raw, killed, execed>>

(* Mutation: only the standard signals are carried over *)
FetchBox_std(t) ==
  /\ pc[t] = "box"
  /\ box' = [box EXCEPT ![t].std = {}, ![t].realtime = <<>>]
  /\ TakeStd(t, [tsm[t] EXCEPT !.std = @ \union box[t].std])
  /\ UNCHANGED <<proc, writer, frames, event, sends, calls, settled, raw, killed, execed>>

\* fetch_mailbox: under the mailbox's lock
FetchBox(t) ==
  /\ pc[t] = "box"
  /\ box' = [box EXCEPT ![t].std = {}, ![t].realtime = <<>>]
  /\ TakeStd(t, [tsm[t] EXCEPT !.std = @ \union box[t].std, !.rt = @ \o box[t].realtime])
  /\ UNCHANGED <<proc, writer, frames, event, sends, calls, settled, raw, killed, execed>>

\* What an unlocked reader may see in `ignore` while replace_action runs
IgnoreSeen ==
  IF Writing
  THEN {proc.ignore} \union
       SUBSET IgnoreOf([proc.action EXCEPT ![writer.on] = reset_never_capture(writer.on, writer)])
  ELSE {proc.ignore}

\* ProcSignalManager::take_std_signal: an unlocked look, then the lock
TakeProcStd(t) ==
  /\ pc[t] = "proc_std"
  /\ \/ /\ \E ign \in IgnoreSeen : proc.pending \ (tsm[t].mask \union ign) = {}
        /\ pc' = [pc EXCEPT ![t] = "rt"]
        /\ UNCHANGED <<proc, sig>>
     \/ /\ ~Locked
        /\ proc.pending \ (tsm[t].mask \union proc.ignore) # {}
        /\ LET a == fetch(proc.pending \ (tsm[t].mask \union proc.ignore))
           IN  /\ proc' = [proc EXCEPT !.pending = clear_sig(@, a)]
               /\ sig' = [sig EXCEPT ![t] = a]
        /\ pc' = [pc EXCEPT ![t] = "update"]
  /\ UNCHANGED <<writer, box, tsm, frames, event, sends, calls, settled, raw, killed, execed>>

\* RTQueue::can_fetch, and which one: the earliest that is not blocked (0 if
\* all are)
FirstFree(q, mask) == SelectInSeq(q, LAMBDA s : s \notin mask)

(* Mutation: the walk goes from the tail *)
rt_fetch_newest(q, mask) == SelectLastInSeq(q, LAMBDA s : s \notin mask)

\* RTQueue::fetch: the earliest one, if it is among the first DIRECT_FETCH (0
\* if all are blocked).  Behind those bit_fold looks for it in the signals'
\* own lists, and never returns, as it does not clear the bit it has seen.
rt_fetch(q, mask) == FirstFree(q, mask)

Folds(q, mask) == rt_fetch(q, mask) > DIRECT_FETCH

\* take_rt_signal of the thread, then of the process (under its lock)
TakeRt(t) ==
  LET i == rt_fetch(tsm[t].rt, tsm[t].mask)
      j == rt_fetch(proc.realtime, tsm[t].mask)
  IN  /\ pc[t] = "rt"
      /\ \/ /\ i # 0 /\ ~Folds(tsm[t].rt, tsm[t].mask)
            /\ tsm' = [tsm EXCEPT ![t].rt = RemoveAt(@, i)]
            /\ sig' = [sig EXCEPT ![t] = tsm[t].rt[i]]
            /\ pc' = [pc EXCEPT ![t] = "update"]
            /\ UNCHANGED proc
         \/ /\ i = 0 /\ j # 0 /\ ~Locked /\ ~Folds(proc.realtime, tsm[t].mask)
            /\ proc' = [proc EXCEPT !.realtime = RemoveAt(@, j)]
            /\ sig' = [sig EXCEPT ![t] = proc.realtime[j]]
            /\ pc' = [pc EXCEPT ![t] = "update"]
            /\ UNCHANGED tsm
         \/ /\ i = 0 /\ j = 0
            /\ sig' = [sig EXCEPT ![t] = None]
            /\ pc' = [pc EXCEPT ![t] = "update"]
            /\ UNCHANGED <<proc, tsm>>
         \/ /\ Folds(tsm[t].rt, tsm[t].mask)
            /\ pc' = [pc EXCEPT ![t] = "fold"]
            /\ UNCHANGED <<proc, tsm, sig>>
         \/ /\ i = 0 /\ ~Locked /\ Folds(proc.realtime, tsm[t].mask)
            /\ pc' = [pc EXCEPT ![t] = "fold_locked"]
            /\ UNCHANGED <<proc, tsm, sig>>
      /\ UNCHANGED <<writer, box, frames, event, sends, calls, settled, raw, killed, execed>>

\* SignalSet::bit_fold goes round
BitFold(t) == pc[t] \in {"fold", "fold_locked"} /\ UNCHANGED vars

\* update_proc_recv_id(psm.recv_id()), unlocked
UpdateId(t) ==
  /\ pc[t] = "update"
  /\ tsm' = [tsm EXCEPT ![t].proc_id = proc.recv_id]
  /\ pc' = [pc EXCEPT ![t] = IF sig[t] = None THEN "none" ELSE "act"]
  /\ UNCHANGED <<proc, writer, box, sig, frames, event, sends, calls, settled, raw, killed, execed>>

have_signal_local(t) ==
  tsm[t].std \ tsm[t].mask # {} \/ FirstFree(tsm[t].rt, tsm[t].mask) # 0

proc_have_signal_local(mask, ign) ==
  proc.pending \ (mask \union ign) # {} \/ FirstFree(proc.realtime, mask) # 0

(* Mutation: the process's signals are not looked at again *)
NothingTaken_thread_only(t) ==
  /\ pc[t] = "none"
  /\ tsm' = [tsm EXCEPT ![t].que = have_signal_local(t)]
  /\ pc' = [pc EXCEPT ![t] = "user"]
  /\ settled' = [settled EXCEPT ![t] = TRUE]
  /\ UNCHANGED <<proc, writer, box, sig, frames, event, sends, calls, raw, killed, execed>>

\* handle_signal when no signal was taken
NothingTaken(t) ==
  /\ pc[t] = "none"
  /\ \E ign \in IgnoreSeen :
       tsm' = [tsm EXCEPT ![t].que =
                 have_signal_local(t) \/ proc_have_signal_local(tsm[t].mask, ign)]
  /\ pc' = [pc EXCEPT ![t] = "user"]
  /\ settled' = [settled EXCEPT ![t] = TRUE]
  /\ UNCHANGED <<proc, writer, box, sig, frames, event, sends, calls, raw, killed, execed>>

\* What the unlocked get_action may see while replace_action writes the entry
ActionSeen(s) ==
  IF Writing /\ writer.on = s
  THEN [handler : {proc.action[s].handler, writer.handler,
                   reset_never_capture(s, writer).handler},
        mask : {proc.action[s].mask, writer.mask, writer.mask \ NEVER_CAPTURE}]
  ELSE {proc.action[s]}

(* Mutation: the mask is taken over as it is *)
set_mask_raw(m, mask) == [m EXCEPT !.mask = mask]

set_mask(m, mask) == [m EXCEPT !.mask = mask \ NEVER_CAPTURE]

(* Mutation: the handler's own signal stays unblocked *)
handler_mask_open(t, act) == tsm[t].mask \union act.mask

handler_mask(t, act) == tsm[t].mask \union act.mask \union {sig[t]}

\* The thread and its managers are dropped
Dies(t) ==
  /\ pc' = [pc EXCEPT ![t] = "dead"]
  /\ box' = [box EXCEPT ![t] = NewBox]
  /\ tsm' = [tsm EXCEPT ![t] = NewTsm]
  /\ frames' = [frames EXCEPT ![t] = <<>>]
  /\ raw' = [raw EXCEPT ![t] = FALSE]

\* handle_signal with a signal: abort, ignore, or push a frame for the handler
\* (writable_value may fail on the user stack: Dead)
Act(t) ==
  /\ pc[t] = "act"
  /\ settled' = [settled EXCEPT ![t] = FALSE]
  /\ sig' = [sig EXCEPT ![t] = None]
  /\ \E act \in ActionSeen(sig[t]) :
       LET what == get_action(act.handler, sig[t])
       IN  \/ /\ what = "Abort"
              /\ Dies(t)
              /\ killed' = IF sig[t] = SIGKILL /\ SIGKILL \notin tsm[t].std
                           THEN killed \union {t} ELSE killed
           \/ /\ what = "Ignore"
              /\ pc' = [pc EXCEPT ![t] = "user"]
              /\ UNCHANGED <<box, tsm, frames, raw, killed>>
           \/ /\ what = "Handler"
              /\ \/ /\ tsm' = [tsm EXCEPT ![t] = set_mask(@, handler_mask(t, act))]
                    /\ raw' = [raw EXCEPT ![t] = FALSE]
                    /\ frames' = [frames EXCEPT ![t] =
                         Append(@, [sig |-> sig[t], mask |-> tsm[t].mask, held |-> TRUE])]
                    /\ pc' = [pc EXCEPT ![t] = "user"]
                    /\ UNCHANGED box
                 \/ Dies(t)
              /\ UNCHANGED killed
  /\ UNCHANGED <<proc, writer, event, sends, calls, execed>>

-----------------------------------------------------------------------------
(* System calls that change masks and actions *)

Call(t) == pc[t] = "user" /\ calls < MaxCalls /\ calls' = calls + 1

\* sys_rt_sigaction: replace_action takes the lock and starts to write
ReplaceBegin(t, s, act) ==
  /\ Call(t) /\ ~Locked
  /\ writer' = [who |-> t, on |-> s, handler |-> act.handler, mask |-> act.mask]
  /\ pc' = [pc EXCEPT ![t] = "replace"]
  /\ UNCHANGED <<proc, box, tsm, sig, frames, event, sends, settled, raw, killed, execed>>

\* ... and has rebuilt `ignore` when it lets the lock go
ReplaceEnd(t) ==
  /\ pc[t] = "replace" /\ writer.who = t
  /\ LET action == [proc.action EXCEPT ![writer.on] = reset_never_capture(writer.on, writer)]
     IN  proc' = [proc EXCEPT !.action = action, !.ignore = IgnoreOf(action)]
  /\ writer' = NoOne
  /\ pc' = [pc EXCEPT ![t] = "check"]
  /\ settled' = [u \in Threads |-> FALSE]
  /\ UNCHANGED <<box, tsm, sig, frames, event, sends, calls, raw, killed, execed>>

(* Mutation: the thread is not told to look again *)
sigprocmask_silent(m, how, set) ==
  [m EXCEPT !.mask = CASE how = "SIG_BLOCK" -> @ \union set
                       [] how = "SIG_UNBLOCK" -> @ \ set
                       [] how = "SIG_SETMASK" -> set]

\* sys_rt_sigprocmask's change, with mask_changed
sigprocmask(m, how, set) ==
  [m EXCEPT !.mask = CASE how = "SIG_BLOCK" -> @ \union set
                       [] how = "SIG_UNBLOCK" -> @ \ set
                       [] how = "SIG_SETMASK" -> set,
            !.que = TRUE]

Sigprocmask(t, how, set) ==
  /\ Call(t)
  /\ tsm' = [tsm EXCEPT ![t] = sigprocmask(@, how, set)]
  /\ raw' = [raw EXCEPT ![t] = TRUE]
  /\ frames' = [frames EXCEPT ![t] = [i \in DOMAIN @ |-> [@[i] EXCEPT !.held = FALSE]]]
  /\ pc' = [pc EXCEPT ![t] = "check"]
  /\ UNCHANGED <<proc, writer, box, sig, event, sends, settled, killed, execed>>

\* sys_rt_sigreturn: the newest frame is restored; without one (a null
\* scx_ptr), or when it cannot be read, the thread exits
Sigreturn(t) ==
  /\ pc[t] = "user"
  /\ \/ /\ frames[t] # <<>>
        /\ tsm' = [tsm EXCEPT ![t] = set_mask(@, Last(frames[t]).mask)]
        /\ raw' = [raw EXCEPT ![t] = FALSE]
        /\ frames' = [frames EXCEPT ![t] = Front(@)]
        /\ pc' = [pc EXCEPT ![t] = "check"]
        /\ UNCHANGED box
     \/ Dies(t)
  /\ settled' = [settled EXCEPT ![t] = FALSE]
  /\ UNCHANGED <<proc, writer, sig, event, sends, calls, killed, execed>>

\* execve's ProcSignalManager::reset, for the only thread left.  scx_ptr stays:
\* if it named a frame, it now names some word of the new program's memory.
Exec(t) ==
  /\ Call(t) /\ ~Locked
  /\ \A u \in Threads \ {t} : ~Alive(u)
  /\ proc' = NewProc
  /\ \E mask \in {{}, Sigs} :
       frames' = [frames EXCEPT ![t] =
                    IF @ = <<>> THEN @ ELSE <<[sig |-> None, mask |-> mask, held |-> FALSE]>>]
  /\ settled' = [u \in Threads |-> FALSE]
  /\ execed' = TRUE
  /\ pc' = [pc EXCEPT ![t] = "check"]
  /\ UNCHANGED <<writer, box, tsm, sig, event, sends, raw, killed>>

\* clone_thread: the new thread starts with a copy of the manager
CloneThread(t, u) ==
  /\ Call(t) /\ pc[u] = "unborn"
  /\ box' = [box EXCEPT ![u] = box[t]]
  /\ tsm' = [tsm EXCEPT ![u] = tsm[t]]
  /\ settled' = [settled EXCEPT ![u] = settled[t]]
  /\ raw' = [raw EXCEPT ![u] = raw[t]]
  /\ pc' = [pc EXCEPT ![t] = "check", ![u] = "check"]
  /\ UNCHANGED <<proc, writer, sig, frames, event, sends, killed, execed>>

Pass(t) ==
  \/ Check(t) \/ FetchId(t) \/ FetchBox(t) \/ TakeProcStd(t)
  \/ TakeRt(t) \/ BitFold(t) \/ UpdateId(t) \/ NothingTaken(t) \/ Act(t)

\* Without a thread nothing happens any more
Ended == (\A t \in Threads : ~Alive(t)) /\ UNCHANGED vars

Next ==
  \/ Ended
  \/ \E s \in Sigs : Kill(s)
  \/ \E t \in Threads, s \in Sigs : Tkill(t, s)
  \/ \E t \in Threads : Pass(t)
  \/ \E t \in Threads, s \in Sigs, act \in Actions : ReplaceBegin(t, s, act)
  \/ \E t \in Threads : ReplaceEnd(t)
  \/ \E t \in Threads, how \in {"SIG_BLOCK", "SIG_UNBLOCK"}, s \in Sigs :
       Sigprocmask(t, how, {s})
  \/ \E t \in Threads : Sigprocmask(t, "SIG_SETMASK", {})
  \/ \E t \in Threads : Sigreturn(t)
  \/ \E t \in Threads : Exec(t)
  \/ \E t, u \in Threads : CloneThread(t, u)

Spec == Init /\ [][Next]_vars

-----------------------------------------------------------------------------
(* Properties *)

TypeOK ==
  /\ proc.pending \subseteq Sigs \intersect Std
  /\ proc.ignore \subseteq Sigs
  /\ \A t \in Threads :
       /\ tsm[t].mask \subseteq Sigs
       /\ tsm[t].std \subseteq Sigs \intersect Std
       /\ sig[t] \in Sigs \union {None}
       /\ \A i \in DOMAIN frames[t] : frames[t][i].mask \subseteq Sigs

Deliverable(t) ==
  \/ (tsm[t].std \union box[t].std) \ tsm[t].mask # {}
  \/ FirstFree(tsm[t].rt \o box[t].realtime, tsm[t].mask) # 0
  \/ proc_have_signal_local(tsm[t].mask, proc.ignore)

\* Once a pass of handle_signal has found no signal to take, the unlocked test
\* in front of user mode (have_signal) misses nothing: a thread for which it is
\* false has no deliverable signal, whatever was sent, and from where, between
\* any two reads of the pass.  Nothing is claimed (`settled`) after a pass that
\* took a signal, which records recv_id and looks no further, so that what
\* else was pending waits for the next arrival; nor after sigreturn,
\* rt_sigaction and execve, which set no flag.
NothingMissed ==
  \A t \in Threads :
    pc[t] = "user" /\ settled[t] /\ ~Writing /\ ~have_signal(t) => ~Deliverable(t)

\* A process-wide SIGKILL reaches every thread: after one thread has died of
\* it, it is still pending for the others, until an execve clears the manager
\* (StdSignalSet::clear_sig).
KillStays == killed # {} /\ ~execed => SIGKILL \in proc.pending

\* While a handler runs its own signal stays blocked, through nested handlers
\* and their returns, unless the program unblocks it with sigprocmask.
HandlerBlocked ==
  \A t \in Threads : \A i \in DOMAIN frames[t] :
    frames[t][i].held => frames[t][i].sig \in tsm[t].mask \union NEVER_CAPTURE

\* Handlers and sigreturn do not block SIGKILL and SIGSTOP: they are in a
\* thread's mask only as long as it is the one that rt_sigprocmask wrote, which
\* takes the user's set as it is (`raw`).
NeverBlockedByHandler ==
  \A t \in Threads : tsm[t].mask \intersect NEVER_CAPTURE # {} => raw[t]

\* What is queued is as it was, with new signals behind, or without one that
\* thread t has taken, which t does not block while it blocks all before it.
QueueKept(q, r, t) ==
  \/ IsPrefix(q, r)
  \/ \E i \in DOMAIN q :
       /\ r = RemoveAt(q, i) /\ sig'[t] = q[i]
       /\ q[i] \notin tsm[t].mask
       /\ \A j \in 1 .. i - 1 : q[j] \in tsm[t].mask

\* No step loses a signal: on its way from the mailbox into the thread's own
\* sets, and in the process's, it goes away only when a thread takes it to act
\* on it; of the real-time signals that are not blocked, the one that was sent
\* first.  Only the death of the thread, for its own, and execve, for the
\* process's, drop any.
Kept ==
  /\ \A t \in Threads : Alive(t) /\ Alive(t)' =>
       /\ tsm[t].std \union box[t].std
            \subseteq tsm'[t].std \union box'[t].std \union {sig'[t]}
       /\ QueueKept(tsm[t].rt \o box[t].realtime, tsm'[t].rt \o box'[t].realtime, t)
  /\ \/ \E t \in Threads : Exec(t)
     \/ /\ proc.pending \subseteq proc'.pending \union {sig'[t] : t \in Threads}
        /\ \E t \in Threads : QueueKept(proc.realtime, proc'.realtime, t)

=============================================================================
