------------------------------ MODULE TickLock ------------------------------
(***************************************************************************)
(* The ticket spin lock (ftl-util/src/sync/ticklock.rs).  lock draws a      *)
(* ticket from tick and waits until cur shows it; try_lock draws one only   *)
(* when its compare_exchange finds both counters equal and unchanged.  The  *)
(* counters wrap: Width stands for 2^32.                                    *)
(***************************************************************************)
EXTENDS Sequences, SpinSizes

VARIABLES
  tick, cur,  \* the two counters of AtomicTCU
  my,         \* TickGuard.tick, and the local tick or tc of a hart
  pc,
  line        \* ghost: the harts with a ticket, in the order they drew it

vars == <<tick, cur, my, pc, line>>

TypeOK ==
  /\ tick \in 0..(Width - 1) /\ cur \in 0..(Width - 1)
  /\ my \in [Harts -> 0..(Width - 1)]
  /\ pc \in [Harts -> {"idle", "wait", "try", "held"}]
  /\ line \in Seq(Harts)

Init ==
  /\ tick = 0 /\ cur = 0
  /\ my = [h \in Harts |-> 0] /\ pc = [h \in Harts |-> "idle"]
  /\ line = <<>>

wrapping_add(t, n) == (t + n) % Width

(* lock: fetch_add on tick. *)
DrawTicket(h) ==
  /\ pc[h] = "idle"
  /\ my' = [my EXCEPT ![h] = tick] /\ tick' = wrapping_add(tick, 1)
  /\ pc' = [pc EXCEPT ![h] = "wait"]
  /\ line' = Append(line, h)
  /\ UNCHANGED cur

(* wait_tick ends when cur shows the ticket. *)
wait_tick(h) ==
  /\ pc[h] = "wait" /\ cur = my[h]
  /\ pc' = [pc EXCEPT ![h] = "held"]
  /\ UNCHANGED <<tick, cur, my, line>>

(* try_lock: both counters are read at once; unequal ones mean None. *)
TryLoad(h) ==
  /\ pc[h] = "idle" /\ tick = cur
  /\ my' = [my EXCEPT ![h] = tick]
  /\ pc' = [pc EXCEPT ![h] = "try"]
  /\ UNCHANGED <<tick, cur, line>>

(* Mutation: only cur is compared, as if the two were separate words. *)
TryCas_cur_only(h) ==
  /\ pc[h] = "try"
  /\ IF cur = my[h]
       THEN /\ tick' = wrapping_add(my[h], 1) /\ line' = Append(line, h)
            /\ pc' = [pc EXCEPT ![h] = "held"]
       ELSE pc' = [pc EXCEPT ![h] = "idle"] /\ UNCHANGED <<tick, line>>
  /\ UNCHANGED <<cur, my>>

(* The compare_exchange of the pair: success is a ticket that is already    *)
(* served, failure is None.                                                 *)
TryCas(h) ==
  /\ pc[h] = "try"
  /\ IF tick = my[h] /\ cur = my[h]
       THEN /\ tick' = wrapping_add(my[h], 1) /\ line' = Append(line, h)
            /\ pc' = [pc EXCEPT ![h] = "held"]
       ELSE pc' = [pc EXCEPT ![h] = "idle"] /\ UNCHANGED <<tick, line>>
  /\ UNCHANGED <<cur, my>>

(* Mutation: the guard shows the last ticket drawn instead of its successor. *)
DropGuard_skip(h) ==
  /\ pc[h] = "held"
  /\ cur' = tick
  /\ line' = SelectSeq(line, LAMBDA g : g # h)
  /\ pc' = [pc EXCEPT ![h] = "idle"]
  /\ UNCHANGED <<tick, my>>

(* Drop of the guard: the next ticket is shown. *)
DropGuard(h) ==
  /\ pc[h] = "held"
  /\ cur' = wrapping_add(my[h], 1)
  /\ line' = SelectSeq(line, LAMBDA g : g # h)
  /\ pc' = [pc EXCEPT ![h] = "idle"]
  /\ UNCHANGED <<tick, my>>

Next == \E h \in Harts :
  DrawTicket(h) \/ wait_tick(h) \/ TryLoad(h) \/ TryCas(h) \/ DropGuard(h)

Fairness == \A h \in Harts : WF_vars(wait_tick(h)) /\ WF_vars(DropGuard(h))

Spec == Init /\ [][Next]_vars /\ Fairness

-----------------------------------------------------------------------------
(* The guard is exclusive and goes to the harts in the order of their       *)
(* tickets, across the wrap of the counters: who holds it is the first in   *)
(* line, and nobody else's ticket shows.                                    *)
FirstInLine ==
  \A h \in Harts :
    /\ pc[h] = "held" => line # <<>> /\ Head(line) = h
    /\ pc[h] = "wait" /\ cur = my[h] => Head(line) = h

(* Whoever draws a ticket is served; a try_lock cannot jump the line.       *)
EveryTicketServed == \A h \in Harts : pc[h] = "wait" ~> pc[h] = "held"
=============================================================================
