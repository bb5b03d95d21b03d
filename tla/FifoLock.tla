------------------------------ MODULE FifoLock ------------------------------
(***************************************************************************)
(* What a sleeping lock promises: one owner, ownership passes to the tasks *)
(* in line in their order of arrival and never to a newcomer before them,  *)
(* and the owner gets inside.                                              *)
(***************************************************************************)
EXTENDS Naturals, Sequences

CONSTANT Tasks

VARIABLES
  owner,   \* the task the lock belongs to, as a set of at most one task
  line,    \* the tasks waiting for ownership, oldest first
  inside   \* the tasks that know they own the lock and hold its guard

vars == <<owner, line, inside>>

Init == owner = {} /\ line = <<>> /\ inside = {}

(* A free lock is taken at once, with or without entering in the same step. *)
Take(t) ==
  /\ owner = {}
  /\ owner' = {t}
  /\ inside' \in {inside, inside \cup {t}}
  /\ UNCHANGED line

Queue(t) ==
  /\ owner # {} /\ t \notin owner
  /\ \A i \in 1..Len(line) : line[i] # t
  /\ line' = Append(line, t)
  /\ UNCHANGED <<owner, inside>>

Enter(t) ==
  /\ owner = {t} /\ t \notin inside
  /\ inside' = inside \cup {t}
  /\ UNCHANGED <<owner, line>>

Leave(t) ==
  /\ owner = {t} /\ t \in inside
  /\ inside' = inside \ {t}
  /\ IF line = <<>>
     THEN owner' = {} /\ UNCHANGED line
     ELSE owner' = {Head(line)} /\ line' = Tail(line)

Next == \E t \in Tasks : Take(t) \/ Queue(t) \/ Enter(t) \/ Leave(t)

Spec == Init /\ [][Next]_vars

FairSpec == Spec /\ \A t \in Tasks : WF_vars(Enter(t)) /\ WF_vars(Leave(t))
=============================================================================
