----------------------------- MODULE QSpinLock ------------------------------
(***************************************************************************)
(* The queued spin lock (ftl-util/src/sync/qspinlock.rs).  A word holds the *)
(* byte locked, the byte pending and the half word tail.  The first waiter  *)
(* spins on the word with pending set, the others queue behind it on nodes  *)
(* of their own, one per hart, linked through next.  Every atomic access of *)
(* the code is one step.  A hart queues for one lock at a time, so of its   *)
(* MAX_NEST nodes only the first is used and tail names the hart.           *)
(***************************************************************************)
EXTENDS Naturals, FiniteSets

CONSTANT Harts

None == "None"

VARIABLES
  locked,    \* the byte locked of the word
  pending,   \* the byte pending
  tail,      \* the half word tail: the last hart in the queue, or None
  next,      \* QNode.next of each hart
  nlocked,   \* QNode.locked of each hart
  qval,      \* the local qval of obtain_lock: the last value read
  nxt,       \* the local next of obtain_lock
  pc

vars == <<locked, pending, tail, next, nlocked, qval, nxt, pc>>

Word == [locked : 0..1, pending : 0..1, tail : Harts \cup {None}]

word == [locked |-> locked, pending |-> pending, tail |-> tail]

QVal(t, p, l) == [locked |-> l, pending |-> p, tail |-> t]

TypeOK ==
  /\ locked \in 0..1 /\ pending \in 0..1 /\ tail \in Harts \cup {None}
  /\ next \in [Harts -> Harts \cup {None}]
  /\ nlocked \in [Harts -> 0..1]
  /\ qval \in [Harts -> Word]
  /\ nxt \in [Harts -> Harts \cup {None}]
  /\ pc \in [Harts -> {"idle", "trans", "check", "unpend", "waitlocked", "take", "init",
                       "tryload", "trycas", "swap", "link", "waitnode", "prefetch",
                       "waitword", "cas", "setlocked", "waitnext", "pass", "held"}]

Init ==
  /\ locked = 0 /\ pending = 0 /\ tail = None
  /\ next = [h \in Harts |-> None] /\ nlocked = [h \in Harts |-> 0]
  /\ qval = [h \in Harts |-> QVal(None, 0, 0)]
  /\ nxt = [h \in Harts |-> None]
  /\ pc = [h \in Harts |-> "idle"]

Goto(h, p) == pc' = [pc EXCEPT ![h] = p]

Store(t, p, l) == tail' = t /\ pending' = p /\ locked' = l

(* The compare_exchange of the whole word, cas_val. *)
Cas(old, new) == word = old /\ Store(new.tail, new.pending, new.locked)

Masked(q) == q.tail # None \/ q.pending # 0

-----------------------------------------------------------------------------
(* lock: the fast path takes a free word; else the value seen is handed to  *)
(* obtain_lock.                                                             *)
obtain_lock_fast(h) ==
  /\ pc[h] = "idle"
  /\ \/ Cas(QVal(None, 0, 0), QVal(None, 0, 1)) /\ Goto(h, "held") /\ UNCHANGED qval
     \/ /\ word # QVal(None, 0, 0)
        /\ qval' = [qval EXCEPT ![h] = word]
        /\ Goto(h, IF word = QVal(None, 1, 0) THEN "trans" ELSE "check")
        /\ UNCHANGED <<locked, pending, tail>>
  /\ UNCHANGED <<next, nlocked, nxt>>

(* The passing state (0,1,0) is re-read a bounded number of times; how      *)
(* often is not fixed here.                                                 *)
SpinTransition(h) ==
  /\ pc[h] = "trans"
  /\ qval' = [qval EXCEPT ![h] = word]
  /\ Goto(h, "check")
  /\ UNCHANGED <<locked, pending, tail, next, nlocked, nxt>>

(* Mutation: the bit is given back also when another hart had set it. *)
SetPending_giveback(h) ==
  /\ pc[h] = "check"
  /\ IF Masked(qval[h])
       THEN Goto(h, "init") /\ UNCHANGED <<qval, pending>>
       ELSE /\ pending' = 1
            /\ qval' = [qval EXCEPT ![h] = word]
            /\ Goto(h, IF ~Masked(word)
                         THEN IF locked # 0 THEN "waitlocked" ELSE "take"
                         ELSE "unpend")
  /\ UNCHANGED <<locked, tail, next, nlocked, nxt>>

(* fetch_set_pending, unless the value already shows other waiters. *)
SetPending(h) ==
  /\ pc[h] = "check"
  /\ IF Masked(qval[h])
       THEN Goto(h, "init") /\ UNCHANGED <<qval, pending>>
       ELSE /\ pending' = 1
            /\ qval' = [qval EXCEPT ![h] = word]
            /\ Goto(h, IF ~Masked(word)
                         THEN IF locked # 0 THEN "waitlocked" ELSE "take"
                         ELSE IF pending = 0 THEN "unpend" ELSE "init")
  /\ UNCHANGED <<locked, tail, next, nlocked, nxt>>

(* The bit was set beside a queue: it is given back. *)
Unpend(h) ==
  /\ pc[h] = "unpend"
  /\ pending' = 0 /\ Goto(h, "init")
  /\ UNCHANGED <<locked, tail, next, nlocked, qval, nxt>>

WaitLocked(h) ==
  /\ pc[h] = "waitlocked" /\ locked = 0
  /\ Goto(h, "take")
  /\ UNCHANGED <<locked, pending, tail, next, nlocked, qval, nxt>>

(* One store of both bytes: the pending bit becomes the lock. *)
TakePending(h) ==
  /\ pc[h] = "take"
  /\ locked' = 1 /\ pending' = 0
  /\ Goto(h, "held")
  /\ UNCHANGED <<tail, next, nlocked, qval, nxt>>

-----------------------------------------------------------------------------
(* The slow path: the node is reset and the word is tried once more. *)
InitNode(h) ==
  /\ pc[h] = "init"
  /\ next' = [next EXCEPT ![h] = None] /\ nlocked' = [nlocked EXCEPT ![h] = 0]
  /\ Goto(h, "tryload")
  /\ UNCHANGED <<locked, pending, tail, qval, nxt>>

try_obtain_load(h) ==
  /\ pc[h] = "tryload"
  /\ Goto(h, IF word = QVal(None, 0, 0) THEN "trycas" ELSE "swap")
  /\ UNCHANGED <<locked, pending, tail, next, nlocked, qval, nxt>>

try_obtain_cas(h) ==
  /\ pc[h] = "trycas"
  /\ \/ Cas(QVal(None, 0, 0), QVal(None, 0, 1)) /\ Goto(h, "held")
     \/ /\ word # QVal(None, 0, 0)
        /\ Goto(h, "swap") /\ UNCHANGED <<locked, pending, tail>>
  /\ UNCHANGED <<next, nlocked, qval, nxt>>

(* The swap of the tail fixes the place in the queue; nxt keeps the old     *)
(* tail until its node is linked.                                           *)
SwapTail(h) ==
  /\ pc[h] = "swap"
  /\ tail' = h
  /\ nxt' = [nxt EXCEPT ![h] = tail]
  /\ Goto(h, IF tail = None THEN "waitword" ELSE "link")
  /\ UNCHANGED <<locked, pending, next, nlocked, qval>>

LinkPrev(h) ==
  /\ pc[h] = "link"
  /\ next' = [next EXCEPT ![nxt[h]] = h]
  /\ nxt' = [nxt EXCEPT ![h] = None]
  /\ Goto(h, "waitnode")
  /\ UNCHANGED <<locked, pending, tail, nlocked, qval>>

WaitNode(h) ==
  /\ pc[h] = "waitnode" /\ nlocked[h] = 1
  /\ Goto(h, "prefetch")
  /\ UNCHANGED <<locked, pending, tail, next, nlocked, qval, nxt>>

Prefetch(h) ==
  /\ pc[h] = "prefetch"
  /\ nxt' = [nxt EXCEPT ![h] = next[h]]
  /\ Goto(h, "waitword")
  /\ UNCHANGED <<locked, pending, tail, next, nlocked, qval>>

(* Mutation: the head of the queue overlooks the hart with the pending bit. *)
WaitWord_locked_only(h) ==
  /\ pc[h] = "waitword" /\ locked = 0
  /\ qval' = [qval EXCEPT ![h] = word]
  /\ Goto(h, IF tail = h THEN "cas" ELSE "setlocked")
  /\ UNCHANGED <<locked, pending, tail, next, nlocked, nxt>>

(* The head of the queue waits for the word to be (x, 0, 0). *)
WaitWord(h) ==
  /\ pc[h] = "waitword" /\ locked = 0 /\ pending = 0
  /\ qval' = [qval EXCEPT ![h] = word]
  /\ Goto(h, IF tail = h THEN "cas" ELSE "setlocked")
  /\ UNCHANGED <<locked, pending, tail, next, nlocked, nxt>>

(* Mutation: the queue is emptied by a store, whoever has joined it since. *)
CasLast_store(h) ==
  /\ pc[h] = "cas"
  /\ Store(None, 0, 1) /\ Goto(h, "held")
  /\ UNCHANGED <<next, nlocked, qval, nxt>>

(* The last of the queue empties it with the word; when the word has        *)
(* changed it goes on as if it had a successor.                             *)
CasLast(h) ==
  /\ pc[h] = "cas"
  /\ \/ Cas(qval[h], QVal(None, 0, 1)) /\ Goto(h, "held")
     \/ word # qval[h] /\ Goto(h, "setlocked") /\ UNCHANGED <<locked, pending, tail>>
  /\ UNCHANGED <<next, nlocked, qval, nxt>>

SetLocked(h) ==
  /\ pc[h] = "setlocked"
  /\ locked' = 1
  /\ Goto(h, IF nxt[h] = None THEN "waitnext" ELSE "pass")
  /\ UNCHANGED <<pending, tail, next, nlocked, qval, nxt>>

WaitNext(h) ==
  /\ pc[h] = "waitnext" /\ next[h] # None
  /\ nxt' = [nxt EXCEPT ![h] = next[h]]
  /\ Goto(h, "pass")
  /\ UNCHANGED <<locked, pending, tail, next, nlocked, qval>>

PassHead(h) ==
  /\ pc[h] = "pass"
  /\ nlocked' = [nlocked EXCEPT ![nxt[h]] = 1]
  /\ Goto(h, "held")
  /\ UNCHANGED <<locked, pending, tail, next, qval, nxt>>

(* Drop of the guard: the byte locked alone is stored. *)
Unlock(h) ==
  /\ pc[h] = "held"
  /\ locked' = 0
  /\ qval' = [qval EXCEPT ![h] = QVal(None, 0, 0)] /\ nxt' = [nxt EXCEPT ![h] = None]
  /\ Goto(h, "idle")
  /\ UNCHANGED <<pending, tail, next, nlocked>>

Step(h) ==
  \/ obtain_lock_fast(h) \/ SpinTransition(h) \/ SetPending(h) \/ Unpend(h)
  \/ WaitLocked(h) \/ TakePending(h) \/ InitNode(h) \/ try_obtain_load(h)
  \/ try_obtain_cas(h) \/ SwapTail(h) \/ LinkPrev(h) \/ WaitNode(h) \/ Prefetch(h)
  \/ WaitWord(h) \/ CasLast(h) \/ SetLocked(h) \/ WaitNext(h) \/ PassHead(h) \/ Unlock(h)

Next == \E h \in Harts : Step(h)

Spec == Init /\ [][Next]_vars

-----------------------------------------------------------------------------
(* A hart has taken the lock once its store made locked 1 for itself: the   *)
(* head of the queue holds it already while it looks for its successor.     *)
Holders == {h \in Harts : pc[h] \in {"held", "waitnext", "pass"}}

(* lock gives the guard to one hart at a time, whichever of the three ways  *)
(* (word, pending bit, queue) it came.                                      *)
QMutualExclusion == Cardinality(Holders) <= 1 /\ (Holders # {} => locked = 1)

(* The harts from the swap of the tail to the hand-over of the head: their  *)
(* nodes are in the queue.                                                  *)
Queued == {h \in Harts : pc[h] \in {"link", "waitnode", "prefetch", "waitword", "cas",
                                    "setlocked", "waitnext", "pass"}}

(* A node is written by others (next by the successor, locked by the        *)
(* predecessor) only while its owner waits in the queue: a write after the  *)
(* owner has left would hit the node of its next acquisition.               *)
QNodeAlive ==
  \A h \in Harts :
    /\ pc[h] = "link" => nxt[h] \in Queued /\ next[nxt[h]] = None
    /\ pc[h] = "pass" => pc[nxt[h]] = "waitnode" /\ nlocked[nxt[h]] = 0

(* The pending bit belongs to one hart: the one that waits for locked with  *)
(* it, or one that will give it back; an owner is never overtaken by the    *)
(* queue, whose head waits for the bit.                                     *)
PendingOwned ==
  /\ (pending = 1) = (\E h \in Harts : pc[h] \in {"unpend", "waitlocked", "take"})
  /\ Cardinality({h \in Harts : pc[h] \in {"unpend", "waitlocked", "take"}}) <= 1
  /\ (\E h \in Harts : pc[h] = "take") =>
       locked = 0 /\ ~\E h \in Harts : pc[h] = "setlocked"
=============================================================================
