---------------------------- MODULE CopyOnWrite -----------------------------
(***************************************************************************)
(* Private memory of processes that share frames after fork: MapSegment    *)
(* (kernel/src/memory/map_segment/mod.rs), the counters of SCManager and   *)
(* SharedCounter, and the predictor of page faults.                        *)
(*                                                                         *)
(* A call of MapSegment runs under the lock of its own process, so only    *)
(* what processes share interleaves: the counters and the frames.  A call  *)
(* in progress is a job with the list of its remaining steps:              *)
(*   <<"copy", a>>   page_copy of the old frame of a into the new one      *)
(*   <<"drop", a>>   SharedCounter::consume for a, a load and then a store *)
(*                   or a fetch_sub                                        *)
(*   <<"try", a>>    try_remove_unique for a, and become_unique            *)
(* A counter is named by the frame it counts.  Processes have one thread;  *)
(* areas are anonymous and private (DelayHandler), split and joined in any *)
(* of the Layouts, and a process has permission W for all or for none.     *)
(***************************************************************************)
EXTENDS Naturals, Sequences, SequencesExt, FiniteSets

CONSTANTS
  Procs,        \* address spaces
  Pages,        \* page numbers 1 .. n
  Layouts,      \* how HandlerManager may divide the pages into areas
  Frames,       \* physical frames, numbers
  Values,       \* what user code stores; a new page is filled with 0
  MaxCalls,     \* bound on fork, unmap, clear and modify_perm
  None

VARIABLES
  alive,        \* the processes that run user code
  pte,          \* page tables: a frame with the bits SHARED and W, or None
  sc,           \* SCManager.map: the counter of a shared page, or None
  count,        \* SharedBuffer: the value of the counter of a frame
  free,         \* frames of the allocator
  data,         \* contents of the frames; a free one is a node of FrameList
  perm,         \* unique_writable of the process's areas
  predict,      \* Predicter.fifo: pages whose copies a fork makes at once
  parent,       \* MapSegment.parent
  job,          \* the call of MapSegment that is in progress
  panicked,     \* an unwrap or an assertion in the kernel failed
  calls,        \* calls so far
  mem           \* ghost: what the process wrote or inherited

vars == <<alive, pte, sc, count, free, data, perm, predict, parent, job, panicked, calls, mem>>

Idle == [kind |-> "idle"]

Call(kind, todo) ==
  [kind |-> kind, todo |-> todo, seen |-> None, new |-> None, child |-> None, range |-> {}, hits |-> {}]

Entry(f, shared, writable) == [frame |-> f, shared |-> shared, writable |-> writable]

Lowest(S) == CHOOSE a \in S : \A b \in S : a <= b

Mapped(p) == {a \in Pages : pte[p][a] # None}

Shared(p) == {a \in Mapped(p) : pte[p][a].shared}

InOrder(S) == SetToSortSeq(S, <)

Steps(op, S) == [i \in 1 .. Cardinality(S) |-> <<op, InOrder(S)[i]>>]

Init ==
  /\ alive \in {{p} : p \in Procs}
  /\ pte = [p \in Procs |-> [a \in Pages |-> None]]
  /\ sc = [p \in Procs |-> [a \in Pages |-> None]]
  /\ count = [f \in Frames |-> 0]
  /\ free = Frames
  /\ data = [f \in Frames |-> None]
  /\ perm = [p \in Procs |-> TRUE]
  /\ predict = [p \in Procs |-> {}]
  /\ parent = [p \in Procs |-> None]
  /\ job = [p \in Procs |-> Idle]
  /\ panicked = FALSE
  /\ calls = 0
  /\ mem = [p \in Procs |-> [a \in Pages |-> 0]]

(* One free frame is like the other: the allocator hands out the lowest.   *)
alloc == Lowest(free)

(* FrameList::push writes its links into the frame. *)
dealloc(S) ==
  /\ free' = free \cup S
  /\ data' = [f \in Frames |-> IF f \in S THEN None ELSE data[f]]

Runs(p) == p \in alive /\ job[p].kind = "idle" /\ ~panicked

-----------------------------------------------------------------------------
(* User code stores to a page it may write. *)
Store(p, a, v) ==
  /\ Runs(p) /\ a \in Mapped(p) /\ pte[p][a].writable
  /\ data' = [data EXCEPT ![pte[p][a].frame] = v]
  /\ mem' = [mem EXCEPT ![p][a] = v]
  /\ UNCHANGED <<alive, pte, sc, count, free, perm, predict, parent, job, panicked, calls>>

(* page_fault where nothing is mapped yet: default_page_fault_spec. *)
page_fault_new(p, a) ==
  /\ Runs(p) /\ a \notin Mapped(p)
  /\ free # {}
  /\ free' = free \ {alloc}
  /\ data' = [data EXCEPT ![alloc] = 0]
  /\ pte' = [pte EXCEPT ![p][a] = Entry(alloc, FALSE, perm[p])]
  /\ UNCHANGED <<alive, sc, count, perm, predict, parent, job, panicked, mem, calls>>

(* Predicter::insert in the process's predictor and in its parent's.       *)
predict_insert(p, a) ==
  predict' = [q \in Procs |-> IF q \in {p, parent[p]} THEN predict[q] \cup {a} ELSE predict[q]]

(* Mutation: a page with one other owner passes for unique. *)
unique_shared(f) == count[f] <= 2

(* SharedCounter::unique *)
unique(f) == count[f] = 1

(* page_fault for a store to a shared page.  With the last reference the   *)
(* page becomes writable where it is.                                      *)
page_fault_unique(p, a) ==
  /\ Runs(p) /\ a \in Shared(p) /\ perm[p]
  /\ unique(sc[p][a])
  /\ predict_insert(p, a)
  /\ count' = [count EXCEPT ![sc[p][a]] = 0]
  /\ sc' = [sc EXCEPT ![p][a] = None]
  /\ pte' = [pte EXCEPT ![p][a] = Entry(@.frame, FALSE, TRUE)]
  /\ UNCHANGED <<alive, free, data, perm, parent, job, panicked, mem, calls>>

(* Otherwise it is copied; without a frame the call fails, with its entry  *)
(* in the predictor made.                                                  *)
page_fault_copy(p, a) ==
  /\ Runs(p) /\ a \in Shared(p) /\ perm[p]
  /\ ~unique(sc[p][a])
  /\ predict_insert(p, a)
  /\ IF free = {} THEN UNCHANGED <<free, job>> ELSE
       /\ free' = free \ {alloc}
       /\ job' = [job EXCEPT ![p] = [Call("fault", <<<<"copy", a>>, <<"drop", a>>>>) EXCEPT !.new = alloc]]
  /\ UNCHANGED <<alive, pte, sc, count, data, perm, parent, panicked, mem, calls>>

-----------------------------------------------------------------------------
(* The steps of a call. *)
Next1(p) == Head(job[p].todo)

Doing(p, op) ==
  ~panicked /\ job[p].kind # "idle" /\ job[p].todo # <<>> /\ Next1(p)[1] = op

page_copy(p) ==
  /\ Doing(p, "copy")
  /\ data' = [data EXCEPT ![job[p].new] = data[pte[p][Next1(p)[2]].frame]]
  /\ job' = [job EXCEPT ![p].todo = Tail(@)]
  /\ UNCHANGED <<alive, pte, sc, count, free, perm, predict, parent, panicked, mem, calls>>

(* Whose counter the step drops: rolling a fork back drops the child's.    *)
Owner(p) == IF job[p].kind = "undo" THEN job[p].child ELSE p

(* SCManager::remove_ua unwraps the entry; decrease loads the value.       *)
decrease_load(p) ==
  LET q == Owner(p) a == Next1(p)[2] IN
  /\ Doing(p, "drop") /\ job[p].seen = None
  /\ IF sc[q][a] = None
     THEN panicked' = TRUE /\ UNCHANGED job
     ELSE job' = [job EXCEPT ![p].seen = count[sc[q][a]]] /\ UNCHANGED panicked
  /\ UNCHANGED <<alive, pte, sc, count, free, data, perm, predict, parent, mem, calls>>

(* Mutation: the value that was loaded is taken for the one fetch_sub returns.*)
decrease_stale(p, f) ==
  [old |-> job[p].seen, left |-> IF count[f] = 0 THEN 0 ELSE count[f] - 1]

(* decrease, after the load: the old value and what is left. *)
decrease(p, f) ==
  IF job[p].seen = 1 THEN [old |-> 1, left |-> 0]
  ELSE [old |-> count[f], left |-> IF count[f] = 0 THEN 0 ELSE count[f] - 1]

(* A call drops its reference, and the last owner gives the frame back.    *)
(* page_fault then installs the copy, writable if the area is; unmapping   *)
(* empties the entry.  A fork that is rolled back unwraps the answer that  *)
(* others own the page, too.                                               *)
consume(p) ==
  LET q == Owner(p) a == Next1(p)[2] f == sc[q][a] d == decrease(p, f) IN
  /\ Doing(p, "drop") /\ job[p].seen # None
  /\ count' = [count EXCEPT ![f] = d.left]
  /\ sc' = [sc EXCEPT ![q][a] = None]
  /\ pte' = CASE job[p].kind = "fault" -> [pte EXCEPT ![p][a] = Entry(job[p].new, FALSE, perm[p])]
              [] job[p].kind = "unmap" -> [pte EXCEPT ![p][a] = None]
              [] job[p].kind = "undo" -> pte
  /\ dealloc(IF d.old = 1 /\ job[p].kind # "undo" THEN {f} ELSE {})
  /\ panicked' = (d.old = 1 /\ job[p].kind = "undo")
  /\ job' = [job EXCEPT ![p] =
       IF @.kind = "fault" THEN Idle ELSE [@ EXCEPT !.todo = Tail(@), !.seen = None]]
  /\ UNCHANGED <<alive, perm, predict, parent, mem, calls>>

-----------------------------------------------------------------------------
Unused(c) ==
  /\ c \notin alive /\ job[c] = Idle
  /\ \A q \in Procs : job[q].kind \in {"fork", "undo"} => job[q].child # c

(* fork: the child's table is built page by page, from the lowest. *)
fork(p, c) ==
  /\ Runs(p) /\ calls < MaxCalls /\ calls' = calls + 1 /\ Unused(c)
  /\ job' = [job EXCEPT ![p] =
       [Call("fork", <<>>) EXCEPT !.child = c, !.range = Mapped(p), !.hits = predict[p]]]
  /\ UNCHANGED <<alive, pte, sc, count, free, data, perm, predict, parent, panicked, mem>>

Forking(p, a) ==
  ~panicked /\ job[p].kind = "fork" /\ job[p].range # {} /\ a = Lowest(job[p].range)

Predicted(p, a) == a \in job[p].hits /\ perm[p]

(* Mutation: the parent keeps its write permission. *)
become_shared_writable(e) == [e EXCEPT !.shared = TRUE]

(* PageTableEntry::become_shared, for an area that is copied on write.     *)
become_shared(e) == [e EXCEPT !.shared = TRUE, !.writable = FALSE]

(* A page becomes shared with a counter of 2, or gains a reference. *)
fork_share(p, a) ==
  LET c == job[p].child f == pte[p][a].frame IN
  /\ Forking(p, a) /\ ~Predicted(p, a)
  /\ count' = [count EXCEPT ![f] = IF pte[p][a].shared THEN @ + 1 ELSE 2]
  /\ sc' = [sc EXCEPT ![p][a] = f, ![c][a] = f]
  /\ pte' = [pte EXCEPT ![p][a] = become_shared(pte[p][a]), ![c][a] = become_shared(pte[p][a])]
  /\ job' = [job EXCEPT ![p].range = @ \ {a}]
  /\ UNCHANGED <<alive, free, data, perm, predict, parent, panicked, mem, calls>>

(* A page whose fault is predicted is copied for the child. *)
fork_copy(p, a) ==
  /\ Forking(p, a) /\ Predicted(p, a)
  /\ free # {}
  /\ free' = free \ {alloc}
  /\ data' = [data EXCEPT ![alloc] = data[pte[p][a].frame]]
  /\ pte' = [pte EXCEPT ![job[p].child][a] = Entry(alloc, FALSE, perm[p])]
  /\ job' = [job EXCEPT ![p].range = @ \ {a}]
  /\ UNCHANGED <<alive, sc, count, perm, predict, parent, panicked, mem, calls>>

Undo(S) ==
  FlattenSeq([i \in 1 .. Cardinality(S) |-> <<<<"drop", InOrder(S)[i]>>, <<"try", InOrder(S)[i]>>>>])

(* There is no frame for a directory of the child's table, or for the copy.*)
(* The pages of this area are taken back one by one; then                  *)
(* check_remove_all drops the other counters, and the pages of the earlier *)
(* areas follow.                                                           *)
fork_fails(p, a) ==
  \E layout \in Layouts : \E area \in layout :
  LET c == job[p].child  here == Mapped(c) \cap area  earlier == Mapped(c) \ area IN
  /\ Forking(p, a) /\ a \in area
  /\ job' = [job EXCEPT ![p].kind = "undo", ![p].todo =
       Undo(here) \o Steps("drop", earlier \cap Shared(c)) \o Steps("try", earlier)]
  /\ UNCHANGED <<alive, pte, sc, count, free, data, perm, predict, parent, panicked, mem, calls>>

(* The child's entry is reset, and the parent owns the page again if it has*)
(* the only reference.  A page that was copied has no counter to take back:*)
(* the assertion that every page is shared fails.                          *)
try_remove_unique(p) ==
  LET c == job[p].child a == Next1(p)[2] f == sc[p][a] IN
  /\ Doing(p, "try")
  /\ IF ~pte[c][a].shared THEN panicked' = TRUE /\ UNCHANGED <<pte, sc, count, job>> ELSE
       /\ job' = [job EXCEPT ![p].todo = Tail(@)]
       /\ IF unique(f)
          THEN /\ count' = [count EXCEPT ![f] = 0]
               /\ sc' = [sc EXCEPT ![p][a] = None]
               /\ pte' = [pte EXCEPT ![c][a] = None, ![p][a] = Entry(f, FALSE, perm[p])]
          ELSE /\ pte' = [pte EXCEPT ![c][a] = None]
               /\ UNCHANGED <<count, sc>>
       /\ UNCHANGED panicked
  /\ UNCHANGED <<alive, free, data, perm, predict, parent, mem, calls>>

fork_undone(p) ==
  /\ ~panicked /\ job[p].kind = "undo" /\ job[p].todo = <<>>
  /\ job' = [job EXCEPT ![p] = Idle]
  /\ UNCHANGED <<alive, pte, sc, count, free, data, perm, predict, parent, panicked, mem, calls>>

fork_done(p) ==
  LET c == job[p].child IN
  /\ ~panicked /\ job[p].kind = "fork" /\ job[p].range = {}
  /\ alive' = alive \cup {c}
  /\ perm' = [perm EXCEPT ![c] = perm[p]]
  /\ parent' = [parent EXCEPT ![c] = p]
  /\ mem' = [mem EXCEPT ![c] = mem[p]]
  /\ job' = [job EXCEPT ![p] = Idle]
  /\ UNCHANGED <<pte, sc, count, free, data, predict, panicked, calls>>

-----------------------------------------------------------------------------
(* unmap of an area, and clear when the process exits: release_impl drops  *)
(* the counters of the shared pages, then unmap frees the others.          *)
unmap(p, S) ==
  /\ Runs(p) /\ calls < MaxCalls /\ calls' = calls + 1
  /\ job' = [job EXCEPT ![p] = [Call("unmap", Steps("drop", S \cap Shared(p))) EXCEPT !.range = S]]
  /\ UNCHANGED <<alive, pte, sc, count, free, data, perm, predict, parent, panicked, mem>>

clear(p) ==
  /\ Runs(p) /\ calls < MaxCalls /\ calls' = calls + 1
  /\ alive' = alive \ {p}
  /\ job' = [job EXCEPT ![p] = [Call("unmap", Steps("drop", Shared(p))) EXCEPT !.range = Pages]]
  /\ UNCHANGED <<pte, sc, count, free, data, perm, predict, parent, panicked, mem>>

(* What is left in the area is the process's own; a new mapping starts     *)
(* with zeros.  The predictor ends with its process.                       *)
unmap_done(p) ==
  LET own == job[p].range \cap Mapped(p) IN
  /\ ~panicked /\ job[p].kind = "unmap" /\ job[p].todo = <<>>
  /\ dealloc({pte[p][a].frame : a \in own})
  /\ pte' = [pte EXCEPT ![p] = [a \in Pages |-> IF a \in own THEN None ELSE @[a]]]
  /\ mem' = [mem EXCEPT ![p] = [a \in Pages |-> IF a \in job[p].range THEN 0 ELSE @[a]]]
  /\ job' = [job EXCEPT ![p] = Idle]
  /\ IF p \in alive THEN UNCHANGED <<predict, parent, perm>> ELSE
       /\ predict' = [predict EXCEPT ![p] = {}]
       /\ parent' = [q \in Procs |-> IF p \in {q, parent[q]} THEN None ELSE parent[q]]
       /\ perm' = [perm EXCEPT ![p] = TRUE]
  /\ UNCHANGED <<alive, sc, count, panicked, calls>>

(* modify_perm: the entries of shared pages stay as they are. *)
modify_perm(p, w) ==
  /\ Runs(p) /\ calls < MaxCalls /\ calls' = calls + 1 /\ perm[p] # w
  /\ perm' = [perm EXCEPT ![p] = w]
  /\ pte' = [pte EXCEPT ![p] = [a \in Pages |->
       IF a \in Mapped(p) \ Shared(p) THEN [@[a] EXCEPT !.writable = w] ELSE @[a]]]
  /\ UNCHANGED <<alive, sc, count, free, data, predict, parent, job, panicked, mem>>

(* A panic stops the kernel; without processes, or calls, nothing happens. *)
Stopped == (panicked \/ alive = {} \/ calls = MaxCalls) /\ UNCHANGED vars

Next ==
  \/ Stopped
  \/ \E p \in Procs :
    \/ \E a \in Pages :
         \/ \E v \in Values : Store(p, a, v)
         \/ page_fault_new(p, a) \/ page_fault_unique(p, a) \/ page_fault_copy(p, a)
         \/ fork_share(p, a) \/ fork_copy(p, a) \/ fork_fails(p, a)
    \/ page_copy(p) \/ decrease_load(p) \/ consume(p) \/ try_remove_unique(p)
    \/ fork_undone(p) \/ fork_done(p) \/ unmap_done(p)
    \/ \E c \in Procs : fork(p, c)
    \/ \E layout \in Layouts : \E S \in layout : unmap(p, S)
    \/ clear(p)
    \/ \E w \in BOOLEAN : modify_perm(p, w)

Spec == Init /\ [][Next]_vars

-----------------------------------------------------------------------------
(* The type invariant. *)
TypeOK ==
  /\ alive \subseteq Procs /\ free \subseteq Frames
  /\ pte \in [Procs -> [Pages -> {None} \cup [frame : Frames, shared : BOOLEAN, writable : BOOLEAN]]]
  /\ sc \in [Procs -> [Pages -> {None} \cup Frames]]
  /\ count \in [Frames -> 0 .. Cardinality(Procs)]
  /\ data \in [Frames -> Values \cup {0, None}]

(* No process sees another's stores: what it finds in a mapped page is what*)
(* it wrote or inherited, whatever fork, copying and unmapping go on in    *)
(* other processes; a page that was never touched reads as zeros.          *)
Isolation ==
  \A p \in alive : job[p] = Idle => \A a \in Pages :
    IF a \in Mapped(p) THEN data[pte[p][a].frame] = mem[p][a] ELSE mem[p][a] = 0

Holders(f) == {<<p, a>> \in Procs \X Pages : sc[p][a] = f}

Owners(f) == {<<p, a>> \in Procs \X Pages : a \in Mapped(p) \ Shared(p) /\ pte[p][a].frame = f}

(* The counters count the references exactly, no shared page is writable,  *)
(* and every frame is free, in one table as that process's own, in the     *)
(* hands of a page fault, or counted: none leaks, none is freed under a    *)
(* process that maps it.                                                   *)
CountsExact ==
  ~panicked => \A f \in Frames :
    LET holders == Holders(f)
        owners == Owners(f)
        faults == {p \in Procs : job[p].kind = "fault" /\ job[p].new = f}
    IN
    /\ count[f] = Cardinality(holders)
    /\ (f \in free) = (holders = {} /\ owners = {} /\ faults = {})
    /\ Cardinality(owners) + Cardinality(faults) <= 1
    /\ owners # {} => holders = {}
    /\ \A h \in holders : pte[h[1]][h[2]] = Entry(f, TRUE, FALSE)
=============================================================================
