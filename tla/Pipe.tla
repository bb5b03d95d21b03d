-------------------------------- MODULE Pipe --------------------------------
(***************************************************************************)
(* The pipe of kernel/src/fs/pipe.rs: a ring of RING_PAGE pages with one    *)
(* index per end, read by one task and written by another at the same time *)
(* without a common lock.  Each end has a sleep lock (only one reader and   *)
(* one writer are inside), a slot with the waker of the task inside, and    *)
(* the reference count of its file (Weak::strong_count tells the other end  *)
(* whether it is closed).                                                   *)
(*                                                                         *)
(* A byte is its number in the order of writing.  A task is suspended as in *)
(* async-task: a wake of a suspended task schedules it, a wake of a running *)
(* one makes it run again instead of suspending.                            *)
(***************************************************************************)
EXTENDS Integers, Sequences, FiniteSets

CONSTANTS
  Readers, Writers,       \* tasks holding the read end and the write end
  PAGE_SIZE, RING_PAGE,
  MaxLen,                 \* bound: the longest buffer of a call
  MaxBytes,               \* bound: no write starts after so many bytes
  Fast,                   \* whether calls try read_fast/write_fast first
  None

RING_SIZE == RING_PAGE * PAGE_SIZE

ASSUME PipeAssumption ==
  /\ PAGE_SIZE \in Nat \ {0} /\ RING_PAGE \in Nat \ {0} /\ RING_SIZE > 1
  /\ MaxLen \in Nat \ {0} /\ MaxBytes \in Nat \ {0} /\ Fast \in BOOLEAN
  /\ Readers \cap Writers = {} /\ None \notin Readers \cup Writers

VARIABLES
  read_at, write_at, \* Pipe.read_at, Pipe.write_at
  ring,              \* Pipe.buffer, one cell per byte
  sent,              \* bytes published so far
  recv,              \* the bytes copied out to the readers, in order
  lk,                \* the task inside each end (SleepMutex), or None
  waker,             \* PipeReader.waker and PipeWriter.waker
  open,              \* the tasks that still hold their file
  pc,
  want, current,     \* buffer.len() and Read/WritePipeFuture.current
  todo,              \* len - cur of the running Pipe::read or Pipe::write
  notified           \* async-task: woken while running

ringvars == <<read_at, write_at, ring, sent, recv>>
endvars  == <<lk, waker, open>>
callvars == <<want, current, todo>>
vars == <<ringvars, endvars, pc, callvars, notified>>

Tasks == Readers \cup Writers
Ends  == {"r", "w"}
EndOf(t)   == IF t \in Readers THEN "r" ELSE "w"
PeerOf(t)  == IF t \in Readers THEN "w" ELSE "r"
Peers(t)   == IF t \in Readers THEN Writers ELSE Readers
Min2(a, b) == IF a < b THEN a ELSE b

max_read  == (write_at + RING_SIZE - read_at) % RING_SIZE

(* Mutation: no byte is kept free, so a full ring looks empty. *)
max_write_whole == RING_SIZE - max_read

max_write == (read_at + RING_SIZE - 1 - write_at) % RING_SIZE

(* What the task's own end can move now, and where. *)
Room(t) == IF t \in Readers THEN max_read ELSE max_write
At(t)   == IF t \in Readers THEN read_at ELSE write_at

(* get_range: a chunk never crosses a page. *)
Chunk(t) == Min2(todo[t], PAGE_SIZE - (At(t) % PAGE_SIZE))

(* Arc::strong_count of an end's file: the tasks that hold it, and the      *)
(* peers inside wake_reader/wake_writer, which hold an upgraded reference.  *)
strong_count(e) ==
  Cardinality({t \in open : EndOf(t) = e}) + Cardinality({t \in Tasks : PeerOf(t) = e /\ pc[t] = "waking"})

Init ==
  /\ read_at = 0 /\ write_at = 0
  /\ ring = [i \in 0..RING_SIZE-1 |-> 0]
  /\ sent = 0 /\ recv = <<>>
  /\ lk = [e \in Ends |-> None] /\ waker = [e \in Ends |-> None]
  /\ open = Tasks
  /\ pc = [t \in Tasks |-> "idle"]
  /\ want = [t \in Tasks |-> 0] /\ current = [t \in Tasks |-> 0]
  /\ todo = [t \in Tasks |-> 0]
  /\ notified = [t \in Tasks |-> FALSE]

Goto(t, l) == pc' = [pc EXCEPT ![t] = l]

-----------------------------------------------------------------------------
(* sys_read/sys_write with a buffer of n > 0 bytes.  The fast system call   *)
(* goes first where it is enabled; without room for the whole buffer it     *)
(* answers EAGAIN and the call continues in read/write.                     *)
call(t, n) ==
  /\ pc[t] = "idle" /\ t \in open
  /\ t \in Writers => sent < MaxBytes
  /\ want' = [want EXCEPT ![t] = n]
  /\ Goto(t, IF Fast /\ Room(t) >= n THEN "fast" ELSE "lock")
  /\ UNCHANGED <<ringvars, endvars, current, todo, notified>>

(* read_fast/write_fast after the unlocked test: try_lock, the test under   *)
(* the lock (both functions test max_write), then Pipe::read/Pipe::write.   *)
fast(t) ==
  /\ pc[t] = "fast"
  /\ IF lk[EndOf(t)] = None /\ max_write >= want[t]
     THEN /\ lk' = [lk EXCEPT ![EndOf(t)] = t]
          /\ todo' = [todo EXCEPT ![t] = Min2(want[t], Room(t))]
          /\ Goto(t, "fread")
     ELSE /\ Goto(t, "lock")
          /\ UNCHANGED <<lk, todo>>
  /\ UNCHANGED <<ringvars, waker, open, want, current, notified>>

(* self.pipe.lock().await, then Read/WritePipeFuture::init stores the waker. *)
lock(t) ==
  /\ pc[t] = "lock" /\ lk[EndOf(t)] = None
  /\ lk' = [lk EXCEPT ![EndOf(t)] = t]
  /\ Goto(t, "init")
  /\ UNCHANGED <<ringvars, waker, open, callvars, notified>>

init(t) ==
  /\ pc[t] = "init"
  /\ waker' = [waker EXCEPT ![EndOf(t)] = t]
  /\ Goto(t, "poll")
  /\ UNCHANGED <<ringvars, lk, open, callvars, notified>>

(* The head of the poll loop: all done, nothing to move, or a Pipe::read or *)
(* Pipe::write of len bytes.                                                *)
poll(t) ==
  /\ pc[t] = "poll"
  /\ Goto(t, IF current[t] = want[t] THEN "ret" ELSE IF Room(t) = 0 THEN "check" ELSE "copy")
  /\ todo' = [todo EXCEPT ![t] = IF current[t] = want[t] THEN 0 ELSE Min2(want[t] - current[t], Room(t))]
  /\ UNCHANGED <<ringvars, endvars, want, current, notified>>

(* can_read()/can_write() was false: the peer's strong_count, read now,     *)
(* decides between end of file (EPIPE), a short read and suspension.        *)
check(t) ==
  /\ pc[t] = "check"
  /\ Goto(t, IF t \in Readers
             THEN IF current[t] # 0 THEN "ret" ELSE IF strong_count("w") = 0 THEN "eof" ELSE "park"
             ELSE IF strong_count("r") = 0 THEN "epipe" ELSE "park")
  /\ UNCHANGED <<ringvars, endvars, callvars, notified>>

(* Mutation: a wake that arrives before the task is suspended is lost. *)
park_deaf(t) ==
  /\ pc[t] = "park"
  /\ Goto(t, "parked")
  /\ notified' = [notified EXCEPT ![t] = FALSE]
  /\ UNCHANGED <<ringvars, endvars, callvars>>

(* Join2Future is pending: the task suspends unless it was woken meanwhile. *)
park(t) ==
  /\ pc[t] = "park"
  /\ Goto(t, IF notified[t] THEN "poll" ELSE "parked")
  /\ notified' = [notified EXCEPT ![t] = FALSE]
  /\ UNCHANGED <<ringvars, endvars, callvars>>

(* A RECEIVE_SIGNAL event wakes the task, which polls the pipe first and    *)
(* answers EINTR if that is still pending.                                  *)
signal(t) ==
  /\ pc[t] = "parked"
  /\ Goto(t, "poll")
  /\ UNCHANGED <<ringvars, endvars, callvars, notified>>

interrupted(t) ==
  /\ pc[t] = "park"
  /\ Goto(t, "ret")
  /\ UNCHANGED <<ringvars, endvars, callvars, notified>>

(* One chunk of Pipe::read or Pipe::write: the bytes are copied, then the   *)
(* index is stored, then the other end is woken.                            *)
Window(t) == {(At(t) + i) % RING_SIZE : i \in 0..Chunk(t)-1}

copy(t) ==
  /\ pc[t] \in {"copy", "fread"} /\ todo[t] > 0
  /\ IF t \in Readers
     THEN /\ recv' = recv \o [i \in 1..Chunk(t) |-> ring[(read_at + i - 1) % RING_SIZE]]
          /\ UNCHANGED ring
     ELSE /\ ring' = [i \in DOMAIN ring |-> IF i \in Window(t) THEN sent + (i - write_at) + 1 ELSE ring[i]]
          /\ UNCHANGED recv
  /\ Goto(t, "store")
  /\ UNCHANGED <<read_at, write_at, sent, endvars, callvars, notified>>

(* Mutation: the index is not reduced modulo the ring. *)
store_unwrapped(t) ==
  /\ pc[t] = "store"
  /\ IF t \in Readers
     THEN read_at' = read_at + Chunk(t) /\ UNCHANGED <<write_at, sent>>
     ELSE /\ write_at' = write_at + Chunk(t)
          /\ sent' = sent + Chunk(t)
          /\ UNCHANGED read_at
  /\ current' = [current EXCEPT ![t] = @ + Chunk(t)]
  /\ todo' = [todo EXCEPT ![t] = @ - Chunk(t)]
  /\ Goto(t, "wake")
  /\ UNCHANGED <<ring, recv, endvars, want, notified>>

store(t) ==
  /\ pc[t] = "store"
  /\ IF t \in Readers
     THEN read_at' = (read_at + Chunk(t)) % RING_SIZE /\ UNCHANGED <<write_at, sent>>
     ELSE /\ write_at' = (write_at + Chunk(t)) % RING_SIZE
          /\ sent' = sent + Chunk(t)
          /\ UNCHANGED read_at
  /\ current' = [current EXCEPT ![t] = @ + Chunk(t)]
  /\ todo' = [todo EXCEPT ![t] = @ - Chunk(t)]
  /\ Goto(t, "wake")
  /\ UNCHANGED <<ring, recv, endvars, want, notified>>

(* Waker::wake_by_ref of the tasks in s. *)
Wake(s, pcs) ==
  /\ pc' = [t \in Tasks |-> IF t \in s /\ pcs[t] = "parked" THEN "poll" ELSE pcs[t]]
  /\ notified' = [t \in Tasks |-> notified[t] \/ (t \in s /\ pcs[t] # "parked")]

Holder(e) == {waker[e]} \ {None}

(* The loop of Pipe::read or Pipe::write goes on until len is moved. *)
After(t) == IF todo[t] > 0 THEN "copy" ELSE "poll"

(* wake_writer/wake_reader: upgrade the peer's file (nothing to do when it  *)
(* is closed), then wake the task in its slot and drop the reference.  The  *)
(* last reference runs the peer file's Drop in this task.                   *)
upgrade(t) ==
  /\ pc[t] = "wake"
  /\ Goto(t, IF strong_count(PeerOf(t)) = 0 THEN After(t) ELSE "waking")
  /\ UNCHANGED <<ringvars, endvars, callvars, notified>>

wake_peer(t) ==
  /\ pc[t] = "waking"
  /\ Wake(Holder(PeerOf(t)), [pc EXCEPT ![t] = IF strong_count(PeerOf(t)) = 1 THEN "drop_peer" ELSE After(t)])
  /\ UNCHANGED <<ringvars, endvars, callvars>>

(* The call returns and the guard of the sleep lock is dropped. *)
ret(t) ==
  /\ pc[t] \in {"ret", "eof", "epipe"}
  /\ lk' = [lk EXCEPT ![EndOf(t)] = None]
  /\ want' = [want EXCEPT ![t] = 0] /\ current' = [current EXCEPT ![t] = 0]
  /\ Goto(t, "idle")
  /\ UNCHANGED <<ringvars, waker, open, todo, notified>>

(* A task closes its file; the last reference runs Drop, which takes the    *)
(* waker of the other end and wakes it if that end is still open.           *)
close(t) ==
  /\ pc[t] = "idle" /\ t \in open
  /\ open' = open \ {t}
  /\ Goto(t, IF strong_count(EndOf(t)) = 1 THEN "drop" ELSE "done")
  /\ UNCHANGED <<ringvars, lk, waker, callvars, notified>>

(* Mutation: Drop does not wake the other end. *)
DropEnd_silent(t, e, then) == Goto(t, then) /\ UNCHANGED <<waker, notified>>

(* Drop of PipeReader and PipeWriter, for the file of end e. *)
DropEnd(t, e, then) ==
  LET o == IF e = "r" THEN "w" ELSE "r" IN
  IF strong_count(o) > 0
  THEN /\ Wake(Holder(o), [pc EXCEPT ![t] = then])
       /\ waker' = [waker EXCEPT ![o] = None]
  ELSE Goto(t, then) /\ UNCHANGED <<waker, notified>>

drop(t) ==
  /\ \/ pc[t] = "drop" /\ DropEnd(t, EndOf(t), "done")
     \/ pc[t] = "drop_peer" /\ DropEnd(t, PeerOf(t), After(t))
  /\ UNCHANGED <<ringvars, lk, open, callvars>>

Terminated == pc = [t \in Tasks |-> "done"] /\ UNCHANGED vars

Step(t) ==
  \/ fast(t) \/ lock(t) \/ init(t) \/ poll(t) \/ check(t) \/ park(t)
  \/ copy(t) \/ store(t) \/ upgrade(t) \/ wake_peer(t) \/ ret(t) \/ drop(t)

Next ==
  \/ \E t \in Tasks :
       Step(t) \/ signal(t) \/ interrupted(t) \/ close(t) \/ \E n \in 1..MaxLen : call(t, n)
  \/ Terminated

Spec == Init /\ [][Next]_vars

(* The executor keeps running scheduled tasks. *)
FairSpec == Spec /\ \A t \in Tasks : WF_vars(Step(t))

-----------------------------------------------------------------------------
PCs == {"idle", "fast", "fread", "lock", "init", "poll", "check", "park", "parked", "copy", "store",
        "wake", "waking", "ret", "eof", "epipe", "drop", "drop_peer", "done"}

(* Every variable has its type; the indices stay inside the ring. *)
TypeOK ==
  /\ read_at \in 0..RING_SIZE-1 /\ write_at \in 0..RING_SIZE-1
  /\ ring \in [0..RING_SIZE-1 -> Nat]
  /\ sent \in Nat /\ recv \in Seq(Nat)
  /\ lk \in [Ends -> Tasks \cup {None}] /\ waker \in [Ends -> Tasks \cup {None}]
  /\ open \in SUBSET Tasks
  /\ pc \in [Tasks -> PCs]
  /\ want \in [Tasks -> 0..MaxLen] /\ current \in [Tasks -> 0..MaxLen] /\ todo \in [Tasks -> 0..MaxLen]
  /\ notified \in [Tasks -> BOOLEAN]

(* The readers obtain exactly the bytes written, in the order of writing,   *)
(* each once: a reader and a writer copying at the same time, chunks that   *)
(* end at a page, and indices that wrap, never lose, repeat or overwrite a  *)
(* byte (Pipe::read, Pipe::write).                                          *)
BytesInOrder == /\ recv = [i \in 1..Len(recv) |-> i]
                /\ Len(recv) <= sent

Gone(t) == strong_count(PeerOf(t)) = 0

(* No lost wakeup: a task that sleeps although its end could move a byte, or *)
(* although the other end is gone, is about to be woken by a peer that has  *)
(* stored its index or dropped its file (poll, wake_reader, wake_writer and *)
(* the two Drops against each other).                                       *)
NoSleepBesideRoom ==
  \A t \in Tasks : pc[t] = "parked" /\ (Room(t) > 0 \/ Gone(t)) =>
    \/ \E p \in Peers(t) : pc[p] \in {"wake", "waking", "drop"}
    \/ \E p \in Tasks : pc[p] = "drop_peer" /\ PeerOf(p) = PeerOf(t)

(* The assertion at the end of read_fast and write_fast: Pipe::read or      *)
(* Pipe::write moves the whole buffer.                                      *)
FastMovesAll == \A t \in Tasks : pc[t] = "fread" => todo[t] = want[t]

(* A read answers 0, end of file, only when every byte written was read.    *)
EofMeansDrained == \A t \in Readers : pc[t] = "eof" => max_read = 0

(* A task that sleeps while its end could move a byte, or while the other   *)
(* end is closed, is eventually scheduled again.                            *)
SleeperWoken ==
  \A t \in Tasks : pc[t] = "parked" /\ (Room(t) > 0 \/ Gone(t)) ~> pc[t] # "parked"
=============================================================================
