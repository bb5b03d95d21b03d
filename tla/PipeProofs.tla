----------------------------- MODULE PipeProofs -----------------------------
(***************************************************************************)
(* Proofs about Pipe for any readers and writers, pages and rings of any    *)
(* size and buffers of any length.                                          *)
(*                                                                         *)
(* The readers get the bytes in the order of writing, each once.  The       *)
(* argument: between the two indices are, in order, the bytes sent and not  *)
(* yet consumed; an end moves no more than the room it saw, and the other   *)
(* end can only give it more.                                               *)
(*                                                                         *)
(* No task sleeps beside room, or beside a closed end, without being woken. *)
(* The argument: a task leaves its waker before it looks at the ring, and   *)
(* looks at the other end's reference count last; room for it appears only  *)
(* by a store, after which the other end wakes it, and an end is closed     *)
(* only by a file whose Drop wakes it.  A wake that finds the task not yet  *)
(* asleep stays with it until it is.                                        *)
(***************************************************************************)
EXTENDS Pipe, TLAPS

Inside == {"fread", "init", "poll", "check", "park", "parked", "copy", "store", "wake", "waking",
           "ret", "eof", "epipe", "drop_peer"}
Moving == {"fread", "copy", "store", "wake", "waking", "drop_peer"}

(* One task is inside an end, and it has the lock of that end. *)
LockInv == \A t \in Tasks : pc[t] \in Inside => lk[EndOf(t)] = t

(* What a call has moved, and what the running Pipe::read or Pipe::write has *)
(* still to move: never more than the ring has room for.                     *)
CallOne(t) ==
  /\ current[t] <= want[t]
  /\ pc[t] \in {"idle", "fast", "lock", "init", "fread", "drop", "done"} => current[t] = 0
  /\ pc[t] \in Moving => current[t] + todo[t] <= want[t] /\ todo[t] <= Room(t)
  /\ pc[t] \in {"copy", "store"} => todo[t] > 0

CallInv == \A t \in Tasks : CallOne(t)

(* The bytes the readers have given back to the ring. *)
Consumed == sent - max_read

(* The place k bytes after i. *)
Wrap(i, k) == IF i + k < RING_SIZE THEN i + k ELSE i + k - RING_SIZE

(* Between the indices are the bytes that were sent and not consumed; a      *)
(* reader has copied a chunk more, a writer has put one behind them.         *)
RingInv ==
  /\ \A k \in 0..max_read-1 : ring[Wrap(read_at, k)] = Consumed + k + 1
  /\ \A t \in Writers : pc[t] = "store" => \A k \in 0..Chunk(t)-1 : ring[write_at + k] = sent + k + 1
  /\ \A t \in Readers : pc[t] = "store" => Len(recv) = Consumed + Chunk(t)
  /\ (\A t \in Readers : pc[t] # "store") => Len(recv) = Consumed
  /\ \A i \in 1..Len(recv) : recv[i] = i

IInv == TypeOK /\ LockInv /\ CallInv /\ RingInv

-----------------------------------------------------------------------------
(* The ring has at least two cells. *)
LEMMA RingSize == RING_SIZE \in Nat /\ RING_SIZE > 1
  BY PipeAssumption DEF RING_SIZE

(* Division with remainder. *)
LEMMA DivMod ==
  ASSUME NEW x \in Nat, NEW r \in Nat \ {0}
  PROVE  x \div r \in Nat /\ x % r \in 0..r-1 /\ x = r * (x \div r) + (x % r)
  OBVIOUS

(* Products grow with their factors. *)
LEMMA MulMono ==
  ASSUME NEW r \in Nat, NEW q \in Nat, NEW k \in Nat, q >= k
  PROVE  r * q >= r * k
<1>1. PICK d \in Nat : q = k + d
  <2>1. q - k \in Nat /\ q = k + (q - k)
    OBVIOUS
  <2> QED
    BY <2>1, Zenon
<1>2. r * q = r * k + r * d
  BY <1>1
<1>3. r * d \in Nat /\ r * k \in Nat
  OBVIOUS
<1> QED
  BY <1>2, <1>3

(* An index that has passed the end of the ring once. *)
LEMMA ModWrap ==
  ASSUME NEW x \in Nat, NEW r \in Nat \ {0}, x < 2 * r
  PROVE  x % r = IF x < r THEN x ELSE x - r
<1>1. x \div r \in Nat /\ x % r \in 0..r-1 /\ x = r * (x \div r) + (x % r)
  BY DivMod, Zenon
<1>2. CASE x \div r = 0
  BY <1>1, <1>2
<1>3. CASE x \div r = 1
  BY <1>1, <1>3
<1>4. CASE x \div r >= 2
  <2>1. r * (x \div r) >= r * 2
    BY <1>1, <1>4, MulMono, Zenon
  <2> QED
    BY <1>1, <2>1
<1> QED
  BY <1>1, <1>2, <1>3, <1>4

(* The end of the page of an index lies in the ring. *)
LEMMA PageEnd ==
  ASSUME NEW a \in 0..RING_SIZE-1
  PROVE  a % PAGE_SIZE \in 0..PAGE_SIZE-1 /\ a + (PAGE_SIZE - (a % PAGE_SIZE)) <= RING_SIZE
<1> DEFINE q == a \div PAGE_SIZE
<1>0. PAGE_SIZE \in Nat \ {0} /\ RING_PAGE \in Nat \ {0} /\ a \in Nat /\ RING_SIZE \in Nat
  BY PipeAssumption, RingSize
<1>1. q \in Nat /\ a % PAGE_SIZE \in 0..PAGE_SIZE-1 /\ a = PAGE_SIZE * q + (a % PAGE_SIZE)
  BY <1>0, DivMod, Zenon
<1> HIDE DEF q
<1>2. q < RING_PAGE
  <2> SUFFICES ASSUME q >= RING_PAGE PROVE FALSE
    BY <1>0, <1>1
  <2>1. PAGE_SIZE * q >= PAGE_SIZE * RING_PAGE
    BY <1>0, <1>1, MulMono, Zenon
  <2>2. PAGE_SIZE * RING_PAGE = RING_SIZE
    BY <1>0 DEF RING_SIZE
  <2> QED
    BY <1>0, <1>1, <2>1, <2>2
<1>3. PAGE_SIZE * RING_PAGE >= PAGE_SIZE * (q + 1)
  BY <1>0, <1>1, <1>2, MulMono
<1>4. PAGE_SIZE * (q + 1) = PAGE_SIZE * q + PAGE_SIZE /\ PAGE_SIZE * RING_PAGE = RING_SIZE /\ PAGE_SIZE * q \in Nat
  BY <1>0, <1>1 DEF RING_SIZE
<1> QED
  BY <1>0, <1>1, <1>3, <1>4

-----------------------------------------------------------------------------
(* What can be read and written, without the wrapping. *)
LEMMA RoomFacts ==
  ASSUME NEW r \in 0..RING_SIZE-1, NEW w \in 0..RING_SIZE-1
  PROVE  /\ (w + RING_SIZE - r) % RING_SIZE = IF r <= w THEN w - r ELSE w + RING_SIZE - r
         /\ (r + RING_SIZE - 1 - w) % RING_SIZE = RING_SIZE - 1 - (IF r <= w THEN w - r ELSE w + RING_SIZE - r)
<1>0. RING_SIZE \in Nat \ {0}
  BY RingSize
<1>m. \A x \in Nat : x < 2 * RING_SIZE => x % RING_SIZE = IF x < RING_SIZE THEN x ELSE x - RING_SIZE
  BY <1>0, ModWrap, Zenon
<1>1. PICK x \in Nat : x = w + RING_SIZE - r /\ x < 2 * RING_SIZE
  <2>1. w + RING_SIZE - r \in Nat /\ w + RING_SIZE - r < 2 * RING_SIZE
    BY <1>0
  <2> QED
    BY <2>1, Zenon
<1>2. PICK y \in Nat : y = r + RING_SIZE - 1 - w /\ y < 2 * RING_SIZE
  <2>1. r + RING_SIZE - 1 - w \in Nat /\ r + RING_SIZE - 1 - w < 2 * RING_SIZE
    BY <1>0
  <2> QED
    BY <2>1, Zenon
<1> DEFINE m == x % RING_SIZE
           k == y % RING_SIZE
<1>3. m = IF x < RING_SIZE THEN x ELSE x - RING_SIZE
  BY <1>1, <1>m, Zenon
<1>4. k = IF y < RING_SIZE THEN y ELSE y - RING_SIZE
  BY <1>2, <1>m, Zenon
<1> HIDE DEF m, k
<1>5. m = IF r <= w THEN w - r ELSE w + RING_SIZE - r
  BY <1>0, <1>1, <1>3
<1>6. k = RING_SIZE - 1 - (IF r <= w THEN w - r ELSE w + RING_SIZE - r)
  BY <1>0, <1>2, <1>4
<1> QED
  BY <1>1, <1>2, <1>5, <1>6, Zenon DEF m, k

(* The room of the two ends adds up to the ring less one cell. *)
LEMMA MaxFacts ==
  ASSUME read_at \in 0..RING_SIZE-1, write_at \in 0..RING_SIZE-1
  PROVE  /\ max_read = IF read_at <= write_at THEN write_at - read_at ELSE write_at + RING_SIZE - read_at
         /\ max_write = RING_SIZE - 1 - max_read
         /\ max_read \in 0..RING_SIZE-1 /\ max_write \in 0..RING_SIZE-1
<1>1. max_read = IF read_at <= write_at THEN write_at - read_at ELSE write_at + RING_SIZE - read_at
  BY RoomFacts, Zenon DEF max_read
<1>2. max_write = RING_SIZE - 1 - (IF read_at <= write_at THEN write_at - read_at ELSE write_at + RING_SIZE - read_at)
  BY RoomFacts, Zenon DEF max_write
<1> QED
  BY <1>1, <1>2, RingSize

(* The same after a step. *)
LEMMA MaxFactsNext ==
  ASSUME read_at' \in 0..RING_SIZE-1, write_at' \in 0..RING_SIZE-1
  PROVE  /\ max_read' = IF read_at' <= write_at' THEN write_at' - read_at' ELSE write_at' + RING_SIZE - read_at'
         /\ max_write' = RING_SIZE - 1 - max_read'
         /\ max_read' \in 0..RING_SIZE-1 /\ max_write' \in 0..RING_SIZE-1
<1>1. max_read' = IF read_at' <= write_at' THEN write_at' - read_at' ELSE write_at' + RING_SIZE - read_at'
  BY RoomFacts, Zenon DEF max_read
<1>2. max_write' = RING_SIZE - 1 - (IF read_at' <= write_at' THEN write_at' - read_at' ELSE write_at' + RING_SIZE - read_at')
  BY RoomFacts, Zenon DEF max_write
<1> DEFINE m == max_read'
           k == max_write'
           r == read_at'
           w == write_at'
<1>3. /\ m = IF r <= w THEN w - r ELSE w + RING_SIZE - r
      /\ k = RING_SIZE - 1 - (IF r <= w THEN w - r ELSE w + RING_SIZE - r)
      /\ r \in 0..RING_SIZE-1 /\ w \in 0..RING_SIZE-1
  BY <1>1, <1>2, Zenon
<1> HIDE DEF m, k, r, w
<1>4. k = RING_SIZE - 1 - m /\ m \in 0..RING_SIZE-1 /\ k \in 0..RING_SIZE-1
  BY <1>3, RingSize
<1> QED
  BY <1>1, <1>4, Zenon DEF m, k

(* A chunk fits into the room of its end and ends within the ring. *)
LEMMA ChunkFacts ==
  ASSUME TypeOK, CallInv, NEW t \in Tasks, pc[t] \in Moving, todo[t] > 0
  PROVE  /\ Chunk(t) \in Nat /\ Chunk(t) > 0 /\ Chunk(t) <= todo[t] /\ Chunk(t) <= Room(t)
         /\ At(t) \in 0..RING_SIZE-1 /\ At(t) + Chunk(t) <= RING_SIZE
<1>1. At(t) \in 0..RING_SIZE-1 /\ todo[t] \in Nat /\ todo[t] <= Room(t)
  BY PipeAssumption DEF TypeOK, At, CallInv, CallOne
<1>2. Room(t) \in 0..RING_SIZE-1
  BY MaxFacts, Zenon DEF TypeOK, Room
<1> DEFINE p == At(t) % PAGE_SIZE
<1>3. p \in 0..PAGE_SIZE-1 /\ At(t) + (PAGE_SIZE - p) <= RING_SIZE /\ PAGE_SIZE \in Nat
  BY <1>1, PageEnd, PipeAssumption, Zenon
<1>4. Chunk(t) = IF todo[t] < PAGE_SIZE - p THEN todo[t] ELSE PAGE_SIZE - p
  BY Zenon DEF Chunk, Min2
<1> HIDE DEF p
<1> QED
  BY <1>1, <1>2, <1>3, <1>4, RingSize

-----------------------------------------------------------------------------
(* A step of t that leaves the ring alone; it may wake others. *)
Quiet(t) ==
  /\ UNCHANGED ringvars
  /\ \A s \in Tasks \ {t} : /\ pc'[s] = pc[s] \/ (pc[s] = "parked" /\ pc'[s] = "poll")
                            /\ want'[s] = want[s] /\ current'[s] = current[s] /\ todo'[s] = todo[s]
  /\ pc[t] # "store" /\ pc'[t] # "store"

(* t takes or gives back the lock of its end, or leaves it. *)
LockStep(t) ==
  /\ lk' = lk \/ (\E x \in {t, None} : lk[EndOf(t)] \in {t, None} /\ lk' = [lk EXCEPT ![EndOf(t)] = x])
  /\ pc'[t] \in Inside => lk'[EndOf(t)] = t

CallTypes ==
  /\ pc \in [Tasks -> PCs] /\ want \in [Tasks -> 0..MaxLen] /\ current \in [Tasks -> 0..MaxLen]
  /\ todo \in [Tasks -> 0..MaxLen]

EndTypes ==
  /\ lk \in [Ends -> Tasks \cup {None}] /\ waker \in [Ends -> Tasks \cup {None}] /\ open \in SUBSET Tasks
  /\ notified \in [Tasks -> BOOLEAN]

(* The room of an end depends on the indices alone. *)
LEMMA RoomSame ==
  ASSUME UNCHANGED <<read_at, write_at>>
  PROVE  /\ max_read' = max_read /\ max_write' = max_write
         /\ \A s : Room(s)' = Room(s) /\ At(s)' = At(s)
  BY Zenon DEF max_read, max_write, Room, At

(* Where the ends are. *)
LEMMA EndFacts ==
  \A t \in Tasks : /\ EndOf(t) \in Ends /\ PeerOf(t) \in Ends /\ t # None /\ EndOf(t) # PeerOf(t)
                   /\ t \in Readers <=> t \notin Writers
                   /\ t \in Readers => EndOf(t) = "r" /\ PeerOf(t) = "w"
                   /\ t \in Writers => EndOf(t) = "w" /\ PeerOf(t) = "r"
  BY PipeAssumption, Zenon DEF Tasks, EndOf, PeerOf, Ends

(* What is in the ring is not touched by quiet steps. *)
LEMMA RingQuiet ==
  ASSUME TypeOK, RingInv, NEW t \in Tasks, Quiet(t)
  PROVE  RingInv'
<1>1. UNCHANGED <<read_at, write_at, ring, sent, recv>>
  BY Zenon DEF Quiet, ringvars
<1>2. max_read' = max_read /\ \A s : At(s)' = At(s)
  BY <1>1, RoomSame, Zenon
<1>3. Consumed' = Consumed
  BY <1>1, <1>2, Zenon DEF Consumed
<1>4. \A s \in Tasks : pc'[s] = "store" <=> pc[s] = "store"
  BY Zenon DEF Quiet
<1>5. \A s \in Tasks : pc'[s] = "store" => Chunk(s)' = Chunk(s)
  BY <1>2, <1>4, Zenon DEF Quiet, Chunk, Min2
<1>6. \A s \in Writers : pc'[s] = "store" => \A k \in 0..Chunk(s)'-1 : ring'[write_at' + k] = sent' + k + 1
  BY <1>1, <1>4, <1>5, Zenon DEF RingInv, Tasks
<1>7. \A s \in Readers : pc'[s] = "store" => Len(recv') = Consumed' + Chunk(s)'
  BY <1>1, <1>3, <1>4, <1>5, Zenon DEF RingInv, Tasks
<1>8. (\A s \in Readers : pc'[s] # "store") => Len(recv') = Consumed'
  BY <1>1, <1>3, <1>4, Zenon DEF RingInv, Tasks
<1>9. \A k \in 0..max_read'-1 : ring'[Wrap(read_at, k)'] = Consumed' + k + 1
  BY <1>1, <1>2, <1>3, Zenon DEF RingInv, Wrap
<1>10. \A i \in 1..Len(recv') : recv'[i] = i
  BY <1>1, Zenon DEF RingInv
<1> QED
  BY <1>6, <1>7, <1>8, <1>9, <1>10, Zenon DEF RingInv

(* What a quiet step has to show to keep the invariant. *)
LEMMA QuietStep ==
  ASSUME IInv, NEW t \in Tasks, Quiet(t), LockStep(t), CallTypes', EndTypes', CallOne(t)'
  PROVE  IInv'
<1>0. TypeOK /\ LockInv /\ CallInv /\ RingInv
  BY Zenon DEF IInv
<1>1. UNCHANGED <<read_at, write_at, ring, sent, recv>>
  BY Zenon DEF Quiet, ringvars
<1>2. TypeOK'
  BY <1>0, <1>1, Zenon DEF TypeOK, CallTypes, EndTypes
<1>3. LockInv'
  <2> SUFFICES ASSUME NEW s \in Tasks, s # t, pc'[s] \in Inside PROVE lk'[EndOf(s)] = s
    BY Zenon DEF LockInv, LockStep
  <2>1. lk[EndOf(s)] = s
    BY <1>0, Zenon DEF LockInv, Quiet, Inside
  <2>2. s # None /\ EndOf(s) \in Ends /\ EndOf(t) \in Ends
    BY EndFacts, Zenon
  <2>3. lk[EndOf(t)] \in {t, None} => EndOf(s) # EndOf(t)
    BY <2>1, <2>2, Zenon
  <2> QED
    BY <1>0, <2>1, <2>2, <2>3, Zenon DEF LockStep, TypeOK
<1>4. CallInv'
  <2> SUFFICES ASSUME NEW s \in Tasks, s # t PROVE CallOne(s)'
    BY Zenon DEF CallInv
  <2>1. CallOne(s) /\ Room(s)' = Room(s)
    BY <1>0, <1>1, RoomSame, Zenon DEF CallInv
  <2>2. want'[s] = want[s] /\ current'[s] = current[s] /\ todo'[s] = todo[s]
    BY Zenon DEF Quiet
  <2>3. pc'[s] = pc[s] \/ pc'[s] = "poll"
    BY Zenon DEF Quiet
  <2> QED
    BY <2>1, <2>2, <2>3, Zenon DEF CallOne, Moving
<1>5. RingInv'
  BY <1>0, RingQuiet, Zenon
<1> QED
  BY <1>2, <1>3, <1>4, <1>5, Zenon DEF IInv

(* A task goes on to l. *)
LEMMA MoveFacts ==
  ASSUME TypeOK, NEW t \in Tasks, NEW l \in PCs, Goto(t, l)
  PROVE  /\ pc' \in [Tasks -> PCs] /\ pc'[t] = l
         /\ \A s \in Tasks \ {t} : pc'[s] = pc[s]
  BY Zenon DEF TypeOK, Goto

(* A task goes on to l and wakes those of W. *)
LEMMA WakeFacts ==
  ASSUME TypeOK, NEW t \in Tasks, NEW l \in PCs, l # "parked", NEW W, Wake(W, [pc EXCEPT ![t] = l])
  PROVE  /\ pc' \in [Tasks -> PCs] /\ pc'[t] = l /\ notified' \in [Tasks -> BOOLEAN]
         /\ \A s \in Tasks \ {t} : pc'[s] = IF s \in W /\ pc[s] = "parked" THEN "poll" ELSE pc[s]
         /\ \A s \in Tasks \ {t} : notified'[s] <=> notified[s] \/ (s \in W /\ pc[s] # "parked")
<1>0. pc \in [Tasks -> PCs] /\ notified \in [Tasks -> BOOLEAN]
  BY Zenon DEF TypeOK
<1> DEFINE q == [pc EXCEPT ![t] = l]
<1>1. q \in [Tasks -> PCs] /\ q[t] = l /\ \A s \in Tasks \ {t} : q[s] = pc[s]
  BY <1>0, Zenon
<1>2. /\ pc' = [s \in Tasks |-> IF s \in W /\ q[s] = "parked" THEN "poll" ELSE q[s]]
      /\ notified' = [s \in Tasks |-> notified[s] \/ (s \in W /\ q[s] # "parked")]
  BY Zenon DEF Wake
<1> HIDE DEF q
<1>3. pc' \in [Tasks -> PCs] /\ pc'[t] = l
  BY <1>1, <1>2, Zenon DEF PCs
<1>4. notified' \in [Tasks -> BOOLEAN]
  BY <1>2, Zenon
<1>5. \A s \in Tasks \ {t} : pc'[s] = IF s \in W /\ pc[s] = "parked" THEN "poll" ELSE pc[s]
  BY <1>1, <1>2, Zenon
<1>6. \A s \in Tasks \ {t} : notified'[s] <=> notified[s] \/ (s \in W /\ pc[s] # "parked")
  BY <1>1, <1>2, Zenon
<1> QED
  BY <1>3, <1>4, <1>5, <1>6, Zenon

(* The start of a call. *)
LEMMA CallStep ==
  ASSUME IInv, NEW t \in Tasks, NEW n \in 1..MaxLen, call(t, n)
  PROVE  IInv'
<1>0. TypeOK /\ LockInv /\ CallOne(t) /\ MaxLen \in Nat
  BY PipeAssumption, Zenon DEF IInv, CallInv
<1>1. /\ pc[t] = "idle" /\ want' = [want EXCEPT ![t] = n]
      /\ \E l \in {"fast", "lock"} : Goto(t, l)
      /\ UNCHANGED <<ringvars, endvars, current, todo, notified>>
  BY Zenon DEF call
<1>2. PICK l \in {"fast", "lock"} : Goto(t, l)
  BY <1>1, Zenon
<1>3. pc' \in [Tasks -> PCs] /\ pc'[t] = l /\ \A s \in Tasks \ {t} : pc'[s] = pc[s]
  BY <1>0, <1>2, MoveFacts, Zenon DEF PCs
<1>4. want' \in [Tasks -> 0..MaxLen] /\ want'[t] = n /\ \A s \in Tasks \ {t} : want'[s] = want[s]
  BY <1>0, <1>1 DEF TypeOK
<1>5. Quiet(t)
  BY <1>1, <1>2, <1>3, <1>4, Zenon DEF Quiet
<1>6. LockStep(t)
  BY <1>1, <1>2, <1>3, Zenon DEF LockStep, endvars, Inside
<1>7. CallTypes' /\ EndTypes'
  BY <1>0, <1>1, <1>3, <1>4, Zenon DEF TypeOK, CallTypes, EndTypes, endvars
<1>8. CallOne(t)'
  BY <1>0, <1>1, <1>2, <1>3, <1>4 DEF CallOne, Moving
<1> QED
  BY <1>5, <1>6, <1>7, <1>8, QuietStep, Zenon

(* The fast system call takes the lock of its end, or gives up. *)
LEMMA FastStep ==
  ASSUME IInv, NEW t \in Tasks, fast(t)
  PROVE  IInv'
<1>0. TypeOK /\ LockInv /\ CallOne(t) /\ MaxLen \in Nat /\ EndOf(t) \in Ends
  BY PipeAssumption, EndFacts, Zenon DEF IInv, CallInv
<1>1. pc[t] = "fast" /\ UNCHANGED <<ringvars, waker, open, want, current, notified>>
  BY Zenon DEF fast
<1>2. CASE Goto(t, "lock") /\ UNCHANGED <<lk, todo>>
  <2>1. pc' \in [Tasks -> PCs] /\ pc'[t] = "lock" /\ \A s \in Tasks \ {t} : pc'[s] = pc[s]
    BY <1>0, <1>2, MoveFacts, Zenon DEF PCs
  <2>2. Quiet(t) /\ LockStep(t)
    BY <1>1, <1>2, <2>1, Zenon DEF Quiet, LockStep, Inside
  <2>3. CallTypes' /\ EndTypes'
    BY <1>0, <1>1, <1>2, <2>1, Zenon DEF TypeOK, CallTypes, EndTypes
  <2>4. CallOne(t)'
    BY <1>0, <1>1, <1>2, <2>1, Zenon DEF CallOne, Moving
  <2> QED
    BY <2>2, <2>3, <2>4, QuietStep, Zenon
<1>3. CASE /\ lk[EndOf(t)] = None /\ lk' = [lk EXCEPT ![EndOf(t)] = t]
           /\ todo' = [todo EXCEPT ![t] = Min2(want[t], Room(t))] /\ Goto(t, "fread")
  <2>1. pc' \in [Tasks -> PCs] /\ pc'[t] = "fread" /\ \A s \in Tasks \ {t} : pc'[s] = pc[s]
    BY <1>0, <1>3, MoveFacts, Zenon DEF PCs
  <2>2. Room(t) \in Nat /\ Room(t)' = Room(t)
    BY <1>0, <1>1, MaxFacts, RoomSame, RingSize DEF TypeOK, Room, ringvars
  <2>3. Min2(want[t], Room(t)) \in 0..MaxLen /\ Min2(want[t], Room(t)) <= want[t] /\ Min2(want[t], Room(t)) <= Room(t)
    BY <1>0, <2>2 DEF TypeOK, Min2
  <2>4. todo' \in [Tasks -> 0..MaxLen] /\ todo'[t] = Min2(want[t], Room(t)) /\ \A s \in Tasks \ {t} : todo'[s] = todo[s]
    BY <1>0, <1>3, <2>3, Zenon DEF TypeOK
  <2>5. lk' \in [Ends -> Tasks \cup {None}] /\ lk'[EndOf(t)] = t
    BY <1>0, <1>3, Zenon DEF TypeOK
  <2>6. Quiet(t)
    BY <1>1, <2>1, <2>4, Zenon DEF Quiet
  <2>7. LockStep(t)
    BY <1>3, <2>5, Zenon DEF LockStep
  <2>8. CallTypes' /\ EndTypes'
    BY <1>0, <1>1, <2>1, <2>4, <2>5, Zenon DEF TypeOK, CallTypes, EndTypes
  <2>9. current'[t] = 0 /\ want'[t] = want[t] /\ want[t] \in Nat /\ todo'[t] <= want[t] /\ todo'[t] <= Room(t)' /\ todo'[t] \in Nat
    BY <1>0, <1>1, <2>2, <2>3, <2>4 DEF CallOne, TypeOK
  <2>10. CallOne(t)'
    BY <2>1, <2>9 DEF CallOne
  <2> QED
    BY <2>6, <2>7, <2>8, <2>10, QuietStep, Zenon
<1> QED
  BY <1>2, <1>3, Zenon DEF fast

(* A step that moves t from a place to another and touches no call. *)
LEMMA SimpleStep ==
  ASSUME IInv, NEW t \in Tasks, NEW l \in PCs, Goto(t, l), UNCHANGED <<ringvars, callvars>>,
         pc[t] # "store", l # "store", LockStep(t), EndTypes',
         l \in {"idle", "fast", "lock", "init", "fread", "drop", "done"} => current[t] = 0,
         l \in Moving => pc[t] \in Moving, l = "copy" => todo[t] > 0
  PROVE  IInv'
<1>0. TypeOK /\ CallOne(t)
  BY Zenon DEF IInv, CallInv
<1>1. pc' \in [Tasks -> PCs] /\ pc'[t] = l /\ \A s \in Tasks \ {t} : pc'[s] = pc[s]
  BY <1>0, MoveFacts, Zenon
<1>2. Quiet(t)
  BY <1>1, Zenon DEF Quiet, callvars
<1>3. CallTypes'
  BY <1>0, <1>1, Zenon DEF TypeOK, CallTypes, callvars
<1>4. Room(t)' = Room(t)
  BY RoomSame, Zenon DEF ringvars
<1>5. UNCHANGED <<want, current, todo>>
  BY Zenon DEF callvars
<1>6. CallOne(t)'
  BY <1>0, <1>1, <1>4, <1>5, Zenon DEF CallOne
<1> QED
  BY <1>2, <1>3, <1>6, QuietStep, Zenon

(* The same with a wake of others. *)
LEMMA SimpleWake ==
  ASSUME IInv, NEW t \in Tasks, NEW l \in PCs, NEW W, Wake(W, [pc EXCEPT ![t] = l]),
         UNCHANGED <<ringvars, callvars, lk, open>>, waker' \in [Ends -> Tasks \cup {None}],
         pc[t] # "store", l \notin {"store", "parked"}, l \in Inside => pc[t] \in Inside,
         l \in {"idle", "fast", "lock", "init", "fread", "drop", "done"} => current[t] = 0,
         l \in Moving => pc[t] \in Moving, l = "copy" => todo[t] > 0
  PROVE  IInv'
<1>0. TypeOK /\ CallOne(t) /\ LockInv
  BY Zenon DEF IInv, CallInv
<1>1. /\ pc' \in [Tasks -> PCs] /\ pc'[t] = l /\ notified' \in [Tasks -> BOOLEAN]
      /\ \A s \in Tasks \ {t} : pc'[s] = IF s \in W /\ pc[s] = "parked" THEN "poll" ELSE pc[s]
  BY <1>0, WakeFacts, Zenon
<1>2. Quiet(t)
  BY <1>1, Zenon DEF Quiet, callvars
<1>3. CallTypes' /\ EndTypes'
  BY <1>0, <1>1, Zenon DEF TypeOK, CallTypes, EndTypes, callvars
<1>4. Room(t)' = Room(t)
  BY RoomSame, Zenon DEF ringvars
<1>5. UNCHANGED <<want, current, todo>>
  BY Zenon DEF callvars
<1>6. CallOne(t)'
  BY <1>0, <1>1, <1>4, <1>5, Zenon DEF CallOne
<1>7. LockStep(t)
  BY <1>0, <1>1, Zenon DEF LockStep, LockInv
<1> QED
  BY <1>2, <1>3, <1>6, <1>7, QuietStep, Zenon

(* The way into the end and to sleep. *)
LEMMA EnterStep ==
  ASSUME IInv, NEW t \in Tasks,
         lock(t) \/ init(t) \/ check(t) \/ park(t) \/ signal(t) \/ interrupted(t)
  PROVE  IInv'
<1>0. TypeOK /\ CallOne(t) /\ LockInv /\ EndOf(t) \in Ends
  BY EndFacts, Zenon DEF IInv, CallInv
<1>1. CASE lock(t)
  <2>1. lk[EndOf(t)] = None /\ lk' = [lk EXCEPT ![EndOf(t)] = t] /\ pc[t] = "lock"
        /\ Goto(t, "init") /\ UNCHANGED <<ringvars, waker, open, callvars, notified>>
    BY <1>1, Zenon DEF lock
  <2>2. lk' \in [Ends -> Tasks \cup {None}] /\ lk'[EndOf(t)] = t
    BY <1>0, <2>1, Zenon DEF TypeOK
  <2>3. LockStep(t)
    BY <2>1, <2>2, Zenon DEF LockStep
  <2>4. EndTypes'
    BY <1>0, <2>1, <2>2, Zenon DEF TypeOK, EndTypes
  <2> QED
    BY <1>0, <2>1, <2>3, <2>4, SimpleStep, Zenon DEF CallOne, PCs, Moving
<1>2. CASE init(t)
  <2>1. /\ pc[t] = "init" /\ waker' = [waker EXCEPT ![EndOf(t)] = t] /\ Goto(t, "poll")
        /\ UNCHANGED <<ringvars, lk, open, callvars, notified>>
    BY <1>2, Zenon DEF init
  <2>2. waker' \in [Ends -> Tasks \cup {None}]
    BY <1>0, <2>1, Zenon DEF TypeOK
  <2>3. LockStep(t)
    BY <1>0, <2>1, Zenon DEF LockStep, LockInv, Inside
  <2>4. EndTypes'
    BY <1>0, <2>1, <2>2, Zenon DEF TypeOK, EndTypes
  <2> QED
    BY <2>1, <2>3, <2>4, SimpleStep, Zenon DEF PCs, Moving
<1>3. CASE check(t) \/ park(t) \/ signal(t) \/ interrupted(t)
  <2>1. /\ pc[t] \in {"check", "park", "parked"} /\ UNCHANGED <<ringvars, endvars, callvars>>
        /\ notified' = notified \/ notified' = [notified EXCEPT ![t] = FALSE]
        /\ \E l \in {"ret", "eof", "epipe", "park", "poll", "parked"} : Goto(t, l)
    BY <1>3, Zenon DEF check, park, signal, interrupted
  <2>2. PICK l \in {"ret", "eof", "epipe", "park", "poll", "parked"} : Goto(t, l)
    BY <2>1, Zenon
  <2>3. LockStep(t)
    BY <1>0, <2>1, Zenon DEF LockStep, LockInv, Inside, endvars
  <2>4. notified' \in [Tasks -> BOOLEAN]
    BY <1>0, <2>1, Zenon DEF TypeOK
  <2>5. EndTypes'
    BY <1>0, <2>1, <2>4, Zenon DEF TypeOK, EndTypes, endvars
  <2> QED
    BY <2>1, <2>2, <2>3, <2>5, SimpleStep, Zenon DEF PCs, Moving
<1> QED
  BY <1>1, <1>2, <1>3, Zenon

(* The head of the poll loop. *)
LEMMA PollStep ==
  ASSUME IInv, NEW t \in Tasks, poll(t)
  PROVE  IInv'
<1>0. TypeOK /\ LockInv /\ CallOne(t) /\ MaxLen \in Nat
  BY PipeAssumption, Zenon DEF IInv, CallInv
<1>1. /\ pc[t] = "poll" /\ UNCHANGED <<ringvars, endvars, want, current, notified>>
      /\ Goto(t, IF current[t] = want[t] THEN "ret" ELSE IF Room(t) = 0 THEN "check" ELSE "copy")
      /\ todo' = [todo EXCEPT ![t] = IF current[t] = want[t] THEN 0 ELSE Min2(want[t] - current[t], Room(t))]
  BY Zenon DEF poll
<1>2. PICK l \in PCs : l = IF current[t] = want[t] THEN "ret" ELSE IF Room(t) = 0 THEN "check" ELSE "copy"
  BY Zenon DEF PCs
<1>3. pc' \in [Tasks -> PCs] /\ pc'[t] = l /\ \A s \in Tasks \ {t} : pc'[s] = pc[s]
  BY <1>0, <1>1, <1>2, MoveFacts, Zenon
<1>4. Room(t) \in Nat /\ Room(t)' = Room(t)
  BY <1>0, <1>1, MaxFacts, RoomSame, RingSize DEF TypeOK, Room, ringvars
<1>5. PICK d : d = IF current[t] = want[t] THEN 0 ELSE Min2(want[t] - current[t], Room(t))
  BY Zenon
<1>6. want[t] \in 0..MaxLen /\ current[t] \in 0..MaxLen /\ current[t] <= want[t]
  BY <1>0, Zenon DEF TypeOK, CallOne
<1>7. d \in 0..MaxLen /\ current[t] + d <= want[t] /\ d <= Room(t) /\ (l = "copy" => d > 0)
  BY <1>0, <1>2, <1>4, <1>5, <1>6 DEF Min2
<1>8. todo' = [todo EXCEPT ![t] = d]
  BY <1>1, <1>5, Zenon
<1>9. todo' \in [Tasks -> 0..MaxLen] /\ todo'[t] = d /\ \A s \in Tasks \ {t} : todo'[s] = todo[s]
  BY <1>0, <1>7, <1>8, Zenon DEF TypeOK
<1>10. Quiet(t)
  BY <1>1, <1>2, <1>3, <1>9, Zenon DEF Quiet
<1>11. LockStep(t)
  BY <1>0, <1>1, Zenon DEF LockStep, LockInv, Inside, endvars
<1>12. CallTypes' /\ EndTypes'
  BY <1>0, <1>1, <1>3, <1>9, Zenon DEF TypeOK, CallTypes, EndTypes, endvars
<1>13. l \in {"ret", "check", "copy"}
  BY <1>2, Zenon
<1>14. CallOne(t)'
  BY <1>1, <1>3, <1>4, <1>6, <1>7, <1>9, <1>13, Zenon DEF CallOne
<1> QED
  BY <1>10, <1>11, <1>12, <1>14, QuietStep, Zenon

(* The rest of the loop of Pipe::read and Pipe::write: waking the other end. *)
LEMMA WakeStep ==
  ASSUME IInv, NEW t \in Tasks, upgrade(t) \/ wake_peer(t)
  PROVE  IInv'
<1>0. TypeOK /\ LockInv
  BY Zenon DEF IInv
<1>1. After(t) \in {"copy", "poll"} /\ (After(t) = "copy" => todo[t] > 0)
  BY Zenon DEF After
<1>2. CASE upgrade(t)
  <2>1. /\ pc[t] = "wake" /\ UNCHANGED <<ringvars, endvars, callvars, notified>>
        /\ \E l \in {After(t), "waking"} : Goto(t, l)
    BY <1>2, Zenon DEF upgrade
  <2>2. PICK l \in {After(t), "waking"} : Goto(t, l)
    BY <2>1, Zenon
  <2>3. LockStep(t)
    BY <1>0, <2>1, Zenon DEF LockStep, LockInv, Inside, endvars
  <2>4. EndTypes'
    BY <1>0, <2>1, Zenon DEF TypeOK, EndTypes, endvars
  <2> QED
    BY <1>1, <2>1, <2>2, <2>3, <2>4, SimpleStep, Zenon DEF PCs, Moving
<1>3. CASE wake_peer(t)
  <2>1. /\ pc[t] = "waking" /\ UNCHANGED <<ringvars, endvars, callvars>>
        /\ \E l \in {After(t), "drop_peer"} : Wake(Holder(PeerOf(t)), [pc EXCEPT ![t] = l])
    BY <1>3, Zenon DEF wake_peer
  <2>2. PICK l \in {After(t), "drop_peer"} : Wake(Holder(PeerOf(t)), [pc EXCEPT ![t] = l])
    BY <2>1, Zenon
  <2>3. UNCHANGED <<ringvars, callvars, lk, open>> /\ waker' \in [Ends -> Tasks \cup {None}]
    BY <1>0, <2>1, Zenon DEF endvars, TypeOK
  <2>4. /\ l \in PCs /\ l \notin {"store", "parked"} /\ pc[t] \in Inside /\ pc[t] \in Moving /\ pc[t] # "store"
        /\ l \notin {"idle", "fast", "lock", "init", "fread", "drop", "done"} /\ (l = "copy" => todo[t] > 0)
    BY <1>1, <2>1, <2>2, Zenon DEF PCs, Inside, Moving
  <2> QED
    BY <2>2, <2>3, <2>4, SimpleWake, Zenon
<1> QED
  BY <1>2, <1>3, Zenon

(* The call returns; files are closed. *)
LEMMA LeaveStep ==
  ASSUME IInv, NEW t \in Tasks, ret(t) \/ close(t)
  PROVE  IInv'
<1>0. TypeOK /\ LockInv /\ CallOne(t) /\ MaxLen \in Nat /\ EndOf(t) \in Ends
  BY EndFacts, PipeAssumption, Zenon DEF IInv, CallInv
<1>1. CASE ret(t)
  <2>1. /\ pc[t] \in {"ret", "eof", "epipe"} /\ lk' = [lk EXCEPT ![EndOf(t)] = None]
        /\ want' = [want EXCEPT ![t] = 0] /\ current' = [current EXCEPT ![t] = 0] /\ Goto(t, "idle")
        /\ UNCHANGED <<ringvars, waker, open, todo, notified>>
    BY <1>1, Zenon DEF ret
  <2>2. pc' \in [Tasks -> PCs] /\ pc'[t] = "idle" /\ \A s \in Tasks \ {t} : pc'[s] = pc[s]
    BY <1>0, <2>1, MoveFacts, Zenon DEF PCs
  <2>3. want' \in [Tasks -> 0..MaxLen] /\ want'[t] = 0 /\ \A s \in Tasks \ {t} : want'[s] = want[s]
    BY <1>0, <2>1 DEF TypeOK
  <2>4. current' \in [Tasks -> 0..MaxLen] /\ current'[t] = 0 /\ \A s \in Tasks \ {t} : current'[s] = current[s]
    BY <1>0, <2>1 DEF TypeOK
  <2>5. lk' \in [Ends -> Tasks \cup {None}] /\ lk[EndOf(t)] = t
    BY <1>0, <2>1, Zenon DEF TypeOK, LockInv, Inside
  <2>6. Quiet(t)
    BY <2>1, <2>2, <2>3, <2>4, Zenon DEF Quiet
  <2>7. LockStep(t)
    BY <2>1, <2>2, <2>5, Zenon DEF LockStep, Inside
  <2>8. CallTypes' /\ EndTypes'
    BY <1>0, <2>1, <2>2, <2>3, <2>4, <2>5, Zenon DEF TypeOK, CallTypes, EndTypes
  <2>9. CallOne(t)'
    BY <2>2, <2>3, <2>4 DEF CallOne, Moving
  <2> QED
    BY <2>6, <2>7, <2>8, <2>9, QuietStep, Zenon
<1>2. CASE close(t)
  <2>1. /\ pc[t] = "idle" /\ open' = open \ {t} /\ UNCHANGED <<ringvars, lk, waker, callvars, notified>>
        /\ \E l \in {"drop", "done"} : Goto(t, l)
    BY <1>2, Zenon DEF close
  <2>2. PICK l \in {"drop", "done"} : Goto(t, l)
    BY <2>1, Zenon
  <2>3. pc'[t] = l
    BY <1>0, <2>2, MoveFacts, Zenon DEF PCs
  <2>4. LockStep(t)
    BY <2>1, <2>2, <2>3, Zenon DEF LockStep, Inside
  <2>5. EndTypes'
    <3>1. open' \in SUBSET Tasks
      BY <1>0, <2>1, Zenon DEF TypeOK
    <3> QED
      BY <1>0, <2>1, <3>1, Zenon DEF TypeOK, EndTypes
  <2>6. l \in PCs /\ l # "store" /\ pc[t] # "store" /\ l \notin Moving /\ l # "copy" /\ current[t] = 0
    BY <1>0, <2>1, <2>2, Zenon DEF PCs, Moving, CallOne
  <2> QED
    BY <2>1, <2>2, <2>4, <2>5, <2>6, SimpleStep, Zenon
<1> QED
  BY <1>1, <1>2, Zenon

(* The Drop of a file: the end that is open still is woken. *)
LEMMA DropStep ==
  ASSUME IInv, NEW t \in Tasks, drop(t)
  PROVE  IInv'
<1>0. TypeOK /\ LockInv /\ CallOne(t)
  BY Zenon DEF IInv, CallInv
<1>1. After(t) \in {"copy", "poll"} /\ (After(t) = "copy" => todo[t] > 0)
  BY Zenon DEF After
<1>2. PICK e, l : /\ (pc[t] = "drop" /\ e = EndOf(t) /\ l = "done") \/ (pc[t] = "drop_peer" /\ e = PeerOf(t) /\ l = After(t))
                  /\ DropEnd(t, e, l) /\ UNCHANGED <<ringvars, lk, open, callvars>>
  BY Zenon DEF drop
<1>3. /\ l \in PCs /\ l \notin {"store", "parked"} /\ pc[t] # "store" /\ (l \in Inside => pc[t] \in Inside)
      /\ l \in {"idle", "fast", "lock", "init", "fread", "drop", "done"} => current[t] = 0
      /\ (l \in Moving => pc[t] \in Moving) /\ (l = "copy" => todo[t] > 0)
  BY <1>0, <1>1, <1>2, Zenon DEF PCs, Inside, Moving, CallOne
<1>4. PICK o : o = IF e = "r" THEN "w" ELSE "r"
  BY Zenon
<1>5. CASE Wake(Holder(o), [pc EXCEPT ![t] = l]) /\ waker' = [waker EXCEPT ![o] = None]
  <2>1. waker' \in [Ends -> Tasks \cup {None}]
    BY <1>0, <1>5, Zenon DEF TypeOK
  <2> QED
    BY <1>2, <1>3, <1>5, <2>1, SimpleWake, Zenon
<1>6. CASE Goto(t, l) /\ UNCHANGED <<waker, notified>>
  <2>1. LockStep(t)
    BY <1>0, <1>2, <1>3, <1>6, MoveFacts, Zenon DEF LockStep, LockInv
  <2>2. EndTypes'
    BY <1>0, <1>2, <1>6, Zenon DEF TypeOK, EndTypes
  <2> QED
    BY <1>2, <1>3, <1>6, <2>1, <2>2, SimpleStep, Zenon
<1> QED
  BY <1>2, <1>4, <1>5, <1>6, Zenon DEF DropEnd

(* Nobody else is inside the end of t. *)
LEMMA Alone ==
  ASSUME LockInv, NEW t \in Tasks, pc[t] \in Inside, NEW s \in Tasks, s # t, EndOf(s) = EndOf(t)
  PROVE  pc[s] \notin Inside
  BY Zenon DEF LockInv

(* What does not depend on the ring after a chunk was copied. *)
LEMMA CopyFrame ==
  ASSUME IInv, NEW t \in Tasks, copy(t)
  PROVE  /\ LockInv' /\ CallInv'
         /\ pc' \in [Tasks -> PCs] /\ pc'[t] = "store" /\ \A s \in Tasks \ {t} : pc'[s] = pc[s]
         /\ max_read' = max_read /\ Consumed' = Consumed /\ \A s : Chunk(s)' = Chunk(s)
         /\ \A s \in Tasks : EndOf(s) = EndOf(t) => pc[s] # "store" /\ (s # t => pc'[s] # "store")
<1>0. TypeOK /\ LockInv /\ CallInv
  BY Zenon DEF IInv
<1>1. /\ pc[t] \in {"copy", "fread"} /\ todo[t] > 0 /\ Goto(t, "store")
      /\ UNCHANGED <<read_at, write_at, sent, endvars, callvars, notified>>
  BY Zenon DEF copy
<1>2. pc' \in [Tasks -> PCs] /\ pc'[t] = "store" /\ \A s \in Tasks \ {t} : pc'[s] = pc[s]
  BY <1>0, <1>1, MoveFacts, Zenon DEF PCs
<1>3. max_read' = max_read /\ \A s : Room(s)' = Room(s) /\ At(s)' = At(s)
  BY <1>1, RoomSame, Zenon
<1>4. UNCHANGED <<want, current, todo, lk>>
  BY <1>1, Zenon DEF callvars, endvars
<1>5. LockInv'
  BY <1>0, <1>1, <1>2, <1>4, Zenon DEF LockInv, Inside
<1>6. CallInv'
  <2> SUFFICES ASSUME NEW s \in Tasks PROVE CallOne(s)'
    BY Zenon DEF CallInv
  <2>1. CallOne(s) /\ Room(s)' = Room(s)
    BY <1>0, <1>3, Zenon DEF CallInv
  <2> QED
    BY <1>1, <1>2, <1>4, <2>1, Zenon DEF CallOne, Moving
<1>7. Consumed' = Consumed
  BY <1>1, <1>3, Zenon DEF Consumed
<1>8. \A s : Chunk(s)' = Chunk(s)
  BY <1>3, <1>4, Zenon DEF Chunk, Min2
<1>9. \A s \in Tasks : EndOf(s) = EndOf(t) => pc[s] # "store" /\ (s # t => pc'[s] # "store")
  BY <1>0, <1>1, <1>2, Alone, Zenon DEF Inside
<1> QED
  BY <1>2, <1>3, <1>5, <1>6, <1>7, <1>8, <1>9, Zenon

(* Pipe::read copies a chunk to its buffer: the next bytes in order. *)
LEMMA CopyOut ==
  ASSUME IInv, NEW t \in Readers, copy(t)
  PROVE  IInv'
<1>0. TypeOK /\ LockInv /\ CallInv /\ RingInv /\ t \in Tasks
  BY Zenon DEF IInv, Tasks
<1>f. /\ LockInv' /\ CallInv'
      /\ pc' \in [Tasks -> PCs] /\ pc'[t] = "store" /\ \A s \in Tasks \ {t} : pc'[s] = pc[s]
      /\ max_read' = max_read /\ Consumed' = Consumed /\ \A s : Chunk(s)' = Chunk(s)
      /\ \A s \in Tasks : EndOf(s) = EndOf(t) => pc[s] # "store" /\ (s # t => pc'[s] # "store")
  BY <1>0, CopyFrame, Zenon
<1>1. /\ pc[t] \in {"copy", "fread"} /\ todo[t] > 0
      /\ recv' = recv \o [i \in 1..Chunk(t) |-> ring[(read_at + i - 1) % RING_SIZE]]
      /\ UNCHANGED <<ring, read_at, write_at, sent, endvars, callvars, notified>>
  BY Zenon DEF copy
<1>2. /\ Chunk(t) \in Nat /\ Chunk(t) > 0 /\ Chunk(t) <= max_read
      /\ read_at \in 0..RING_SIZE-1 /\ read_at + Chunk(t) <= RING_SIZE
  BY <1>0, <1>1, ChunkFacts, Zenon DEF Moving, Room, At
<1>3. Len(recv) = Consumed
  BY <1>0, <1>f, EndFacts, Zenon DEF RingInv, Tasks
<1>4. \A i \in 1..Chunk(t) : ring[(read_at + i - 1) % RING_SIZE] = Len(recv) + i
  <2> SUFFICES ASSUME NEW i \in 1..Chunk(t) PROVE ring[(read_at + i - 1) % RING_SIZE] = Len(recv) + i
    BY Zenon
  <2>1. PICK x \in Nat : x = read_at + i - 1 /\ x < RING_SIZE /\ x < 2 * RING_SIZE
    <3>1. read_at + i - 1 \in Nat /\ read_at + i - 1 < RING_SIZE /\ read_at + i - 1 < 2 * RING_SIZE
      BY <1>2, RingSize
    <3> QED
      BY <3>1, Zenon
  <2>2. RING_SIZE \in Nat \ {0}
    BY RingSize
  <2>3. x % RING_SIZE = IF x < RING_SIZE THEN x ELSE x - RING_SIZE
    BY <2>1, <2>2, ModWrap, Zenon
  <2>4. x % RING_SIZE = x
    BY <2>1, <2>3, Zenon
  <2>5. PICK k \in 0..max_read-1 : k = i - 1
    <3>1. max_read \in Nat
      BY <1>0, MaxFacts, RingSize DEF TypeOK
    <3> QED
      BY <1>2, <3>1
  <2>6. Wrap(read_at, k) = x
    BY <1>2, <2>1, <2>5, Zenon DEF Wrap
  <2>7. ring[Wrap(read_at, k)] = Consumed + k + 1
    BY <1>0, Zenon DEF RingInv
  <2>8. ring[x] = Len(recv) + i
    <3>1. Len(recv) \in Nat
      BY <1>0 DEF TypeOK
    <3> QED
      BY <1>3, <2>5, <2>6, <2>7, <3>1
  <2> QED
    BY <2>1, <2>4, <2>8, Zenon
<1> DEFINE new == [i \in 1..Chunk(t) |-> ring[(read_at + i - 1) % RING_SIZE]]
<1>5. new \in Seq(Nat) /\ Len(new) = Chunk(t) /\ \A i \in 1..Chunk(t) : new[i] = Len(recv) + i
  <2>1. Len(recv) \in Nat
    BY <1>0 DEF TypeOK
  <2>2. \A i \in 1..Chunk(t) : new[i] = Len(recv) + i
    BY <1>4, Zenon
  <2>3. DOMAIN new = 1..Chunk(t) /\ new = [i \in 1..Chunk(t) |-> new[i]]
    BY Zenon
  <2> HIDE DEF new
  <2>4. \A i \in 1..Chunk(t) : new[i] \in Nat
    BY <2>1, <2>2
  <2>5. new \in Seq(Nat) /\ Len(new) = Chunk(t)
    BY <1>2, <2>3, <2>4
  <2> QED
    BY <2>2, <2>5, Zenon
<1>6. recv' = recv \o new
  BY <1>1, Zenon
<1> HIDE DEF new
<1>7. recv' \in Seq(Nat) /\ Len(recv') = Len(recv) + Chunk(t)
  <2>1. recv \in Seq(Nat)
    BY <1>0, Zenon DEF TypeOK
  <2>2. recv \o new \in Seq(Nat) /\ Len(recv \o new) = Len(recv) + Len(new)
    BY <1>5, <2>1
  <2> QED
    BY <1>5, <1>6, <2>2, Zenon
<1>8. \A i \in 1..Len(recv') : recv'[i] = i
  <2>1. \A i \in 1..Len(recv) : recv[i] = i
    BY <1>0, Zenon DEF RingInv
  <2>2. recv \in Seq(Nat) /\ Len(recv) \in Nat
    BY <1>0 DEF TypeOK
  <2> QED
    BY <1>2, <1>5, <1>6, <1>7, <2>1, <2>2
<1>9. TypeOK'
  BY <1>0, <1>1, <1>7, <1>f, Zenon DEF TypeOK, endvars, callvars
<1>10. RingInv'
  <2>1. \A k \in 0..max_read'-1 : ring'[Wrap(read_at, k)'] = Consumed' + k + 1
    BY <1>0, <1>1, <1>f, Zenon DEF RingInv, Wrap
  <2>2. \A s \in Writers : pc'[s] = "store" => \A k \in 0..Chunk(s)'-1 : ring'[write_at' + k] = sent' + k + 1
    BY <1>0, <1>1, <1>f, EndFacts, Zenon DEF RingInv, Tasks
  <2>3. \A s \in Readers : pc'[s] = "store" => Len(recv') = Consumed' + Chunk(s)'
    BY <1>3, <1>7, <1>f, EndFacts, Zenon DEF Tasks
  <2>4. ~ \A s \in Readers : pc'[s] # "store"
    BY <1>f, Zenon
  <2> QED
    BY <1>8, <2>1, <2>2, <2>3, <2>4, Zenon DEF RingInv
<1> QED
  BY <1>9, <1>10, <1>f, Zenon DEF IInv

(* Pipe::write copies a chunk into the ring, beside the bytes not yet read. *)
LEMMA CopyIn ==
  ASSUME IInv, NEW t \in Writers, copy(t)
  PROVE  IInv'
<1>0. TypeOK /\ LockInv /\ CallInv /\ RingInv /\ t \in Tasks /\ t \notin Readers
  BY EndFacts, Zenon DEF IInv, Tasks
<1>f. /\ LockInv' /\ CallInv'
      /\ pc' \in [Tasks -> PCs] /\ pc'[t] = "store" /\ \A s \in Tasks \ {t} : pc'[s] = pc[s]
      /\ max_read' = max_read /\ Consumed' = Consumed /\ \A s : Chunk(s)' = Chunk(s)
      /\ \A s \in Tasks : EndOf(s) = EndOf(t) => pc[s] # "store" /\ (s # t => pc'[s] # "store")
  BY <1>0, CopyFrame, Zenon
<1>1. /\ pc[t] \in {"copy", "fread"} /\ todo[t] > 0
      /\ ring' = [i \in DOMAIN ring |-> IF i \in Window(t) THEN sent + (i - write_at) + 1 ELSE ring[i]]
      /\ UNCHANGED <<recv, read_at, write_at, sent, endvars, callvars, notified>>
  BY <1>0, Zenon DEF copy
<1>2. /\ Chunk(t) \in Nat /\ Chunk(t) > 0 /\ Chunk(t) <= max_write
      /\ write_at \in 0..RING_SIZE-1 /\ write_at + Chunk(t) <= RING_SIZE
  BY <1>0, <1>1, ChunkFacts, Zenon DEF Moving, Room, At
<1>3. Window(t) = write_at..write_at + Chunk(t) - 1
  <2>0. RING_SIZE \in Nat \ {0}
    BY RingSize
  <2>1. \A x \in Nat : x < RING_SIZE => x % RING_SIZE = x
    <3> SUFFICES ASSUME NEW x \in Nat, x < RING_SIZE PROVE x % RING_SIZE = x
      BY Zenon
    <3>1. x < 2 * RING_SIZE
      BY <2>0
    <3>2. x % RING_SIZE = IF x < RING_SIZE THEN x ELSE x - RING_SIZE
      BY <2>0, <3>1, ModWrap, Zenon
    <3> QED
      BY <3>2, Zenon
  <2>2. \A i \in 0..Chunk(t)-1 : (write_at + i) % RING_SIZE = write_at + i
    <3> SUFFICES ASSUME NEW i \in 0..Chunk(t)-1 PROVE (write_at + i) % RING_SIZE = write_at + i
      BY Zenon
    <3>1. write_at + i \in Nat /\ write_at + i < RING_SIZE
      BY <1>2, <2>0
    <3> QED
      BY <2>1, <3>1, Zenon
  <2>3. Window(t) = {(write_at + i) % RING_SIZE : i \in 0..Chunk(t)-1}
    BY <1>0, Zenon DEF Window, At
  <2>4. Window(t) = {write_at + i : i \in 0..Chunk(t)-1}
    BY <2>2, <2>3, Zenon
  <2>5. \A j : j \in {write_at + i : i \in 0..Chunk(t)-1} <=> j \in write_at..write_at + Chunk(t) - 1
    <3>1. \A i \in 0..Chunk(t)-1 : write_at + i \in write_at..write_at + Chunk(t) - 1
      BY <1>2
    <3>2. \A j \in write_at..write_at + Chunk(t) - 1 : j - write_at \in 0..Chunk(t)-1 /\ j = write_at + (j - write_at)
      BY <1>2
    <3> QED
      BY <3>1, <3>2, Zenon
  <2> QED
    BY <2>4, <2>5, Zenon
<1>4. ring \in [0..RING_SIZE-1 -> Nat] /\ sent \in Nat /\ read_at \in 0..RING_SIZE-1
  BY <1>0, Zenon DEF TypeOK
<1>5. ring' \in [0..RING_SIZE-1 -> Nat]
  <2>1. \A i \in 0..RING_SIZE-1 : i \in Window(t) => sent + (i - write_at) + 1 \in Nat
    BY <1>2, <1>3, <1>4
  <2>2. \A i \in 0..RING_SIZE-1 : (IF i \in Window(t) THEN sent + (i - write_at) + 1 ELSE ring[i]) \in Nat
    BY <1>4, <2>1, Zenon
  <2> QED
    BY <1>1, <1>4, <2>2, Zenon
<1>6. \A k \in 0..Chunk(t)-1 : ring'[write_at + k] = sent + k + 1
  <2> SUFFICES ASSUME NEW k \in 0..Chunk(t)-1 PROVE ring'[write_at + k] = sent + k + 1
    BY Zenon
  <2>1. write_at + k \in 0..RING_SIZE-1 /\ write_at + k \in Window(t) /\ (write_at + k) - write_at = k
    BY <1>2, <1>3, RingSize
  <2>2. ring'[write_at + k] = sent + ((write_at + k) - write_at) + 1
    BY <1>1, <1>4, <2>1, Zenon
  <2> QED
    BY <2>1, <2>2, Zenon
<1>7. \A k \in 0..max_read-1 : ring'[Wrap(read_at, k)] = ring[Wrap(read_at, k)]
  <2> SUFFICES ASSUME NEW k \in 0..max_read-1 PROVE ring'[Wrap(read_at, k)] = ring[Wrap(read_at, k)]
    BY Zenon
  <2>1. /\ max_read = IF read_at <= write_at THEN write_at - read_at ELSE write_at + RING_SIZE - read_at
        /\ max_write = RING_SIZE - 1 - max_read /\ max_read \in 0..RING_SIZE-1
    BY <1>2, <1>4, MaxFacts, Zenon
  <2>2. PICK j : j = Wrap(read_at, k)
    BY Zenon
  <2>3. j \in 0..RING_SIZE-1 /\ j \notin write_at..write_at + Chunk(t) - 1
    BY <1>2, <1>4, <2>1, <2>2, RingSize DEF Wrap
  <2> QED
    BY <1>1, <1>3, <1>4, <2>2, <2>3, Zenon
<1>8. TypeOK'
  BY <1>0, <1>1, <1>5, <1>f, Zenon DEF TypeOK, endvars, callvars
<1>9. RingInv'
  <2>1. \A k \in 0..max_read'-1 : ring'[Wrap(read_at, k)'] = Consumed' + k + 1
    <3>1. \A k : Wrap(read_at, k)' = Wrap(read_at, k)
      BY <1>1, Zenon DEF Wrap
    <3> QED
      BY <1>0, <1>1, <1>7, <1>f, <3>1, Zenon DEF RingInv
  <2>2. \A s \in Writers : pc'[s] = "store" => \A k \in 0..Chunk(s)'-1 : ring'[write_at' + k] = sent' + k + 1
    BY <1>1, <1>6, <1>f, EndFacts, Zenon DEF Tasks
  <2>3. \A s \in Readers : pc'[s] = "store" => Len(recv') = Consumed' + Chunk(s)'
    BY <1>0, <1>1, <1>f, EndFacts, Zenon DEF RingInv, Tasks
  <2>4. (\A s \in Readers : pc'[s] # "store") => Len(recv') = Consumed'
    BY <1>0, <1>1, <1>f, EndFacts, Zenon DEF RingInv, Tasks
  <2>5. \A i \in 1..Len(recv') : recv'[i] = i
    BY <1>0, <1>1, Zenon DEF RingInv
  <2> QED
    BY <2>1, <2>2, <2>3, <2>4, <2>5, Zenon DEF RingInv
<1> QED
  BY <1>8, <1>9, <1>f, Zenon DEF IInv

(* What the two ends have in common when an index is stored. *)
LEMMA StoreFrame ==
  ASSUME IInv, NEW t \in Tasks, store(t)
  PROVE  /\ Chunk(t) \in Nat /\ Chunk(t) > 0 /\ Chunk(t) <= todo[t] /\ Chunk(t) <= Room(t)
         /\ At(t) \in 0..RING_SIZE-1 /\ At(t) + Chunk(t) <= RING_SIZE
         /\ (At(t) + Chunk(t)) % RING_SIZE = IF At(t) + Chunk(t) < RING_SIZE THEN At(t) + Chunk(t) ELSE 0
         /\ pc[t] = "store" /\ pc' \in [Tasks -> PCs] /\ pc'[t] = "wake" /\ \A s \in Tasks \ {t} : pc'[s] = pc[s]
         /\ current' \in [Tasks -> 0..MaxLen] /\ current'[t] = current[t] + Chunk(t)
         /\ \A s \in Tasks \ {t} : current'[s] = current[s]
         /\ todo' \in [Tasks -> 0..MaxLen] /\ todo'[t] = todo[t] - Chunk(t)
         /\ \A s \in Tasks \ {t} : todo'[s] = todo[s]
         /\ UNCHANGED <<ring, recv, lk, waker, open, want, notified>>
         /\ LockInv'
<1>0. TypeOK /\ LockInv /\ CallInv /\ CallOne(t) /\ MaxLen \in Nat
  BY PipeAssumption, Zenon DEF IInv, CallInv
<1>1. /\ pc[t] = "store" /\ current' = [current EXCEPT ![t] = @ + Chunk(t)]
      /\ todo' = [todo EXCEPT ![t] = @ - Chunk(t)] /\ Goto(t, "wake")
      /\ UNCHANGED <<ring, recv, lk, waker, open, want, notified>>
  BY Zenon DEF store, endvars
<1>2. todo[t] > 0
  BY <1>0, <1>1, Zenon DEF CallOne
<1>3. /\ Chunk(t) \in Nat /\ Chunk(t) > 0 /\ Chunk(t) <= todo[t] /\ Chunk(t) <= Room(t)
      /\ At(t) \in 0..RING_SIZE-1 /\ At(t) + Chunk(t) <= RING_SIZE
  BY <1>0, <1>1, <1>2, ChunkFacts, Zenon DEF Moving
<1>4. PICK x \in Nat : x = At(t) + Chunk(t) /\ x <= RING_SIZE /\ x < 2 * RING_SIZE
  <2>1. At(t) + Chunk(t) \in Nat /\ At(t) + Chunk(t) < 2 * RING_SIZE
    BY <1>3, RingSize
  <2> QED
    BY <1>3, <2>1, Zenon
<1>5. x % RING_SIZE = IF x < RING_SIZE THEN x ELSE 0
  <2> DEFINE m == x % RING_SIZE
  <2>1. RING_SIZE \in Nat \ {0}
    BY RingSize
  <2>2. m = IF x < RING_SIZE THEN x ELSE x - RING_SIZE
    BY <1>4, <2>1, ModWrap, Zenon
  <2> HIDE DEF m
  <2>3. m = IF x < RING_SIZE THEN x ELSE 0
    BY <1>4, <2>1, <2>2
  <2> QED
    BY <2>3, Zenon DEF m
<1>6. (At(t) + Chunk(t)) % RING_SIZE = IF At(t) + Chunk(t) < RING_SIZE THEN At(t) + Chunk(t) ELSE 0
  BY <1>4, <1>5, Zenon
<1>7. pc' \in [Tasks -> PCs] /\ pc'[t] = "wake" /\ \A s \in Tasks \ {t} : pc'[s] = pc[s]
  BY <1>0, <1>1, MoveFacts, Zenon DEF PCs
<1>8. /\ want[t] \in 0..MaxLen /\ current[t] \in 0..MaxLen /\ todo[t] \in 0..MaxLen
      /\ current[t] + todo[t] <= want[t]
  BY <1>0, <1>1, Zenon DEF TypeOK, CallOne, Moving
<1>9. PICK c \in 0..MaxLen : c = current[t] + Chunk(t)
  BY <1>0, <1>3, <1>8
<1>10. PICK d \in 0..MaxLen : d = todo[t] - Chunk(t)
  BY <1>0, <1>3, <1>8
<1>11. current' = [current EXCEPT ![t] = c] /\ todo' = [todo EXCEPT ![t] = d]
  BY <1>1, <1>9, <1>10, Zenon
<1>12. current' \in [Tasks -> 0..MaxLen] /\ current'[t] = c /\ \A s \in Tasks \ {t} : current'[s] = current[s]
  BY <1>0, <1>11, Zenon DEF TypeOK
<1>13. todo' \in [Tasks -> 0..MaxLen] /\ todo'[t] = d /\ \A s \in Tasks \ {t} : todo'[s] = todo[s]
  BY <1>0, <1>11, Zenon DEF TypeOK
<1>14. LockInv'
  BY <1>0, <1>1, <1>7, Zenon DEF LockInv, Inside
<1> QED
  BY <1>1, <1>3, <1>6, <1>7, <1>9, <1>10, <1>12, <1>13, <1>14, Zenon

(* The end of t has given the room that the other end gets. *)
LEMMA StoreCall ==
  ASSUME IInv, NEW t \in Tasks, store(t),
         Room(t)' = Room(t) - Chunk(t),
         \A s \in Tasks : EndOf(s) # EndOf(t) => Room(s)' = Room(s) + Chunk(t),
         \A s \in Tasks : Room(s) \in Nat
  PROVE  CallInv'
<1>0. TypeOK /\ LockInv /\ CallInv
  BY Zenon DEF IInv
<1>1. /\ Chunk(t) \in Nat /\ pc[t] = "store" /\ pc'[t] = "wake" /\ \A s \in Tasks \ {t} : pc'[s] = pc[s]
      /\ current'[t] = current[t] + Chunk(t) /\ \A s \in Tasks \ {t} : current'[s] = current[s]
      /\ todo'[t] = todo[t] - Chunk(t) /\ \A s \in Tasks \ {t} : todo'[s] = todo[s]
      /\ Chunk(t) <= todo[t] /\ want' = want
  BY StoreFrame, Zenon
<1>2. \A s \in Tasks : want[s] \in Nat /\ current[s] \in Nat /\ todo[s] \in Nat
  BY <1>0, PipeAssumption DEF TypeOK
<1>3. CallOne(t)'
  <2>1. CallOne(t) /\ Room(t) \in Nat
    BY <1>0, Zenon DEF CallInv
  <2>2. current[t] + todo[t] <= want[t] /\ todo[t] <= Room(t)
    BY <1>1, <2>1, Zenon DEF CallOne, Moving
  <2>3. /\ current'[t] <= want'[t] /\ current'[t] + todo'[t] <= want'[t] /\ todo'[t] <= Room(t)'
    BY <1>1, <1>2, <2>1, <2>2
  <2> QED
    BY <1>1, <2>3, Zenon DEF CallOne
<1>4. ASSUME NEW s \in Tasks, s # t PROVE CallOne(s)'
  <2>1. CallOne(s) /\ Room(s) \in Nat
    BY <1>0, Zenon DEF CallInv
  <2>2. pc'[s] = pc[s] /\ current'[s] = current[s] /\ todo'[s] = todo[s] /\ want'[s] = want[s]
    BY <1>1, <1>4, Zenon
  <2>3. CASE EndOf(s) = EndOf(t)
    <3>1. pc[s] \notin Inside
      BY <1>0, <1>1, <1>4, <2>3, Alone, Zenon DEF Inside
    <3> QED
      BY <2>1, <2>2, <3>1, Zenon DEF CallOne, Moving, Inside
  <2>4. CASE EndOf(s) # EndOf(t)
    <3>1. todo[s] <= Room(s) => todo[s] <= Room(s)'
      BY <1>1, <1>2, <2>1, <2>4
    <3> QED
      BY <2>1, <2>2, <3>1, Zenon DEF CallOne
  <2> QED
    BY <2>3, <2>4, Zenon
<1> QED
  BY <1>3, <1>4, Zenon DEF CallInv

(* Pipe::read stores read_at: the bytes it has copied leave the ring. *)
LEMMA StoreRead ==
  ASSUME IInv, NEW t \in Readers, store(t)
  PROVE  IInv'
<1>0. TypeOK /\ LockInv /\ CallInv /\ RingInv /\ t \in Tasks
  BY Zenon DEF IInv, Tasks
<1>1. read_at' = (read_at + Chunk(t)) % RING_SIZE /\ write_at' = write_at /\ sent' = sent
  BY Zenon DEF store
<1>2. PICK n : n = Chunk(t)
  BY Zenon
<1>3. /\ n \in Nat /\ n > 0 /\ n <= max_read /\ read_at \in 0..RING_SIZE-1 /\ read_at + n <= RING_SIZE
      /\ read_at' = IF read_at + n < RING_SIZE THEN read_at + n ELSE 0
  BY <1>0, <1>1, <1>2, StoreFrame, Zenon DEF Room, At
<1>4. /\ pc[t] = "store" /\ pc' \in [Tasks -> PCs] /\ pc'[t] = "wake" /\ \A s \in Tasks \ {t} : pc'[s] = pc[s]
      /\ current' \in [Tasks -> 0..MaxLen] /\ todo' \in [Tasks -> 0..MaxLen]
      /\ \A s \in Tasks \ {t} : todo'[s] = todo[s]
      /\ UNCHANGED <<ring, recv, lk, waker, open, want, notified>> /\ LockInv'
  BY <1>0, StoreFrame, Zenon
<1>5. write_at \in 0..RING_SIZE-1 /\ read_at' \in 0..RING_SIZE-1 /\ write_at' \in 0..RING_SIZE-1 /\ sent \in Nat
  <2>1. write_at \in 0..RING_SIZE-1 /\ write_at' = write_at /\ sent \in Nat
    BY <1>0, <1>1, Zenon DEF TypeOK
  <2>2. read_at' \in 0..RING_SIZE-1
    BY <1>3, RingSize
  <2> QED
    BY <2>1, <2>2, Zenon
<1>6. /\ max_read = IF read_at <= write_at THEN write_at - read_at ELSE write_at + RING_SIZE - read_at
      /\ max_write = RING_SIZE - 1 - max_read /\ max_read \in 0..RING_SIZE-1 /\ max_write \in 0..RING_SIZE-1
  BY <1>3, <1>5, MaxFacts, Zenon
<1>7. /\ max_read' = IF read_at' <= write_at' THEN write_at' - read_at' ELSE write_at' + RING_SIZE - read_at'
      /\ max_write' = RING_SIZE - 1 - max_read' /\ max_read' \in 0..RING_SIZE-1
  BY <1>5, MaxFactsNext, Zenon
<1>8. max_read' = max_read - n /\ max_write' = max_write + n
  BY <1>1, <1>3, <1>5, <1>6, <1>7, RingSize
<1>9. CallInv'
  <2>1. Room(t)' = Room(t) - Chunk(t)
    BY <1>2, <1>8, Zenon DEF Room
  <2>2. \A s \in Tasks : EndOf(s) # EndOf(t) => Room(s)' = Room(s) + Chunk(t)
    BY <1>2, <1>8, Zenon DEF Room, EndOf
  <2>3. \A s \in Tasks : Room(s) \in Nat
    BY <1>6, RingSize DEF Room
  <2> QED
    BY <1>0, <2>1, <2>2, <2>3, StoreCall, Zenon
<1>10. TypeOK'
  <2>1. /\ ring \in [0..RING_SIZE-1 -> Nat] /\ recv \in Seq(Nat) /\ lk \in [Ends -> Tasks \cup {None}]
        /\ waker \in [Ends -> Tasks \cup {None}] /\ open \in SUBSET Tasks /\ want \in [Tasks -> 0..MaxLen]
        /\ notified \in [Tasks -> BOOLEAN]
    BY <1>0, Zenon DEF TypeOK
  <2>2. /\ ring' = ring /\ recv' = recv /\ lk' = lk /\ waker' = waker /\ open' = open /\ want' = want
        /\ notified' = notified
    BY <1>4, Zenon
  <2> QED
    BY <1>1, <1>4, <1>5, <2>1, <2>2, Zenon DEF TypeOK
<1>11. RingInv'
  <2>0. ring' = ring /\ recv' = recv
    BY <1>4, Zenon
  <2>1. Consumed' = Consumed + n /\ Consumed \in Int
    BY <1>1, <1>3, <1>5, <1>6, <1>8 DEF Consumed
  <2>2. ASSUME NEW k \in 0..max_read'-1 PROVE ring'[Wrap(read_at, k)'] = Consumed' + k + 1
    <3>1. PICK j \in 0..max_read-1 : j = n + k
      BY <1>3, <1>6, <1>8, <2>2
    <3>2. Wrap(read_at, k)' = IF read_at' + k < RING_SIZE THEN read_at' + k ELSE read_at' + k - RING_SIZE
      BY Zenon DEF Wrap
    <3>3. Wrap(read_at, k)' = Wrap(read_at, j)
      BY <1>1, <1>3, <1>5, <1>6, <1>7, <3>1, <3>2, RingSize DEF Wrap
    <3>4. ring[Wrap(read_at, j)] = Consumed + j + 1
      BY <1>0, Zenon DEF RingInv
    <3>5. Consumed + j + 1 = Consumed' + k + 1
      BY <1>3, <2>1, <2>2, <3>1, <1>7
    <3> QED
      BY <2>0, <3>3, <3>4, <3>5, Zenon
  <2>3. \A s \in Writers : pc'[s] = "store" => \A k \in 0..Chunk(s)'-1 : ring'[write_at' + k] = sent' + k + 1
    <3> SUFFICES ASSUME NEW s \in Writers, pc'[s] = "store"
                 PROVE  \A k \in 0..Chunk(s)'-1 : ring'[write_at' + k] = sent' + k + 1
      BY Zenon
    <3>1. s \in Tasks /\ s # t /\ s \notin Readers
      BY EndFacts, Zenon DEF Tasks
    <3>2. pc[s] = "store" /\ todo'[s] = todo[s] /\ At(s)' = At(s)
      BY <1>1, <1>4, <3>1, Zenon DEF At
    <3>3. Chunk(s)' = Chunk(s)
      BY <3>2, Zenon DEF Chunk, Min2
    <3> QED
      BY <1>0, <1>1, <2>0, <3>2, <3>3, Zenon DEF RingInv
  <2>4. \A s \in Readers : pc'[s] # "store"
    <3> SUFFICES ASSUME NEW s \in Readers, s # t PROVE pc'[s] # "store"
      BY <1>4, Zenon
    <3>1. pc[s] \notin Inside
      BY <1>0, <1>4, Alone, EndFacts, Zenon DEF Inside, Tasks
    <3> QED
      BY <1>4, <3>1, Zenon DEF Inside, Tasks
  <2>5. Len(recv') = Consumed'
    BY <1>0, <1>2, <1>4, <2>0, <2>1, Zenon DEF RingInv
  <2>6. \A i \in 1..Len(recv') : recv'[i] = i
    BY <1>0, <2>0, Zenon DEF RingInv
  <2> QED
    BY <2>2, <2>3, <2>4, <2>5, <2>6, Zenon DEF RingInv
<1> QED
  BY <1>4, <1>9, <1>10, <1>11, Zenon DEF IInv

(* Pipe::write stores write_at: the bytes it has copied can be read. *)
LEMMA StoreWrite ==
  ASSUME IInv, NEW t \in Writers, store(t)
  PROVE  IInv'
<1>0. TypeOK /\ LockInv /\ CallInv /\ RingInv /\ t \in Tasks /\ t \notin Readers
  BY EndFacts, Zenon DEF IInv, Tasks
<1>1. write_at' = (write_at + Chunk(t)) % RING_SIZE /\ read_at' = read_at /\ sent' = sent + Chunk(t)
  BY <1>0, Zenon DEF store
<1>2. PICK n : n = Chunk(t)
  BY Zenon
<1>3. /\ n \in Nat /\ n > 0 /\ n <= max_write /\ write_at \in 0..RING_SIZE-1 /\ write_at + n <= RING_SIZE
      /\ write_at' = IF write_at + n < RING_SIZE THEN write_at + n ELSE 0
  BY <1>0, <1>1, <1>2, StoreFrame, Zenon DEF Room, At
<1>4. /\ pc[t] = "store" /\ pc' \in [Tasks -> PCs] /\ pc'[t] = "wake" /\ \A s \in Tasks \ {t} : pc'[s] = pc[s]
      /\ current' \in [Tasks -> 0..MaxLen] /\ todo' \in [Tasks -> 0..MaxLen]
      /\ \A s \in Tasks \ {t} : todo'[s] = todo[s]
      /\ UNCHANGED <<ring, recv, lk, waker, open, want, notified>> /\ LockInv'
  BY <1>0, StoreFrame, Zenon
<1>5. /\ read_at \in 0..RING_SIZE-1 /\ read_at' \in 0..RING_SIZE-1 /\ write_at' \in 0..RING_SIZE-1
      /\ sent \in Nat /\ sent' \in Nat
  <2>1. read_at \in 0..RING_SIZE-1 /\ read_at' = read_at /\ sent \in Nat /\ sent' = sent + n
    BY <1>0, <1>1, <1>2, Zenon DEF TypeOK
  <2>2. write_at' \in 0..RING_SIZE-1
    BY <1>3, RingSize
  <2>3. sent' \in Nat
    BY <1>3, <2>1
  <2> QED
    BY <2>1, <2>2, <2>3, Zenon
<1>6. /\ max_read = IF read_at <= write_at THEN write_at - read_at ELSE write_at + RING_SIZE - read_at
      /\ max_write = RING_SIZE - 1 - max_read /\ max_read \in 0..RING_SIZE-1 /\ max_write \in 0..RING_SIZE-1
  BY <1>3, <1>5, MaxFacts, Zenon
<1>7. /\ max_read' = IF read_at' <= write_at' THEN write_at' - read_at' ELSE write_at' + RING_SIZE - read_at'
      /\ max_write' = RING_SIZE - 1 - max_read' /\ max_read' \in 0..RING_SIZE-1
  BY <1>5, MaxFactsNext, Zenon
<1>8. max_read' = max_read + n /\ max_write' = max_write - n
  BY <1>1, <1>3, <1>5, <1>6, <1>7, RingSize
<1>9. CallInv'
  <2>1. Room(t)' = Room(t) - Chunk(t)
    BY <1>0, <1>2, <1>8, Zenon DEF Room
  <2>2. \A s \in Tasks : EndOf(s) # EndOf(t) => Room(s)' = Room(s) + Chunk(t)
    BY <1>0, <1>2, <1>8, Zenon DEF Room, EndOf
  <2>3. \A s \in Tasks : Room(s) \in Nat
    BY <1>6, RingSize DEF Room
  <2> QED
    BY <1>0, <2>1, <2>2, <2>3, StoreCall, Zenon
<1>10. TypeOK'
  <2>1. /\ ring \in [0..RING_SIZE-1 -> Nat] /\ recv \in Seq(Nat) /\ lk \in [Ends -> Tasks \cup {None}]
        /\ waker \in [Ends -> Tasks \cup {None}] /\ open \in SUBSET Tasks /\ want \in [Tasks -> 0..MaxLen]
        /\ notified \in [Tasks -> BOOLEAN]
    BY <1>0, Zenon DEF TypeOK
  <2>2. /\ ring' = ring /\ recv' = recv /\ lk' = lk /\ waker' = waker /\ open' = open /\ want' = want
        /\ notified' = notified
    BY <1>4, Zenon
  <2> QED
    BY <1>1, <1>4, <1>5, <2>1, <2>2, Zenon DEF TypeOK
<1>11. RingInv'
  <2>0. ring' = ring /\ recv' = recv
    BY <1>4, Zenon
  <2>1. Consumed' = Consumed /\ Consumed = sent - max_read
    BY <1>1, <1>2, <1>3, <1>5, <1>6, <1>8 DEF Consumed
  <2>2. ASSUME NEW k \in 0..max_read'-1 PROVE ring'[Wrap(read_at, k)'] = Consumed' + k + 1
    <3>1. Wrap(read_at, k)' = Wrap(read_at, k)
      BY <1>1, Zenon DEF Wrap
    <3>2. CASE k < max_read
      <4>1. k \in 0..max_read-1
        BY <1>6, <1>7, <2>2, <3>2
      <4> QED
        BY <1>0, <2>0, <2>1, <3>1, <4>1, Zenon DEF RingInv
    <3>3. CASE k >= max_read
      <4>1. PICK j \in 0..n-1 : j = k - max_read
        BY <1>3, <1>6, <1>8, <2>2, <3>3
      <4>2. Wrap(read_at, k) = write_at + j
        BY <1>3, <1>5, <1>6, <1>8, <2>2, <3>3, <4>1, RingSize DEF Wrap
      <4>3. ring[write_at + j] = sent + j + 1
        BY <1>0, <1>2, <1>4, Zenon DEF RingInv
      <4>4. sent + j + 1 = Consumed + k + 1
        BY <1>5, <1>6, <1>7, <2>1, <2>2, <4>1
      <4> QED
        BY <2>0, <2>1, <3>1, <4>2, <4>3, <4>4, Zenon
    <3> QED
      BY <1>6, <1>7, <2>2, <3>2, <3>3
  <2>3. \A s \in Writers : pc'[s] # "store"
    <3> SUFFICES ASSUME NEW s \in Writers, s # t PROVE pc'[s] # "store"
      BY <1>4, Zenon
    <3>1. pc[s] \notin Inside
      BY <1>0, <1>4, Alone, EndFacts, Zenon DEF Inside, Tasks
    <3> QED
      BY <1>4, <3>1, Zenon DEF Inside, Tasks
  <2>4. \A s \in Readers : pc'[s] = pc[s] /\ (pc[s] = "store" => Chunk(s)' = Chunk(s))
    <3> SUFFICES ASSUME NEW s \in Readers PROVE pc'[s] = pc[s] /\ Chunk(s)' = Chunk(s)
      BY Zenon
    <3>1. s \in Tasks /\ s # t
      BY <1>0, Zenon DEF Tasks
    <3>2. pc'[s] = pc[s] /\ todo'[s] = todo[s] /\ At(s)' = At(s)
      BY <1>1, <1>4, <3>1, Zenon DEF At
    <3> QED
      BY <3>2, Zenon DEF Chunk, Min2
  <2>5. \A s \in Readers : pc'[s] = "store" => Len(recv') = Consumed' + Chunk(s)'
    BY <1>0, <2>0, <2>1, <2>4, Zenon DEF RingInv
  <2>6. (\A s \in Readers : pc'[s] # "store") => Len(recv') = Consumed'
    BY <1>0, <2>0, <2>1, <2>4, Zenon DEF RingInv
  <2>7. \A i \in 1..Len(recv') : recv'[i] = i
    BY <1>0, <2>0, Zenon DEF RingInv
  <2> QED
    BY <2>2, <2>3, <2>5, <2>6, <2>7, Zenon DEF RingInv
<1> QED
  BY <1>4, <1>9, <1>10, <1>11, Zenon DEF IInv

-----------------------------------------------------------------------------
(* The pipe starts empty, with both ends open and nobody inside. *)
LEMMA InitInv == Init => IInv
<1> SUFFICES ASSUME Init PROVE IInv
  BY Zenon
<1>1. /\ read_at = 0 /\ write_at = 0 /\ ring = [i \in 0..RING_SIZE-1 |-> 0] /\ sent = 0 /\ recv = <<>>
      /\ lk = [e \in Ends |-> None] /\ waker = [e \in Ends |-> None] /\ open = Tasks
      /\ pc = [t \in Tasks |-> "idle"] /\ want = [t \in Tasks |-> 0] /\ current = [t \in Tasks |-> 0]
      /\ todo = [t \in Tasks |-> 0] /\ notified = [t \in Tasks |-> FALSE]
  BY Zenon DEF Init
<1>2. read_at \in 0..RING_SIZE-1 /\ write_at \in 0..RING_SIZE-1 /\ 0 \in 0..MaxLen
  BY <1>1, RingSize, PipeAssumption
<1>3. ring \in [0..RING_SIZE-1 -> Nat] /\ sent \in Nat /\ recv \in Seq(Nat)
  BY <1>1
<1>4. lk \in [Ends -> Tasks \cup {None}] /\ waker \in [Ends -> Tasks \cup {None}] /\ open \in SUBSET Tasks
  BY <1>1, Zenon
<1>5. pc \in [Tasks -> PCs] /\ \A t \in Tasks : pc[t] = "idle"
  BY <1>1, Zenon DEF PCs
<1>6. want \in [Tasks -> 0..MaxLen] /\ current \in [Tasks -> 0..MaxLen] /\ todo \in [Tasks -> 0..MaxLen]
  BY <1>1, <1>2, Zenon
<1>7. notified \in [Tasks -> BOOLEAN]
  BY <1>1, Zenon
<1>8. TypeOK
  BY <1>2, <1>3, <1>4, <1>5, <1>6, <1>7, Zenon DEF TypeOK
<1>9. LockInv
  BY <1>5, Zenon DEF LockInv, Inside
<1>10. CallInv
  <2>1. \A t \in Tasks : want[t] = 0 /\ current[t] = 0
    BY <1>1, Zenon
  <2> QED
    BY <1>5, <2>1 DEF CallInv, CallOne, Moving
<1>11. max_read = 0 /\ Consumed = 0
  <2>1. max_read = 0
    BY <1>1, <1>2, MaxFacts
  <2> QED
    BY <1>1, <2>1 DEF Consumed
<1>12. RingInv
  <2>1. Len(recv) = 0
    BY <1>1, Zenon
  <2>2. \A t : t \in Readers \/ t \in Writers => pc[t] # "store"
    BY <1>5, Zenon DEF Tasks
  <2>3. 0..max_read-1 = {} /\ 1..Len(recv) = {}
    BY <1>11, <2>1
  <2> QED
    BY <1>11, <2>1, <2>2, <2>3, Zenon DEF RingInv
<1> QED
  BY <1>8, <1>9, <1>10, <1>12, Zenon DEF IInv

(* A step that changes nothing. *)
LEMMA StutterInv ==
  ASSUME IInv, UNCHANGED vars
  PROVE  IInv'
<1>1. /\ UNCHANGED <<read_at, write_at, ring, sent, recv>> /\ UNCHANGED <<lk, waker, open>>
      /\ UNCHANGED <<pc, want, current, todo, notified>>
  BY Zenon DEF vars, ringvars, endvars, callvars
<1>2. TypeOK' /\ LockInv'
  BY <1>1, Zenon DEF IInv, TypeOK, LockInv
<1>3. max_read' = max_read /\ \A s : Room(s)' = Room(s) /\ At(s)' = At(s)
  BY <1>1, RoomSame, Zenon
<1>4. Consumed' = Consumed /\ \A s : Chunk(s)' = Chunk(s)
  BY <1>1, <1>3, Zenon DEF Consumed, Chunk, Min2
<1>5. CallInv'
  BY <1>1, <1>3, Zenon DEF IInv, CallInv, CallOne
<1>6. RingInv'
  BY <1>1, <1>3, <1>4, Zenon DEF IInv, RingInv, Wrap
<1> QED
  BY <1>2, <1>5, <1>6, Zenon DEF IInv

(* Every step keeps the invariant. *)
LEMMA StepInv ==
  ASSUME IInv, [Next]_vars
  PROVE  IInv'
<1>1. ASSUME NEW t \in Tasks, Step(t) PROVE IInv'
  <2>1. CASE copy(t)
    BY <2>1, CopyOut, CopyIn, Zenon DEF Tasks
  <2>2. CASE store(t)
    BY <2>2, StoreRead, StoreWrite, Zenon DEF Tasks
  <2> QED
    BY <1>1, <2>1, <2>2, FastStep, EnterStep, PollStep, WakeStep, LeaveStep, DropStep, Zenon DEF Step
<1>2. ASSUME NEW t \in Tasks, signal(t) \/ interrupted(t) \/ close(t) PROVE IInv'
  BY <1>2, EnterStep, LeaveStep, Zenon
<1>3. ASSUME NEW t \in Tasks, NEW n \in 1..MaxLen, call(t, n) PROVE IInv'
  BY <1>3, CallStep, Zenon
<1>4. CASE Terminated
  BY <1>4, StutterInv, Zenon DEF Terminated
<1>5. CASE UNCHANGED vars
  BY <1>5, StutterInv, Zenon
<1> QED
  BY <1>1, <1>2, <1>3, <1>4, <1>5, Zenon DEF Next

(* The indices stay inside the ring, and the rest has its type, for rings   *)
(* and buffers of any size (Pipe, Read/WritePipeFuture).                    *)
THEOREM PipeTypesAreKept == Spec => []TypeOK
<1>1. Init => IInv
  BY InitInv, Zenon
<1>2. IInv /\ [Next]_vars => IInv'
  BY StepInv, Zenon
<1>3. IInv => TypeOK
  BY Zenon DEF IInv
<1> QED
  BY <1>1, <1>2, <1>3, PTL DEF Spec

(* The readers get the bytes in the order of writing, each once, and never  *)
(* one that was not published: for any number of readers and writers, any   *)
(* page and ring size and buffers of any length (Pipe::read, Pipe::write).  *)
THEOREM BytesAreInOrder == Spec => []BytesInOrder
<1>1. Init => IInv
  BY InitInv, Zenon
<1>2. IInv /\ [Next]_vars => IInv'
  BY StepInv, Zenon
<1>3. IInv => BytesInOrder
  <2> SUFFICES ASSUME IInv PROVE BytesInOrder
    BY Zenon
  <2>0. TypeOK /\ LockInv /\ CallInv /\ RingInv
    BY Zenon DEF IInv
  <2>1. recv \in Seq(Nat) /\ sent \in Nat /\ \A i \in 1..Len(recv) : recv[i] = i
    BY <2>0, Zenon DEF TypeOK, RingInv
  <2>2. recv = [i \in 1..Len(recv) |-> i]
    BY <2>1
  <2>3. max_read \in Nat
    BY <2>0, MaxFacts, RingSize DEF TypeOK
  <2>4. CASE \A t \in Readers : pc[t] # "store"
    <3>1. Len(recv) = Consumed
      BY <2>0, <2>4, Zenon DEF RingInv
    <3>2. Len(recv) <= sent
      BY <2>1, <2>3, <3>1 DEF Consumed
    <3> QED
      BY <2>2, <3>2, Zenon DEF BytesInOrder
  <2>5. CASE \E t \in Readers : pc[t] = "store"
    <3>1. PICK t \in Readers : pc[t] = "store"
      BY <2>5, Zenon
    <3>2. todo[t] > 0 /\ t \in Tasks
      BY <2>0, <3>1, Zenon DEF CallInv, CallOne, Tasks
    <3>3. Chunk(t) \in Nat /\ Chunk(t) <= max_read
      BY <2>0, <3>1, <3>2, ChunkFacts, Zenon DEF Moving, Room
    <3>4. Len(recv) = Consumed + Chunk(t)
      BY <2>0, <3>1, Zenon DEF RingInv
    <3>5. Len(recv) <= sent
      BY <2>1, <2>3, <3>3, <3>4 DEF Consumed
    <3> QED
      BY <2>2, <3>5, Zenon DEF BytesInOrder
  <2> QED
    BY <2>4, <2>5, Zenon
<1> QED
  BY <1>1, <1>2, <1>3, PTL DEF Spec

-----------------------------------------------------------------------------
(* The places of a call between its head and its sleep. *)
Waits == {"poll", "check", "park", "parked"}

(* Somebody is about to wake t, who sleeps or goes to sleep. *)
Alarm(t) == \E p \in Peers(t) : pc[p] \in {"wake", "waking", "drop"}

(* Nobody holds the file of end e. *)
Closed(e) == /\ \A t \in open : EndOf(t) # e
             /\ \A t \in Tasks : PeerOf(t) = e => pc[t] # "waking"

(* t can be woken by the other end, or there is none any more. *)
Heard(t) == waker[EndOf(t)] = t \/ Closed(PeerOf(t))

(* Drop runs for a closed end. *)
FileOne(t) ==
  /\ pc[t] \notin {"drop", "done"} <=> t \in open
  /\ pc[t] = "drop" => Closed(EndOf(t))
  /\ pc[t] = "drop_peer" => Closed(PeerOf(t))

(* A call that may wait has left its waker; a fast call, which has not, ends *)
(* before it waits: the read has moved a byte, the write moves all.          *)
HeardOne(t) ==
  /\ t \in Readers /\ pc[t] \in {"wake", "waking", "drop_peer"} => current[t] > 0
  /\ t \in Readers /\ pc[t] \in Waits => Heard(t) \/ current[t] > 0
  /\ t \in Writers /\ pc[t] \in Waits => Heard(t) \/ current[t] = want[t]
  /\ t \in Writers /\ pc[t] \in Moving => Heard(t) \/ current[t] + todo[t] = want[t]
  /\ pc[t] = "check" => current[t] # want[t]
  /\ pc[t] = "park" => waker[EndOf(t)] = t \/ notified[t]
  /\ pc[t] = "parked" => waker[EndOf(t)] = t

(* Whoever goes to sleep beside room, or beside a closed end, is woken. *)
SleepOne(t) ==
  /\ pc[t] = "check" /\ waker[EndOf(t)] = t /\ Room(t) > 0 => notified[t] \/ Alarm(t)
  /\ pc[t] = "park" /\ (Room(t) > 0 \/ Closed(PeerOf(t))) => notified[t] \/ Alarm(t)
  /\ pc[t] = "parked" /\ (Room(t) > 0 \/ Closed(PeerOf(t))) => Alarm(t)

WakeOne(t) == FileOne(t) /\ HeardOne(t) /\ SleepOne(t)
WakeInv == \A t \in Tasks : WakeOne(t)

-----------------------------------------------------------------------------
(* The two kinds of holders counted by strong_count. *)
Files(e) == {t \in open : EndOf(t) = e}
Upgraded(e) == {t \in Tasks : PeerOf(t) = e /\ pc[t] = "waking"}

(* What Weak::strong_count tells: whether an end is closed, and for a holder *)
(* whether it is the last one.                                               *)
CountsTell ==
  \A e : /\ strong_count(e) = 0 <=> Closed(e)
         /\ ~(strong_count(e) > 0) => Closed(e)
         /\ \A t \in Files(e) : strong_count(e) = 1 <=> Files(e) = {t} /\ Upgraded(e) = {}
         /\ \A t \in Upgraded(e) : strong_count(e) = 1 <=> Files(e) = {} /\ Upgraded(e) = {t}

-----------------------------------------------------------------------------
(* What a step leaves to a task that does not take it and is not woken. *)
LEMMA OtherStep ==
  ASSUME NEW s \in Tasks, WakeOne(s), pc'[s] = pc[s], s \in open' <=> s \in open,
         want'[s] = want[s], current'[s] = current[s], todo'[s] = todo[s],
         pc[s] \in Inside => waker'[EndOf(s)] = waker[EndOf(s)] /\ (notified'[s] <=> notified[s]),
         \A e : Closed(e) => Closed(e)',
         pc[s] \in Waits => (Alarm(s) => Alarm(s)'),
         pc[s] \in Waits => (Room(s)' > 0 => Room(s) > 0 \/ Alarm(s)'),
         pc[s] \in Waits => (Closed(PeerOf(s))' => Closed(PeerOf(s)) \/ Alarm(s)')
  PROVE  WakeOne(s)'
<1>1. FileOne(s)'
  BY Zenon DEF WakeOne, FileOne
<1>2. pc[s] \in Inside => (Heard(s) => Heard(s)')
  BY Zenon DEF Heard
<1>3. pc[s] \in Waits \/ pc[s] \in Moving => pc[s] \in Inside
  BY Zenon DEF Waits, Moving, Inside
<1>4. pc[s] \in {"check", "park", "parked"} => pc[s] \in Waits
  BY Zenon DEF Waits
<1>5. HeardOne(s)'
  <2>1. HeardOne(s)
    BY Zenon DEF WakeOne
  <2>2. s \in Readers /\ pc[s] \in Waits => Heard(s)' \/ current[s] > 0
    BY <1>2, <1>3, <2>1, Zenon DEF HeardOne
  <2>3. s \in Writers /\ pc[s] \in Waits => Heard(s)' \/ current[s] = want[s]
    BY <1>2, <1>3, <2>1, Zenon DEF HeardOne
  <2>4. s \in Writers /\ pc[s] \in Moving => Heard(s)' \/ current[s] + todo[s] = want[s]
    BY <1>2, <1>3, <2>1, Zenon DEF HeardOne
  <2>5. /\ s \in Readers /\ pc[s] \in {"wake", "waking", "drop_peer"} => current[s] > 0
        /\ pc[s] = "check" => current[s] # want[s]
    BY <2>1, Zenon DEF HeardOne
  <2>6. /\ pc[s] = "park" => waker'[EndOf(s)] = s \/ notified'[s]
        /\ pc[s] = "parked" => waker'[EndOf(s)] = s
    BY <1>3, <1>4, <2>1, Zenon DEF HeardOne
  <2> QED
    BY <2>2, <2>3, <2>4, <2>5, <2>6, Zenon DEF HeardOne
<1>6. SleepOne(s)'
  BY <1>3, <1>4, Zenon DEF WakeOne, SleepOne
<1> QED
  BY <1>1, <1>5, <1>6, Zenon DEF WakeOne

(* What a wake of its end means to a task that does not take the step. *)
LEMMA WokenStep ==
  ASSUME NEW s \in Tasks, WakeOne(s), s \in open' <=> s \in open,
         want'[s] = want[s], current'[s] = current[s], todo'[s] = todo[s],
         \A e : Closed(e) => Closed(e)',
         pc'[s] = IF waker[EndOf(s)] = s /\ pc[s] = "parked" THEN "poll" ELSE pc[s],
         notified'[s] <=> notified[s] \/ (waker[EndOf(s)] = s /\ pc[s] # "parked"),
         waker'[EndOf(s)] = s => waker[EndOf(s)] = s, Heard(s) => Heard(s)'
  PROVE  WakeOne(s)'
<1>0. FileOne(s) /\ HeardOne(s) /\ SleepOne(s)
  BY Zenon DEF WakeOne
<1>1. pc[s] # "parked" => pc'[s] = pc[s]
  BY Zenon
<1>2. pc[s] = "parked" => pc'[s] = "poll"
  BY <1>0, Zenon DEF HeardOne
<1>3. pc'[s] # "parked"
  BY <1>1, <1>2, Zenon
<1>4. FileOne(s)'
  <2>1. /\ pc'[s] \notin {"drop", "done"} <=> s \in open'
        /\ pc'[s] = "drop" => pc[s] = "drop"
        /\ pc'[s] = "drop_peer" => pc[s] = "drop_peer"
    BY <1>0, <1>1, <1>2, Zenon DEF FileOne
  <2> QED
    BY <1>0, <2>1, Zenon DEF FileOne
<1>5. HeardOne(s)'
  <2>1. /\ pc'[s] \in Waits => pc[s] \in Waits
        /\ pc'[s] \in Moving => pc[s] \in Moving
        /\ pc'[s] \in {"wake", "waking", "drop_peer"} => pc[s] \in {"wake", "waking", "drop_peer"}
        /\ pc'[s] = "check" => pc[s] = "check"
        /\ pc'[s] = "park" => pc[s] = "park"
    BY <1>1, <1>2, Zenon DEF Waits, Moving
  <2>2. pc'[s] = "park" => notified'[s]
    <3>1. pc[s] = "park" => pc[s] # "parked"
      BY Zenon
    <3> QED
      BY <1>0, <2>1, <3>1, Zenon DEF HeardOne
  <2> QED
    BY <1>0, <1>3, <2>1, <2>2, Zenon DEF HeardOne
<1>6. SleepOne(s)'
  <2>1. pc'[s] = "check" => pc[s] = "check" /\ pc[s] # "parked"
    BY <1>1, <1>2, Zenon
  <2>2. pc'[s] = "park" => pc[s] = "park" /\ pc[s] # "parked"
    BY <1>1, <1>2, Zenon
  <2>3. pc'[s] = "check" /\ waker'[EndOf(s)] = s => notified'[s]
    BY <2>1, Zenon
  <2>4. pc'[s] = "park" => notified'[s]
    BY <1>0, <2>2, Zenon DEF HeardOne
  <2> QED
    BY <1>3, <2>3, <2>4, Zenon DEF SleepOne
<1> QED
  BY <1>4, <1>5, <1>6, Zenon DEF WakeOne

-----------------------------------------------------------------------------
(* A step of t that wakes nobody, moves no index and keeps the files. *)
Plain(t) ==
  /\ UNCHANGED <<read_at, write_at, open>>
  /\ \A s \in Tasks \ {t} : /\ pc'[s] = pc[s] /\ want'[s] = want[s] /\ current'[s] = current[s] /\ todo'[s] = todo[s]
                            /\ notified'[s] <=> notified[s]
  /\ pc[t] \notin {"wake", "waking", "drop"} /\ pc'[t] # "waking"
  /\ waker' = waker \/ (pc[t] \in Inside /\ \A e \in Ends : e # EndOf(t) => waker'[e] = waker[e])

(* Such a step means nothing to the others. *)
LEMMA PlainStep ==
  ASSUME IInv, WakeInv, NEW t \in Tasks, Plain(t)
  PROVE  /\ \A s \in Tasks \ {t} : WakeOne(s)'
         /\ \A e : Closed(e)' <=> Closed(e)
         /\ Room(t)' = Room(t) /\ WakeOne(t) /\ (Alarm(t) => Alarm(t)')
<1>0. LockInv /\ open' = open
  BY Zenon DEF IInv, Plain
<1>1. \A e : Closed(e)' <=> Closed(e)
  <2>1. \A s \in Tasks : pc'[s] = "waking" <=> pc[s] = "waking"
    BY Zenon DEF Plain
  <2> QED
    BY <1>0, <2>1, Zenon DEF Closed
<1>2. \A s : Room(s)' = Room(s)
  BY RoomSame, Zenon DEF Plain
<1>3. \A s \in Tasks : Alarm(s) => Alarm(s)'
  <2> SUFFICES ASSUME NEW s \in Tasks, Alarm(s) PROVE Alarm(s)'
    BY Zenon
  <2>1. PICK p \in Peers(s) : pc[p] \in {"wake", "waking", "drop"}
    BY Zenon DEF Alarm
  <2>2. p \in Tasks /\ p # t
    BY <2>1, Zenon DEF Plain, Peers, Tasks
  <2>3. pc'[p] \in {"wake", "waking", "drop"}
    BY <2>1, <2>2 DEF Plain
  <2> QED
    BY <2>3, Zenon DEF Alarm, Peers
<1>4. ASSUME NEW s \in Tasks \ {t} PROVE WakeOne(s)'
  <2>1. WakeOne(s) /\ s \in Tasks /\ s # t
    BY Zenon DEF WakeInv
  <2>2. pc'[s] = pc[s] /\ want'[s] = want[s] /\ current'[s] = current[s] /\ todo'[s] = todo[s] /\ (notified'[s] <=> notified[s])
    BY Zenon DEF Plain
  <2>3. pc[s] \in Inside => waker'[EndOf(s)] = waker[EndOf(s)]
    <3>1. pc[s] \in Inside /\ pc[t] \in Inside => EndOf(s) # EndOf(t)
      BY <1>0, <2>1, Alone, Zenon
    <3>2. EndOf(s) \in Ends
      BY EndFacts, Zenon
    <3> QED
      BY <3>1, <3>2, Zenon DEF Plain
  <2> QED
    BY <1>0, <1>1, <1>2, <1>3, <2>1, <2>2, <2>3, OtherStep, Zenon
<1> QED
  BY <1>1, <1>2, <1>3, <1>4, Zenon DEF WakeInv

(* Places where nothing is asked of a task but that it has its file. *)
LEMMA RestStep ==
  ASSUME NEW t \in Tasks, pc'[t] \in {"idle", "fast", "lock", "init", "ret", "eof", "epipe"}, t \in open'
  PROVE  WakeOne(t)'
<1>1. pc'[t] \notin {"drop", "done", "drop_peer", "wake", "waking", "check", "park", "parked"} /\ pc'[t] \notin Waits /\ pc'[t] \notin Moving
  BY Zenon DEF Waits, Moving
<1>2. FileOne(t)'
  BY <1>1, Zenon DEF FileOne
<1>3. HeardOne(t)'
  BY <1>1, Zenon DEF HeardOne
<1>4. SleepOne(t)'
  BY <1>1, Zenon DEF SleepOne
<1> QED
  BY <1>2, <1>3, <1>4, Zenon DEF WakeOne

(* The steps of the others and of t together. *)
LEMMA Together ==
  ASSUME NEW t \in Tasks, WakeOne(t)', \A s \in Tasks \ {t} : WakeOne(s)'
  PROVE  WakeInv'
  BY Zenon DEF WakeInv

(* The start and the end of a call, and the lock. *)
LEMMA WakeCall ==
  ASSUME IInv, WakeInv, NEW t \in Tasks,
         (\E n \in 1..MaxLen : call(t, n)) \/ lock(t) \/ ret(t) \/ interrupted(t)
  PROVE  WakeInv'
<1>0. TypeOK /\ FileOne(t)
  BY Zenon DEF IInv, WakeInv, WakeOne
<1>1. /\ UNCHANGED <<ringvars, waker, open, todo, notified>>
      /\ pc[t] \in {"idle", "lock", "ret", "eof", "epipe", "park"}
      /\ want' = want \/ \E n : want' = [want EXCEPT ![t] = n]
      /\ current' = current \/ \E n : current' = [current EXCEPT ![t] = n]
      /\ \E l \in {"idle", "fast", "lock", "init", "ret"} : Goto(t, l)
  BY Zenon DEF call, lock, ret, interrupted, endvars, callvars
<1>2. PICK l \in {"idle", "fast", "lock", "init", "ret"} : Goto(t, l)
  BY <1>1, Zenon
<1>3. pc'[t] = l /\ \A s \in Tasks \ {t} : pc'[s] = pc[s]
  BY <1>0, <1>2, MoveFacts, Zenon DEF PCs
<1>4. \A s \in Tasks \ {t} : want'[s] = want[s] /\ current'[s] = current[s]
  BY <1>0, <1>1, Zenon DEF TypeOK
<1>5. Plain(t)
  BY <1>1, <1>2, <1>3, <1>4, Zenon DEF Plain, ringvars
<1>6. t \in open'
  BY <1>0, <1>1, Zenon DEF FileOne
<1>7. WakeOne(t)'
  BY <1>2, <1>3, <1>6, RestStep, Zenon
<1> QED
  BY <1>5, <1>7, PlainStep, Together, Zenon

(* The fast system call: a write that begins moves all it was given. *)
LEMMA WakeFast ==
  ASSUME IInv, WakeInv, NEW t \in Tasks, fast(t)
  PROVE  WakeInv'
<1>0. TypeOK /\ FileOne(t) /\ CallOne(t)
  BY Zenon DEF IInv, CallInv, WakeInv, WakeOne
<1>1. pc[t] = "fast" /\ UNCHANGED <<ringvars, waker, open, want, current, notified>>
  BY Zenon DEF fast
<1>2. t \in open'
  BY <1>0, <1>1, Zenon DEF FileOne
<1>3. CASE Goto(t, "lock") /\ UNCHANGED <<lk, todo>>
  <2>1. pc'[t] = "lock" /\ \A s \in Tasks \ {t} : pc'[s] = pc[s]
    BY <1>0, <1>3, MoveFacts, Zenon DEF PCs
  <2>2. Plain(t)
    BY <1>1, <1>3, <2>1, Zenon DEF Plain, ringvars
  <2>3. WakeOne(t)'
    BY <1>2, <2>1, RestStep, Zenon
  <2> QED
    BY <2>2, <2>3, PlainStep, Together, Zenon
<1>4. CASE max_write >= want[t] /\ todo' = [todo EXCEPT ![t] = Min2(want[t], Room(t))] /\ Goto(t, "fread")
  <2>1. pc'[t] = "fread" /\ \A s \in Tasks \ {t} : pc'[s] = pc[s]
    BY <1>0, <1>4, MoveFacts, Zenon DEF PCs
  <2>2. todo'[t] = Min2(want[t], Room(t)) /\ \A s \in Tasks \ {t} : todo'[s] = todo[s]
    BY <1>0, <1>4, Zenon DEF TypeOK
  <2>3. Plain(t)
    BY <1>1, <2>1, <2>2, Zenon DEF Plain, ringvars
  <2>4. t \in Writers => current'[t] + todo'[t] = want'[t]
    <3>1. t \in Writers => Room(t) = max_write
      BY EndFacts, Zenon DEF Room
    <3>2. max_write \in Nat /\ want[t] \in Nat /\ current[t] = 0
      BY <1>0, <1>1, MaxFacts, RingSize DEF TypeOK, CallOne
    <3>3. t \in Writers => Min2(want[t], Room(t)) = want[t]
      BY <1>4, <3>1, <3>2 DEF Min2
    <3> QED
      BY <1>1, <2>2, <3>2, <3>3
  <2>5. FileOne(t)'
    BY <1>2, <2>1, Zenon DEF FileOne
  <2>6. HeardOne(t)'
    BY <2>1, <2>4, Zenon DEF HeardOne, Waits
  <2>7. SleepOne(t)'
    BY <2>1, Zenon DEF SleepOne
  <2>8. WakeOne(t)'
    BY <2>5, <2>6, <2>7, Zenon DEF WakeOne
  <2> QED
    BY <2>3, <2>8, PlainStep, Together, Zenon
<1> QED
  BY <1>3, <1>4, Zenon DEF fast

(* The waker is left before the first look at the ring. *)
LEMMA WakeInit ==
  ASSUME IInv, WakeInv, NEW t \in Tasks, init(t)
  PROVE  WakeInv'
<1>0. TypeOK /\ FileOne(t) /\ EndOf(t) \in Ends
  BY EndFacts, Zenon DEF IInv, WakeInv, WakeOne
<1>1. /\ pc[t] = "init" /\ waker' = [waker EXCEPT ![EndOf(t)] = t] /\ Goto(t, "poll")
      /\ UNCHANGED <<ringvars, lk, open, callvars, notified>>
  BY Zenon DEF init
<1>2. pc'[t] = "poll" /\ \A s \in Tasks \ {t} : pc'[s] = pc[s]
  BY <1>0, <1>1, MoveFacts, Zenon DEF PCs
<1>3. waker'[EndOf(t)] = t /\ \A e \in Ends : e # EndOf(t) => waker'[e] = waker[e]
  BY <1>0, <1>1, Zenon DEF TypeOK
<1>4. Plain(t)
  BY <1>1, <1>2, <1>3, Zenon DEF Plain, ringvars, callvars, Inside
<1>5. FileOne(t)'
  BY <1>0, <1>1, <1>2, Zenon DEF FileOne
<1>6. HeardOne(t)'
  BY <1>2, <1>3, Zenon DEF HeardOne, Heard, Moving
<1>7. SleepOne(t)'
  BY <1>2, Zenon DEF SleepOne
<1> QED
  BY <1>4, <1>5, <1>6, <1>7, PlainStep, Together, Zenon DEF WakeOne

(* The head of the loop finds an end of the call, no room, or work. *)
LEMMA WakePoll ==
  ASSUME IInv, WakeInv, NEW t \in Tasks, poll(t)
  PROVE  WakeInv'
<1>0. TypeOK /\ CallOne(t) /\ FileOne(t) /\ HeardOne(t)
  BY Zenon DEF IInv, CallInv, WakeInv, WakeOne
<1>1. /\ pc[t] = "poll" /\ UNCHANGED <<ringvars, endvars, want, current, notified>>
      /\ Goto(t, IF current[t] = want[t] THEN "ret" ELSE IF Room(t) = 0 THEN "check" ELSE "copy")
      /\ \E d : todo' = [todo EXCEPT ![t] = d]
  BY Zenon DEF poll
<1>2. PICK l \in {"ret", "check", "copy"} : l = IF current[t] = want[t] THEN "ret" ELSE IF Room(t) = 0 THEN "check" ELSE "copy"
  BY Zenon
<1>3. pc'[t] = l /\ \A s \in Tasks \ {t} : pc'[s] = pc[s]
  BY <1>0, <1>1, <1>2, MoveFacts, Zenon DEF PCs
<1>4. \A s \in Tasks \ {t} : todo'[s] = todo[s]
  BY <1>0, <1>1, Zenon DEF TypeOK
<1>5. Plain(t)
  BY <1>1, <1>2, <1>3, <1>4, Zenon DEF Plain, ringvars, endvars
<1>6. t \in open' /\ waker' = waker /\ current' = current /\ want' = want
  BY <1>0, <1>1, Zenon DEF FileOne, endvars
<1>7. CASE l = "ret"
  BY <1>3, <1>5, <1>6, <1>7, RestStep, PlainStep, Together
<1>8. CASE l \in {"check", "copy"}
  <2>1. current[t] # want[t] /\ (l = "check" => Room(t) = 0)
    BY <1>2, <1>8, Zenon
  <2>2. Heard(t)' <=> Heard(t)
    BY <1>5, <1>6, PlainStep, Zenon DEF Heard
  <2>3. Room(t)' = Room(t)
    BY <1>5, PlainStep, Zenon
  <2>4. /\ t \in Readers => Heard(t) \/ current[t] > 0
        /\ t \in Writers => Heard(t)
    BY <1>0, <1>1, <2>1, Zenon DEF HeardOne, Waits
  <2>5. FileOne(t)'
    BY <1>3, <1>6, <1>8 DEF FileOne
  <2>6. HeardOne(t)'
    BY <1>3, <1>6, <1>8, <2>1, <2>2, <2>4, Zenon DEF HeardOne
  <2>7. SleepOne(t)'
    BY <1>3, <1>8, <2>1, <2>3 DEF SleepOne
  <2> QED
    BY <1>5, <2>5, <2>6, <2>7, PlainStep, Together, Zenon DEF WakeOne
<1> QED
  BY <1>7, <1>8, Zenon

(* The other end is looked at after the ring; who goes to sleep has left a   *)
(* waker, and has seen that end open.                                        *)
LEMMA WakeCheck ==
  ASSUME IInv, WakeInv, CountsTell, NEW t \in Tasks, check(t)
  PROVE  WakeInv'
<1>0. TypeOK /\ CallOne(t) /\ FileOne(t) /\ HeardOne(t) /\ SleepOne(t)
  BY Zenon DEF IInv, CallInv, WakeInv, WakeOne
<1>1. /\ pc[t] = "check" /\ UNCHANGED <<ringvars, endvars, callvars, notified>>
      /\ \E l \in {"ret", "eof", "epipe", "park"} : Goto(t, l)
  BY Zenon DEF check
<1>2. PICK l \in {"ret", "eof", "epipe", "park"} : Goto(t, l)
  BY <1>1, Zenon
<1>3. pc'[t] = l /\ \A s \in Tasks \ {t} : pc'[s] = pc[s]
  BY <1>0, <1>2, MoveFacts, Zenon DEF PCs
<1>4. Plain(t)
  BY <1>1, <1>2, <1>3, Zenon DEF Plain, ringvars, endvars, callvars
<1>5. t \in open' /\ waker' = waker /\ current' = current /\ want' = want /\ notified' = notified
  BY <1>0, <1>1, Zenon DEF FileOne, endvars, callvars
<1>6. CASE l # "park"
  BY <1>2, <1>3, <1>4, <1>5, <1>6, RestStep, PlainStep, Together, Zenon
<1>7. CASE l = "park"
  <2>1. strong_count(PeerOf(t)) # 0 /\ (t \in Readers => current[t] = 0)
    <3>1. pc' = [pc EXCEPT ![t] = IF t \in Readers
             THEN IF current[t] # 0 THEN "ret" ELSE IF strong_count("w") = 0 THEN "eof" ELSE "park"
             ELSE IF strong_count("r") = 0 THEN "epipe" ELSE "park"]
      BY Zenon DEF check, Goto
    <3>2. pc'[t] = IF t \in Readers
             THEN IF current[t] # 0 THEN "ret" ELSE IF strong_count("w") = 0 THEN "eof" ELSE "park"
             ELSE IF strong_count("r") = 0 THEN "epipe" ELSE "park"
      BY <1>0, <3>1, Zenon DEF TypeOK
    <3>3. t \in Readers \/ t \in Writers
      BY Zenon DEF Tasks
    <3> QED
      BY <1>3, <1>7, <3>2, <3>3, EndFacts, Zenon
  <2>2. ~ Closed(PeerOf(t))
    BY <2>1, Zenon DEF CountsTell
  <2>3. current[t] # want[t] /\ current[t] \in Nat
    BY <1>0, <1>1, PipeAssumption DEF HeardOne, TypeOK
  <2>4. Heard(t)
    BY <1>0, <1>1, <2>1, <2>3 DEF HeardOne, Waits, Tasks
  <2>5. waker[EndOf(t)] = t
    BY <2>2, <2>4, Zenon DEF Heard
  <2>6. FileOne(t)'
    BY <1>3, <1>5, <1>7, Zenon DEF FileOne
  <2>7. Heard(t)' /\ ~ Closed(PeerOf(t))' /\ Room(t)' = Room(t)
    BY <1>4, <1>5, <2>2, <2>5, PlainStep, Zenon DEF Heard
  <2>8. pc'[t] = "park" /\ pc'[t] \notin Moving
    BY <1>3, <1>7, Zenon DEF Moving
  <2>9. HeardOne(t)'
    BY <1>5, <2>5, <2>7, <2>8, Zenon DEF HeardOne
  <2>10. Room(t)' > 0 => notified'[t] \/ Alarm(t)'
    BY <1>0, <1>1, <1>4, <1>5, <2>5, <2>7, PlainStep, Zenon DEF SleepOne
  <2>11. pc'[t] # "check" /\ pc'[t] # "parked"
    BY <2>8, Zenon
  <2>12. SleepOne(t)'
    BY <2>7, <2>10, <2>11, Zenon DEF SleepOne
  <2> QED
    BY <1>4, <2>6, <2>9, <2>12, PlainStep, Together, Zenon DEF WakeOne
<1> QED
  BY <1>6, <1>7, Zenon

(* A task that was woken meanwhile does not sleep. *)
LEMMA WakePark ==
  ASSUME IInv, WakeInv, NEW t \in Tasks, park(t) \/ signal(t)
  PROVE  WakeInv'
<1>0. TypeOK /\ FileOne(t) /\ HeardOne(t) /\ SleepOne(t)
  BY Zenon DEF IInv, WakeInv, WakeOne
<1>1. /\ pc[t] \in {"park", "parked"} /\ UNCHANGED <<ringvars, endvars, callvars>>
      /\ notified' = notified \/ notified' = [notified EXCEPT ![t] = FALSE]
      /\ \E l \in {"poll", "parked"} : Goto(t, l) /\ (l = "parked" => pc[t] = "park" /\ ~ notified[t])
  BY Zenon DEF park, signal
<1>2. PICK l \in {"poll", "parked"} : Goto(t, l) /\ (l = "parked" => pc[t] = "park" /\ ~ notified[t])
  BY <1>1, Zenon
<1>3. pc'[t] = l /\ \A s \in Tasks \ {t} : pc'[s] = pc[s]
  BY <1>0, <1>2, MoveFacts, Zenon DEF PCs
<1>4. \A s \in Tasks \ {t} : notified'[s] <=> notified[s]
  BY <1>0, <1>1, Zenon DEF TypeOK
<1>5. Plain(t)
  <2>1. /\ UNCHANGED <<read_at, write_at, open>> /\ waker' = waker
        /\ \A s \in Tasks \ {t} : want'[s] = want[s] /\ current'[s] = current[s] /\ todo'[s] = todo[s]
    BY <1>1, Zenon DEF ringvars, endvars, callvars
  <2>2. pc[t] \notin {"wake", "waking", "drop"} /\ pc'[t] # "waking"
    BY <1>1, <1>2, <1>3, Zenon
  <2> QED
    BY <1>3, <1>4, <2>1, <2>2, Zenon DEF Plain
<1>6. t \in open' /\ waker' = waker /\ current' = current /\ want' = want
  BY <1>0, <1>1, Zenon DEF FileOne, endvars, callvars
<1>7. (Heard(t)' <=> Heard(t)) /\ (Closed(PeerOf(t))' <=> Closed(PeerOf(t))) /\ Room(t)' = Room(t) /\ (Alarm(t) => Alarm(t)')
  BY <1>5, <1>6, PlainStep, Zenon DEF Heard
<1>8. FileOne(t)'
  BY <1>2, <1>3, <1>6, Zenon DEF FileOne
<1>9. /\ t \in Readers => Heard(t) \/ current[t] > 0
      /\ t \in Writers => Heard(t) \/ current[t] = want[t]
  BY <1>0, <1>1, Zenon DEF HeardOne, Waits
<1>10. l = "parked" => waker[EndOf(t)] = t
  BY <1>0, <1>2, Zenon DEF HeardOne
<1>11. pc'[t] \notin Moving /\ pc'[t] \notin {"wake", "waking", "drop_peer", "check", "park"}
  BY <1>2, <1>3, Zenon DEF Moving
<1>12. HeardOne(t)'
  BY <1>3, <1>6, <1>7, <1>9, <1>10, <1>11, Zenon DEF HeardOne
<1>13. SleepOne(t)'
  <2>1. l = "parked" /\ (Room(t)' > 0 \/ Closed(PeerOf(t))') => Alarm(t)'
    BY <1>0, <1>2, <1>7, Zenon DEF SleepOne
  <2>2. pc'[t] # "check" /\ pc'[t] # "park"
    BY <1>11, Zenon
  <2> QED
    BY <1>3, <2>1, <2>2, Zenon DEF SleepOne
<1> QED
  BY <1>5, <1>8, <1>12, <1>13, PlainStep, Together, Zenon DEF WakeOne

(* A chunk is copied. *)
LEMMA WakeCopy ==
  ASSUME IInv, WakeInv, NEW t \in Tasks, copy(t)
  PROVE  WakeInv'
<1>0. TypeOK /\ FileOne(t) /\ HeardOne(t)
  BY Zenon DEF IInv, WakeInv, WakeOne
<1>1. /\ pc[t] \in {"copy", "fread"} /\ Goto(t, "store")
      /\ UNCHANGED <<read_at, write_at, sent, endvars, callvars, notified>>
  BY Zenon DEF copy
<1>2. pc'[t] = "store" /\ \A s \in Tasks \ {t} : pc'[s] = pc[s]
  BY <1>0, <1>1, MoveFacts, Zenon DEF PCs
<1>3. UNCHANGED <<want, current, todo, waker, open>>
  BY <1>1, Zenon DEF endvars, callvars
<1>4. Plain(t)
  BY <1>1, <1>2, <1>3, Zenon DEF Plain
<1>5. Heard(t)' <=> Heard(t)
  BY <1>3, <1>4, PlainStep, Zenon DEF Heard
<1>6. FileOne(t)'
  BY <1>0, <1>1, <1>2, <1>3 DEF FileOne
<1>7. HeardOne(t)'
  <2>1. t \in Writers => Heard(t) \/ current[t] + todo[t] = want[t]
    BY <1>0, <1>1, Zenon DEF HeardOne, Moving
  <2> QED
    BY <1>2, <1>3, <1>5, <2>1, Zenon DEF HeardOne, Waits
<1>8. SleepOne(t)'
  BY <1>2, Zenon DEF SleepOne
<1> QED
  BY <1>4, <1>6, <1>7, <1>8, PlainStep, Together, Zenon DEF WakeOne

(* Storing an index gives room to the other end, which is woken next. *)
LEMMA WakeStore ==
  ASSUME IInv, WakeInv, NEW t \in Tasks, store(t)
  PROVE  WakeInv'
<1>0. TypeOK /\ LockInv /\ FileOne(t) /\ HeardOne(t)
  BY Zenon DEF IInv, WakeInv, WakeOne
<1>1. /\ Chunk(t) \in Nat /\ Chunk(t) > 0 /\ pc[t] = "store" /\ pc'[t] = "wake"
      /\ current'[t] = current[t] + Chunk(t) /\ todo'[t] = todo[t] - Chunk(t)
      /\ \A s \in Tasks \ {t} : pc'[s] = pc[s] /\ current'[s] = current[s] /\ todo'[s] = todo[s]
      /\ UNCHANGED <<waker, open, want, notified>>
  BY StoreFrame, Zenon
<1>2. \A e : Closed(e)' <=> Closed(e)
  <2>1. \A s \in Tasks : pc'[s] = "waking" <=> pc[s] = "waking"
    BY <1>1, Zenon
  <2> QED
    BY <1>1, <2>1, Zenon DEF Closed
<1>3. ASSUME NEW s \in Tasks \ {t} PROVE WakeOne(s)'
  <2>1. WakeOne(s) /\ s \in Tasks /\ s # t
    BY Zenon DEF WakeInv
  <2>2. pc[s] \in Waits => Alarm(s)'
    <3> SUFFICES ASSUME pc[s] \in Waits PROVE Alarm(s)'
      BY Zenon
    <3>1. EndOf(s) # EndOf(t)
      <4>1. pc[s] \in Inside /\ pc[t] \in Inside
        BY <1>0, <1>1, Zenon DEF Inside, Waits
      <4>2. LockInv
        BY <1>0, Zenon
      <4> QED
        BY <2>1, <4>1, <4>2, Alone, Zenon
    <3>2. t \in Peers(s)
      BY <2>1, <3>1, Zenon DEF EndOf, Peers, Tasks
    <3>3. pc'[t] \in {"wake", "waking", "drop"}
      BY <1>1, Zenon
    <3> QED
      BY <3>2, <3>3, Zenon DEF Alarm, Peers
  <2> QED
    BY <1>1, <1>2, <2>1, <2>2, OtherStep, Zenon
<1>4. FileOne(t)'
  BY <1>0, <1>1, Zenon DEF FileOne
<1>5. HeardOne(t)'
  <2>1. want[t] \in Nat /\ current[t] \in Nat /\ todo[t] \in Nat
    BY <1>0, PipeAssumption DEF TypeOK
  <2>2. t \in Writers => Heard(t) \/ current[t] + todo[t] = want[t]
    BY <1>0, <1>1, Zenon DEF HeardOne, Moving
  <2>3. current'[t] > 0 /\ current'[t] + todo'[t] = current[t] + todo[t]
    BY <1>1, <2>1
  <2>4. Heard(t)' <=> Heard(t)
    BY <1>1, <1>2, Zenon DEF Heard
  <2> QED
    BY <1>1, <2>2, <2>3, <2>4, Zenon DEF HeardOne, Waits
<1>6. SleepOne(t)'
  BY <1>1, Zenon DEF SleepOne
<1> QED
  BY <1>3, <1>4, <1>5, <1>6, Together, Zenon DEF WakeOne

(* The task that has woken the other end goes on. *)
LEMMA AfterStep ==
  ASSUME TypeOK, NEW t \in Tasks, WakeOne(t), pc[t] \in {"wake", "waking", "drop_peer"}, pc'[t] = After(t),
         UNCHANGED <<want, current, todo>>, t \in open', Heard(t) => Heard(t)'
  PROVE  WakeOne(t)'
<1>0. HeardOne(t)
  BY Zenon DEF WakeOne
<1>1. todo[t] \in Nat /\ current[t] \in Nat
  BY PipeAssumption DEF TypeOK
<1>2. /\ t \in Readers => current[t] > 0
      /\ t \in Writers => Heard(t) \/ current[t] + todo[t] = want[t]
  BY <1>0, Zenon DEF HeardOne, Moving
<1>3. pc'[t] \in {"copy", "poll"} /\ (pc'[t] = "poll" => todo[t] = 0)
  BY <1>1 DEF After
<1>4. pc'[t] = "poll" /\ t \in Writers => Heard(t) \/ current[t] = want[t]
  BY <1>1, <1>2, <1>3
<1>5. FileOne(t)'
  BY <1>3, Zenon DEF FileOne
<1>6. pc'[t] \in Waits => pc'[t] = "poll"
  BY <1>3, Zenon DEF Waits
<1>7. HeardOne(t)'
  BY <1>2, <1>3, <1>4, <1>6, Zenon DEF HeardOne
<1>8. SleepOne(t)'
  BY <1>3, Zenon DEF SleepOne
<1> QED
  BY <1>5, <1>7, <1>8, Zenon DEF WakeOne

(* A task whose end is closed has left it. *)
LEMMA ClosedFacts ==
  ASSUME NEW s \in Tasks, FileOne(s), Closed(EndOf(s))
  PROVE  pc[s] \in {"drop", "done"} /\ pc[s] \notin Inside /\ pc[s] \notin Waits
<1>1. s \notin open
  BY Zenon DEF Closed
<1> QED
  BY <1>1, Zenon DEF FileOne, Inside, Waits

(* The other end is gone, or its reference keeps it open. *)
LEMMA WakeUpgrade ==
  ASSUME IInv, WakeInv, CountsTell, NEW t \in Tasks, upgrade(t)
  PROVE  WakeInv'
<1>0. TypeOK /\ LockInv /\ WakeOne(t) /\ FileOne(t) /\ HeardOne(t)
  BY Zenon DEF IInv, WakeInv, WakeOne
<1>1. /\ pc[t] = "wake" /\ UNCHANGED <<ringvars, endvars, callvars, notified>>
      /\ Goto(t, IF strong_count(PeerOf(t)) = 0 THEN After(t) ELSE "waking")
  BY Zenon DEF upgrade
<1>2. UNCHANGED <<read_at, write_at, waker, open, want, current, todo, notified>>
  BY <1>1, Zenon DEF ringvars, endvars, callvars
<1>3. PICK l : l = IF strong_count(PeerOf(t)) = 0 THEN After(t) ELSE "waking"
  BY Zenon
<1>4. l \in {"copy", "poll", "waking"}
  BY <1>3, Zenon DEF After
<1>5. pc'[t] = l /\ \A s \in Tasks \ {t} : pc'[s] = pc[s]
  <2>1. l \in PCs /\ Goto(t, l)
    BY <1>1, <1>3, <1>4, Zenon DEF PCs
  <2> QED
    BY <1>0, <2>1, MoveFacts, Zenon
<1>6. strong_count(PeerOf(t)) = 0 <=> Closed(PeerOf(t))
  BY Zenon DEF CountsTell
<1>7. \A e : Closed(e)' <=> Closed(e)
  <2>1. l = "waking" => ~ Closed(PeerOf(t))
    BY <1>3, <1>6, Zenon DEF After
  <2>2. \A s \in Tasks \ {t} : pc'[s] = "waking" <=> pc[s] = "waking"
    BY <1>5, Zenon
  <2>3. pc[t] # "waking"
    BY <1>1, Zenon
  <2> QED
    BY <1>2, <1>5, <2>1, <2>2, <2>3, Zenon DEF Closed
<1>8. \A s : Room(s)' = Room(s)
  BY <1>2, RoomSame
<1>9. ASSUME NEW s \in Tasks \ {t} PROVE WakeOne(s)'
  <2>1. WakeOne(s) /\ s \in Tasks /\ s # t /\ FileOne(s)
    BY Zenon DEF WakeInv, WakeOne
  <2>2. pc[s] \in Waits => (Alarm(s) => Alarm(s)')
    <3> SUFFICES ASSUME pc[s] \in Waits, Alarm(s) PROVE Alarm(s)'
      BY Zenon
    <3>1. PICK p \in Peers(s) : pc[p] \in {"wake", "waking", "drop"}
      BY Zenon DEF Alarm
    <3>2. p \in Tasks /\ EndOf(s) = PeerOf(p)
      BY <2>1, <3>1, EndFacts, Zenon DEF Peers, Tasks
    <3>3. pc'[p] \in {"wake", "waking", "drop"}
      <4>1. CASE p # t
        BY <1>5, <3>1, <3>2, <4>1
      <4>2. CASE p = t
        <5>1. ~ Closed(PeerOf(t))
          BY <2>1, <3>2, <4>2, ClosedFacts, Zenon
        <5> QED
          BY <1>3, <1>5, <1>6, <4>2, <5>1, Zenon
      <4> QED
        BY <4>1, <4>2, Zenon
    <3> QED
      BY <3>3, Zenon DEF Alarm, Peers
  <2> QED
    BY <1>2, <1>5, <1>7, <1>8, <2>1, <2>2, OtherStep, Zenon
<1>10. Heard(t) <=> Heard(t)'
  BY <1>2, <1>7, Zenon DEF Heard
<1>11. t \in open'
  BY <1>0, <1>1, <1>2, Zenon DEF FileOne
<1>12. WakeOne(t)'
  <2>1. CASE l = "waking"
    <3>1. FileOne(t)'
      BY <1>5, <1>11, <2>1, Zenon DEF FileOne
    <3>2. HeardOne(t)'
      <4>1. /\ t \in Readers => current[t] > 0
            /\ t \in Writers => Heard(t) \/ current[t] + todo[t] = want[t]
        BY <1>0, <1>1, Zenon DEF HeardOne, Moving
      <4>2. pc'[t] = "waking" /\ pc'[t] \notin Waits
        BY <1>5, <2>1, Zenon DEF Waits
      <4> QED
        BY <1>2, <1>10, <4>1, <4>2, Zenon DEF HeardOne
    <3>3. SleepOne(t)'
      BY <1>5, <2>1, Zenon DEF SleepOne
    <3> QED
      BY <3>1, <3>2, <3>3, Zenon DEF WakeOne
  <2>2. CASE l = After(t)
    BY <1>0, <1>1, <1>2, <1>5, <1>10, <1>11, <2>2, AfterStep
  <2> QED
    BY <1>3, <2>1, <2>2, Zenon
<1> QED
  BY <1>9, <1>12, Together, Zenon

(* The other end is woken; it may turn out that it was closed meanwhile. *)
LEMMA WakeWaking ==
  ASSUME IInv, WakeInv, CountsTell, NEW t \in Tasks, wake_peer(t)
  PROVE  WakeInv'
<1>0. TypeOK /\ LockInv /\ WakeOne(t) /\ FileOne(t) /\ HeardOne(t)
  BY Zenon DEF IInv, WakeInv, WakeOne
<1>1. PICK l : l = IF strong_count(PeerOf(t)) = 1 THEN "drop_peer" ELSE After(t)
  BY Zenon
<1>2. /\ pc[t] = "waking" /\ UNCHANGED <<ringvars, endvars, callvars>>
      /\ Wake(Holder(PeerOf(t)), [pc EXCEPT ![t] = l])
  BY <1>1, Zenon DEF wake_peer
<1>3. UNCHANGED <<read_at, write_at, waker, open, want, current, todo>>
  BY <1>2, Zenon DEF ringvars, endvars, callvars
<1>4. l \in {"copy", "poll", "drop_peer"}
  BY <1>1 DEF After
<1>5. /\ pc'[t] = l
      /\ \A s \in Tasks \ {t} : pc'[s] = IF s \in Holder(PeerOf(t)) /\ pc[s] = "parked" THEN "poll" ELSE pc[s]
      /\ \A s \in Tasks \ {t} : notified'[s] <=> notified[s] \/ (s \in Holder(PeerOf(t)) /\ pc[s] # "parked")
  <2>1. l \in PCs /\ l # "parked"
    BY <1>4, Zenon DEF PCs
  <2> QED
    BY <1>0, <1>2, <2>1, WakeFacts, Zenon
<1>6. \A e : Closed(e) => Closed(e)'
  <2>1. \A s \in Tasks : pc'[s] = "waking" => pc[s] = "waking"
    BY <1>4, <1>5
  <2> QED
    BY <1>3, <2>1, Zenon DEF Closed
<1>7. Heard(t) => Heard(t)'
  BY <1>3, <1>6, Zenon DEF Heard
<1>8. ASSUME NEW s \in Tasks \ {t} PROVE WakeOne(s)'
  <2>1. WakeOne(s) /\ s \in Tasks /\ s # t /\ s # None
    BY EndFacts, Zenon DEF WakeInv
  <2>2. CASE EndOf(s) = PeerOf(t)
    <3>1. s \in Holder(PeerOf(t)) <=> waker[EndOf(s)] = s
      BY <2>1, <2>2, Zenon DEF Holder
    <3>2. Heard(s) => Heard(s)'
      BY <1>3, <1>6, Zenon DEF Heard
    <3>3. pc'[s] = IF waker[EndOf(s)] = s /\ pc[s] = "parked" THEN "poll" ELSE pc[s]
      BY <1>5, <3>1, Zenon
    <3>4. notified'[s] <=> notified[s] \/ (waker[EndOf(s)] = s /\ pc[s] # "parked")
      BY <1>5, <3>1, Zenon
    <3> QED
      BY <1>3, <1>6, <2>1, <3>2, <3>3, <3>4, WokenStep, Zenon
  <2>3. CASE EndOf(s) # PeerOf(t)
    <3>1. EndOf(s) = EndOf(t)
      BY <2>1, <2>3, Zenon DEF EndOf, PeerOf
    <3>2. pc[s] \notin Inside
      BY <1>0, <1>2, <2>1, <3>1, Alone, Zenon DEF Inside
    <3>3. pc[s] # "parked" /\ pc[s] \notin Waits
      BY <3>2, Zenon DEF Inside, Waits
    <3>4. pc'[s] = pc[s]
      BY <1>5, <3>3, Zenon
    <3> QED
      BY <1>3, <1>6, <2>1, <3>2, <3>3, <3>4, OtherStep, Zenon
  <2> QED
    BY <2>2, <2>3, Zenon
<1>9. t \in open'
  BY <1>0, <1>2, <1>3, Zenon DEF FileOne
<1>10. WakeOne(t)'
  <2>1. CASE l = "drop_peer"
    <3>1. strong_count(PeerOf(t)) = 1
      BY <1>1, <2>1, Zenon DEF After
    <3>2. t \in Upgraded(PeerOf(t))
      BY <1>2, Zenon DEF Upgraded
    <3>3. Files(PeerOf(t)) = {} /\ Upgraded(PeerOf(t)) = {t}
      BY <1>0, <3>1, <3>2, Zenon DEF CountsTell
    <3>4. Closed(PeerOf(t))'
      <4>1. \A s \in open : EndOf(s) # PeerOf(t)
        BY <3>3, Zenon DEF Files
      <4>2. \A s \in Tasks : PeerOf(s) = PeerOf(t) /\ pc[s] = "waking" => s = t
        BY <3>3, Zenon DEF Upgraded
      <4>3. \A s \in Tasks : pc'[s] = "waking" => pc[s] = "waking" /\ s # t
        BY <1>4, <1>5, Zenon
      <4> QED
        BY <1>3, <4>1, <4>2, <4>3, Zenon DEF Closed
    <3>5. FileOne(t)'
      BY <1>5, <1>9, <2>1, <3>4 DEF FileOne
    <3>6. HeardOne(t)'
      BY <1>0, <1>2, <1>3, <1>5, <1>7, <2>1, Zenon DEF HeardOne, Moving, Waits
    <3>7. SleepOne(t)'
      BY <1>5, <2>1 DEF SleepOne
    <3> QED
      BY <3>5, <3>6, <3>7 DEF WakeOne
  <2>2. CASE l = After(t)
    BY <1>0, <1>2, <1>3, <1>5, <1>7, <1>9, <2>2, AfterStep, Zenon
  <2> QED
    BY <1>1, <2>1, <2>2, Zenon
<1> QED
  BY <1>8, <1>10, Together, Zenon

(* The last close of an end runs its Drop. *)
LEMMA WakeClose ==
  ASSUME IInv, WakeInv, CountsTell, NEW t \in Tasks, close(t)
  PROVE  WakeInv'
<1>0. TypeOK
  BY Zenon DEF IInv
<1>1. PICK l : l = IF strong_count(EndOf(t)) = 1 THEN "drop" ELSE "done"
  BY Zenon
<1>2. /\ pc[t] = "idle" /\ t \in open /\ open' = open \ {t} /\ Goto(t, l)
      /\ UNCHANGED <<ringvars, lk, waker, callvars, notified>>
  BY <1>1, Zenon DEF close
<1>3. UNCHANGED <<read_at, write_at, waker, want, current, todo, notified>>
  BY <1>2, Zenon DEF ringvars, callvars
<1>4. pc'[t] = l /\ \A s \in Tasks \ {t} : pc'[s] = pc[s]
  BY <1>0, <1>1, <1>2, MoveFacts, Zenon DEF PCs
<1>5. \A s \in Tasks : pc'[s] = "waking" <=> pc[s] = "waking"
  BY <1>1, <1>2, <1>4, Zenon
<1>6. \A e : Closed(e) => Closed(e)'
  BY <1>2, <1>5, Zenon DEF Closed
<1>7. t \in Files(EndOf(t))
  BY <1>2, Zenon DEF Files
<1>8. strong_count(EndOf(t)) = 1 <=> Files(EndOf(t)) = {t} /\ Upgraded(EndOf(t)) = {}
  BY <1>0, <1>7, Zenon DEF CountsTell
<1>9. Closed(EndOf(t))' <=> l = "drop"
  <2>1. Closed(EndOf(t))' <=> Files(EndOf(t)) = {t} /\ Upgraded(EndOf(t)) = {}
    <3>1. (\A s \in open' : EndOf(s) # EndOf(t)) <=> \A s \in Files(EndOf(t)) : s = t
      BY <1>2, Zenon DEF Files
    <3>2. (\A s \in Tasks : PeerOf(s) = EndOf(t) => pc'[s] # "waking") <=> Upgraded(EndOf(t)) = {}
      BY <1>5, Zenon DEF Upgraded
    <3>3. Closed(EndOf(t))' <=> (/\ \A s \in open' : EndOf(s) # EndOf(t)
                                 /\ \A s \in Tasks : PeerOf(s) = EndOf(t) => pc'[s] # "waking")
      BY Zenon DEF Closed
    <3>4. (\A s \in Files(EndOf(t)) : s = t) <=> Files(EndOf(t)) = {t}
      BY <1>7, Zenon
    <3> QED
      BY <3>1, <3>2, <3>3, <3>4, Zenon
  <2> QED
    BY <1>1, <1>8, <2>1, Zenon
<1>10. \A e : Closed(e)' => Closed(e) \/ e = EndOf(t)
  BY <1>2, <1>5, Zenon DEF Closed
<1>11. \A s : Room(s)' = Room(s)
  BY <1>3, RoomSame, Zenon
<1>12. ASSUME NEW s \in Tasks \ {t} PROVE WakeOne(s)'
  <2>1. WakeOne(s) /\ s \in Tasks /\ s # t /\ (s \in open' <=> s \in open)
    BY <1>2, Zenon DEF WakeInv
  <2>2. Alarm(s) => Alarm(s)'
    <3> SUFFICES ASSUME Alarm(s) PROVE Alarm(s)'
      BY Zenon
    <3>1. PICK p \in Peers(s) : pc[p] \in {"wake", "waking", "drop"}
      BY Zenon DEF Alarm
    <3>2. p \in Tasks /\ p # t
      BY <1>2, <3>1, Zenon DEF Peers, Tasks
    <3>3. pc'[p] \in {"wake", "waking", "drop"}
      BY <1>4, <3>1, <3>2, Zenon
    <3> QED
      BY <3>3, Zenon DEF Alarm, Peers
  <2>3. Closed(PeerOf(s))' => Closed(PeerOf(s)) \/ Alarm(s)'
    <3> SUFFICES ASSUME Closed(PeerOf(s))', PeerOf(s) = EndOf(t) PROVE Alarm(s)'
      BY <1>10, Zenon
    <3>1. l = "drop"
      <4>1. PICK e : e = EndOf(t)
        BY Zenon
      <4>2. Closed(e)'
        BY <4>1, Zenon DEF Closed, PeerOf
      <4> QED
        BY <1>9, <4>1, <4>2, Zenon DEF Closed, EndOf
    <3>2. t \in Peers(s)
      BY <2>1, EndFacts, Zenon DEF Peers, Tasks
    <3>3. pc'[t] \in {"wake", "waking", "drop"}
      BY <1>4, <3>1, Zenon
    <3> QED
      BY <3>2, <3>3, Zenon DEF Alarm, Peers
  <2> QED
    BY <1>3, <1>4, <1>6, <1>11, <2>1, <2>2, <2>3, OtherStep, Zenon
<1>13. WakeOne(t)'
  <2>1. t \notin open' /\ pc'[t] \in {"drop", "done"}
    BY <1>1, <1>2, <1>4, Zenon
  <2>2. FileOne(t)'
    BY <1>4, <1>9, <2>1, Zenon DEF FileOne
  <2>3. HeardOne(t)'
    BY <2>1, Zenon DEF HeardOne, Waits, Moving
  <2>4. SleepOne(t)'
    BY <2>1, Zenon DEF SleepOne
  <2> QED
    BY <2>2, <2>3, <2>4, Zenon DEF WakeOne
<1> QED
  BY <1>12, <1>13, Together, Zenon

(* Drop wakes the end that is open still; it takes the waker away, but who   *)
(* would wait for it sees that the other end is closed.                      *)
LEMMA WakeDrop ==
  ASSUME IInv, WakeInv, CountsTell, NEW t \in Tasks, drop(t)
  PROVE  WakeInv'
<1>0. TypeOK /\ WakeOne(t) /\ FileOne(t)
  BY Zenon DEF IInv, WakeInv, WakeOne
<1>1. PICK e, l : /\ (pc[t] = "drop" /\ e = EndOf(t) /\ l = "done") \/ (pc[t] = "drop_peer" /\ e = PeerOf(t) /\ l = After(t))
                  /\ DropEnd(t, e, l) /\ UNCHANGED <<ringvars, lk, open, callvars>>
  BY Zenon DEF drop
<1>2. UNCHANGED <<read_at, write_at, open, want, current, todo>>
  BY <1>1, Zenon DEF ringvars, callvars
<1>3. PICK o : o = IF e = "r" THEN "w" ELSE "r"
  BY Zenon
<1>4. \/ strong_count(o) > 0 /\ Wake(Holder(o), [pc EXCEPT ![t] = l]) /\ waker' = [waker EXCEPT ![o] = None]
      \/ ~(strong_count(o) > 0) /\ Goto(t, l) /\ UNCHANGED <<waker, notified>>
  BY <1>1, <1>3, Zenon DEF DropEnd
<1>5. /\ e \in Ends /\ o \in Ends /\ o # e
      /\ \A s \in Tasks : (EndOf(s) = o /\ PeerOf(s) = e) \/ EndOf(s) = e
  <2>1. e \in Ends
    BY <1>1, EndFacts, Zenon
  <2> QED
    BY <1>3, <2>1, Zenon DEF Ends, EndOf, PeerOf
<1>6. Closed(e) /\ pc[t] \in {"drop", "drop_peer"} /\ l \in {"copy", "poll", "done"}
  BY <1>0, <1>1, Zenon DEF FileOne, After
<1>7. l \in PCs /\ l # "parked"
  BY <1>6, Zenon DEF PCs
<1>8. ASSUME NEW s \in Tasks, EndOf(s) = e
      PROVE  pc[s] \in {"drop", "done"} /\ pc[s] \notin Inside /\ pc[s] \notin Waits
  <2>1. FileOne(s)
    BY Zenon DEF WakeInv, WakeOne
  <2> QED
    BY <1>6, <1>8, <2>1, ClosedFacts, Zenon
<1>9. ASSUME Closed(e)', pc'[t] = l
      PROVE  WakeOne(t)'
  <2>1. CASE pc[t] = "drop"
    <3>1. l = "done" /\ t \notin open
      BY <1>0, <1>1, <2>1, Zenon DEF FileOne
    <3>2. FileOne(t)'
      BY <1>2, <1>9, <3>1, Zenon DEF FileOne
    <3>3. HeardOne(t)'
      BY <1>9, <3>1, Zenon DEF HeardOne, Waits, Moving
    <3>4. SleepOne(t)'
      BY <1>9, <3>1 DEF SleepOne
    <3> QED
      BY <3>2, <3>3, <3>4, Zenon DEF WakeOne
  <2>2. CASE pc[t] = "drop_peer"
    <3>1. l = After(t) /\ e = PeerOf(t) /\ t \in open'
      BY <1>0, <1>1, <1>2, <2>2, Zenon DEF FileOne
    <3>2. Heard(t)'
      BY <1>9, <3>1, Zenon DEF Heard, Closed, PeerOf
    <3> QED
      BY <1>0, <1>2, <1>9, <2>2, <3>1, <3>2, AfterStep, Zenon
  <2> QED
    BY <1>6, <2>1, <2>2, Zenon
<1>10. CASE strong_count(o) > 0 /\ Wake(Holder(o), [pc EXCEPT ![t] = l]) /\ waker' = [waker EXCEPT ![o] = None]
  <2>1. /\ pc'[t] = l
        /\ \A s \in Tasks \ {t} : pc'[s] = IF s \in Holder(o) /\ pc[s] = "parked" THEN "poll" ELSE pc[s]
        /\ \A s \in Tasks \ {t} : notified'[s] <=> notified[s] \/ (s \in Holder(o) /\ pc[s] # "parked")
    BY <1>0, <1>7, <1>10, WakeFacts, Zenon
  <2>2. \A f : Closed(f) => Closed(f)'
    <3>1. \A s \in Tasks : pc'[s] = "waking" => pc[s] = "waking"
      BY <1>6, <2>1, Zenon
    <3> QED
      BY <1>2, <3>1, Zenon DEF Closed
  <2>3. waker'[o] = None
    BY <1>0, <1>5, <1>10 DEF TypeOK
  <2>4. ASSUME NEW s \in Tasks \ {t} PROVE WakeOne(s)'
    <3>1. WakeOne(s) /\ s \in Tasks /\ s # t /\ s # None
      BY EndFacts, Zenon DEF WakeInv
    <3>2. CASE EndOf(s) = e
      <4>1. pc[s] \in {"drop", "done"} /\ pc[s] \notin Inside /\ pc[s] \notin Waits
        BY <1>8, <3>1, <3>2, Zenon
      <4>2. pc'[s] = pc[s]
        BY <2>1, <4>1, Zenon
      <4> QED
        BY <1>2, <2>2, <3>1, <4>1, <4>2, OtherStep, Zenon
    <3>3. CASE EndOf(s) = o /\ PeerOf(s) = e
      <4>1. s \in Holder(o) <=> waker[EndOf(s)] = s
        BY <3>1, <3>3, Zenon DEF Holder
      <4>2. Heard(s)'
        BY <1>6, <2>2, <3>3, Zenon DEF Heard, Closed, PeerOf
      <4>3. waker'[EndOf(s)] # s
        BY <2>3, <3>1, <3>3, Zenon
      <4>4. pc'[s] = IF waker[EndOf(s)] = s /\ pc[s] = "parked" THEN "poll" ELSE pc[s]
        BY <2>1, <4>1, Zenon
      <4>5. notified'[s] <=> notified[s] \/ (waker[EndOf(s)] = s /\ pc[s] # "parked")
        BY <2>1, <4>1, Zenon
      <4> QED
        BY <1>2, <2>2, <3>1, <4>2, <4>3, <4>4, <4>5, WokenStep, Zenon
    <3> QED
      BY <1>5, <3>1, <3>2, <3>3, Zenon
  <2>5. WakeOne(t)'
    BY <1>6, <1>9, <2>1, <2>2, Zenon
  <2> QED
    BY <2>4, <2>5, Together, Zenon
<1>11. CASE ~(strong_count(o) > 0) /\ Goto(t, l) /\ UNCHANGED <<waker, notified>>
  <2>1. pc'[t] = l /\ \A s \in Tasks \ {t} : pc'[s] = pc[s]
    BY <1>0, <1>7, <1>11, MoveFacts, Zenon
  <2>2. \A f : Closed(f) => Closed(f)'
    <3>1. \A s \in Tasks : pc'[s] = "waking" => pc[s] = "waking"
      BY <1>6, <2>1, Zenon
    <3> QED
      BY <1>2, <3>1, Zenon DEF Closed
  <2>3. Closed(o)
    BY <1>11, Zenon DEF CountsTell
  <2>4. ASSUME NEW s \in Tasks \ {t} PROVE WakeOne(s)'
    <3>1. WakeOne(s) /\ s \in Tasks /\ FileOne(s)
      BY Zenon DEF WakeInv, WakeOne
    <3>2. Closed(EndOf(s))
      BY <1>5, <1>6, <2>3, <3>1, Zenon
    <3>3. pc[s] \notin Inside /\ pc[s] \notin Waits
      BY <3>1, <3>2, ClosedFacts, Zenon
    <3>4. pc'[s] = pc[s]
      BY <2>1, Zenon
    <3> QED
      BY <1>2, <2>2, <3>1, <3>3, <3>4, OtherStep, Zenon
  <2>5. WakeOne(t)'
    BY <1>6, <1>9, <2>1, <2>2, Zenon
  <2> QED
    BY <2>4, <2>5, Together, Zenon
<1> QED
  BY <1>4, <1>10, <1>11, Zenon

-----------------------------------------------------------------------------
(* At first nobody waits and both ends are open. *)
LEMMA InitWake == Init => WakeInv
<1> SUFFICES ASSUME Init, NEW t \in Tasks PROVE WakeOne(t)
  BY Zenon DEF WakeInv
<1>1. open = Tasks /\ pc = [s \in Tasks |-> "idle"]
  BY Zenon DEF Init
<1>2. pc[t] = "idle" /\ t \in open
  BY <1>1, Zenon
<1>3. FileOne(t)
  BY <1>2, Zenon DEF FileOne
<1>4. HeardOne(t)
  BY <1>2, Zenon DEF HeardOne, Waits, Moving
<1>5. SleepOne(t)
  BY <1>2, Zenon DEF SleepOne
<1> QED
  BY <1>3, <1>4, <1>5, Zenon DEF WakeOne

(* Steps that change nothing. *)
LEMMA StutterWake ==
  ASSUME WakeInv, UNCHANGED vars
  PROVE  WakeInv'
<1>1. UNCHANGED <<read_at, write_at, waker, open, pc, want, current, todo, notified>>
  BY Zenon DEF vars, ringvars, endvars, callvars
<1>2. \A s : Room(s)' = Room(s)
  BY <1>1, RoomSame, Zenon
<1>3. \A e : Closed(e)' <=> Closed(e)
  BY <1>1, Zenon DEF Closed
<1>4. \A s : Alarm(s)' <=> Alarm(s)
  BY <1>1, Zenon DEF Alarm, Peers
<1>5. ASSUME NEW s \in Tasks PROVE WakeOne(s)'
  <2>1. WakeOne(s)
    BY Zenon DEF WakeInv
  <2> QED
    BY <1>1, <1>2, <1>3, <1>4, <2>1, OtherStep, Zenon
<1> QED
  BY <1>5, Zenon DEF WakeInv

(* Every step keeps both invariants. *)
LEMMA StepWake ==
  ASSUME IInv, WakeInv, CountsTell, [Next]_vars
  PROVE  WakeInv'
<1>1. ASSUME NEW t \in Tasks, Step(t) PROVE WakeInv'
  <2>1. CASE fast(t) \/ lock(t) \/ init(t) \/ poll(t) \/ check(t) \/ park(t)
    BY <2>1, WakeFast, WakeCall, WakeInit, WakePoll, WakeCheck, WakePark, Zenon
  <2>2. CASE copy(t) \/ store(t) \/ upgrade(t) \/ wake_peer(t) \/ ret(t) \/ drop(t)
    BY <2>2, WakeCopy, WakeStore, WakeUpgrade, WakeWaking, WakeCall, WakeDrop, Zenon
  <2> QED
    BY <1>1, <2>1, <2>2, Zenon DEF Step
<1>2. ASSUME NEW t \in Tasks, signal(t) \/ interrupted(t) \/ close(t) PROVE WakeInv'
  BY <1>2, WakePark, WakeCall, WakeClose, Zenon
<1>3. ASSUME NEW t \in Tasks, NEW n \in 1..MaxLen, call(t, n) PROVE WakeInv'
  BY <1>3, WakeCall, Zenon
<1>4. CASE Terminated
  BY <1>4, StutterWake, Zenon DEF Terminated
<1>5. CASE UNCHANGED vars
  BY <1>5, StutterWake, Zenon
<1> QED
  BY <1>1, <1>2, <1>3, <1>4, <1>5, Zenon DEF Next


-----------------------------------------------------------------------------
INSTANCE FiniteSetTheorems

(* The sum of two cardinalities is zero, or one with a known element. *)
LEMMA CardSum ==
  ASSUME NEW A, NEW B, IsFiniteSet(A), IsFiniteSet(B)
  PROVE  /\ Cardinality(A) + Cardinality(B) = 0 <=> A = {} /\ B = {}
         /\ \A x \in A : Cardinality(A) + Cardinality(B) = 1 <=> A = {x} /\ B = {}
         /\ \A x \in B : Cardinality(A) + Cardinality(B) = 1 <=> A = {} /\ B = {x}
<1>1. Cardinality(A) \in Nat /\ Cardinality(B) \in Nat
  BY FS_CardinalityType, Zenon
<1>2. (Cardinality(A) = 0 <=> A = {}) /\ (Cardinality(B) = 0 <=> B = {})
  BY FS_EmptySet
<1>3. \A x : (x \in A => (Cardinality(A) = 1 <=> A = {x})) /\ (x \in B => (Cardinality(B) = 1 <=> B = {x}))
  BY FS_Singleton
<1>4. Cardinality(A) + Cardinality(B) = 0 <=> A = {} /\ B = {}
  BY <1>1, <1>2
<1>5. ASSUME NEW x \in A PROVE Cardinality(A) + Cardinality(B) = 1 <=> A = {x} /\ B = {}
  <2>1. Cardinality(A) # 0
    BY <1>2, <1>5
  <2>2. Cardinality(A) + Cardinality(B) = 1 <=> Cardinality(A) = 1 /\ Cardinality(B) = 0
    BY <1>1, <2>1
  <2> QED
    BY <1>2, <1>3, <1>5, <2>2, Zenon
<1>6. ASSUME NEW x \in B PROVE Cardinality(A) + Cardinality(B) = 1 <=> A = {} /\ B = {x}
  <2>1. Cardinality(B) # 0
    BY <1>2, <1>6
  <2>2. Cardinality(A) + Cardinality(B) = 1 <=> Cardinality(A) = 0 /\ Cardinality(B) = 1
    BY <1>1, <2>1
  <2> QED
    BY <1>2, <1>3, <1>6, <2>2, Zenon
<1> QED
  BY <1>4, <1>5, <1>6

(* With finitely many tasks the counts tell this. *)
LEMMA CountFacts ==
  ASSUME IsFiniteSet(Tasks), TypeOK
  PROVE  CountsTell
<1> SUFFICES ASSUME NEW e
             PROVE  /\ strong_count(e) = 0 <=> Closed(e)
                    /\ ~(strong_count(e) > 0) => Closed(e)
                    /\ \A t \in Files(e) : strong_count(e) = 1 <=> Files(e) = {t} /\ Upgraded(e) = {}
                    /\ \A t \in Upgraded(e) : strong_count(e) = 1 <=> Files(e) = {} /\ Upgraded(e) = {t}
  BY Zenon DEF CountsTell
<1>1. Files(e) \in SUBSET Tasks /\ Upgraded(e) \in SUBSET Tasks
  BY Zenon DEF TypeOK, Files, Upgraded
<1>2. IsFiniteSet(Files(e)) /\ IsFiniteSet(Upgraded(e))
  BY <1>1, FS_Subset
<1>3. strong_count(e) = Cardinality(Files(e)) + Cardinality(Upgraded(e))
  BY Zenon DEF strong_count, Files, Upgraded
<1>4. Closed(e) <=> Files(e) = {} /\ Upgraded(e) = {}
  <2>1. (\A t \in open : EndOf(t) # e) <=> Files(e) = {}
    BY Zenon DEF Files
  <2>2. (\A t \in Tasks : PeerOf(t) = e => pc[t] # "waking") <=> Upgraded(e) = {}
    BY Zenon DEF Upgraded
  <2> QED
    BY <2>1, <2>2, Zenon DEF Closed
<1>5. /\ strong_count(e) = 0 <=> Closed(e)
      /\ \A t \in Files(e) : strong_count(e) = 1 <=> Files(e) = {t} /\ Upgraded(e) = {}
      /\ \A t \in Upgraded(e) : strong_count(e) = 1 <=> Files(e) = {} /\ Upgraded(e) = {t}
  BY <1>2, <1>3, <1>4, CardSum, Zenon
<1>6. ~(strong_count(e) > 0) => strong_count(e) = 0
  <2>1. Cardinality(Files(e)) \in Nat /\ Cardinality(Upgraded(e)) \in Nat
    BY <1>2, FS_CardinalityType
  <2> QED
    BY <1>3, <2>1
<1> QED
  BY <1>5, <1>6, Zenon

(* No wakeup is lost between the poll of one end, the store of the index of  *)
(* the other and the closes of the files: a task that sleeps beside room or  *)
(* beside a closed end is about to be woken, for any finite number of        *)
(* readers and writers and rings of any size (poll of Read/WritePipeFuture,  *)
(* wake_reader, wake_writer, the Drops of PipeReader and PipeWriter).        *)
THEOREM NoSleepBesideRoomHolds ==
  ASSUME IsFiniteSet(Tasks)
  PROVE  Spec => []NoSleepBesideRoom
<1>1. Init => IInv /\ WakeInv
  BY InitInv, InitWake
<1>2. IInv /\ WakeInv /\ [Next]_vars => IInv' /\ WakeInv'
  <2>1. IInv => CountsTell
    BY CountFacts, Zenon DEF IInv
  <2> QED
    BY <2>1, StepInv, StepWake, Zenon
<1>3. IInv /\ WakeInv => NoSleepBesideRoom
  <2> SUFFICES ASSUME IInv, WakeInv, NEW t \in Tasks, pc[t] = "parked", Room(t) > 0 \/ Gone(t)
               PROVE  \E p \in Peers(t) : pc[p] \in {"wake", "waking", "drop"}
    BY Zenon DEF NoSleepBesideRoom
  <2>1. TypeOK /\ SleepOne(t)
    BY Zenon DEF IInv, WakeInv, WakeOne
  <2>2. Gone(t) <=> Closed(PeerOf(t))
    BY <2>1, CountFacts, Zenon DEF Gone, CountsTell
  <2> QED
    BY <2>1, <2>2, Zenon DEF SleepOne, Alarm
<1> QED
  BY <1>1, <1>2, <1>3, PTL DEF Spec
=============================================================================
