------------------------------ MODULE Mailbox -------------------------------
(***************************************************************************)
(* How one hart makes the others flush (kernel/src/local/mailbox.rs and     *)
(* all_hart_fn, register, handle of local/mod.rs), with USING_ASID = false. *)
(* The hart that changed a mapping leaves mail in the mailbox of every      *)
(* other hart, one lock at a time, and flushes itself; the others flush     *)
(* when they next look.  Of the hardware is kept, for every hart, which     *)
(* pages its TLB may hold an old translation of (it may have cached any     *)
(* page before the change), and whether its instruction cache may be old.   *)
(***************************************************************************)
EXTENDS Naturals, Sequences

CONSTANTS
  Harts,
  Changers,         \* harts on which mappings are changed
  Vas,              \* pages
  MAX_SPEC_SFENCE

VARIABLES
  stale,     \* the pages of which the TLB of a hart may be out of date
  icache,    \* harts whose instruction cache may be out of date
  mailbox, local_mail,
  pc, work   \* all_hart_fn and handle of every hart

vars == <<stale, icache, mailbox, local_mail, pc, work>>

Mails == {"FENCE_I", "ALL_NO_GLOBAL"} \cup Vas
Boxes == [event : SUBSET {"FENCE_I", "ALL_NO_GLOBAL", "SPEC"}, spec : Seq(Vas)]
NoMail == [event |-> {}, spec |-> <<>>]
Quiet == [todo |-> {}, mail |-> "FENCE_I"]

TypeOK ==
  /\ stale \in [Harts -> SUBSET Vas] /\ icache \subseteq Harts
  /\ mailbox \in [Harts -> Boxes] /\ local_mail \in [Harts -> Boxes]
  /\ pc \in [Harts -> {"out", "register", "flush", "swap"}]
  /\ work \in [Harts -> [todo : SUBSET Harts, mail : Mails]]

Init ==
  /\ stale = [h \in Harts |-> {}] /\ icache = {}
  /\ mailbox = [h \in Harts |-> NoMail] /\ local_mail = [h \in Harts |-> NoMail]
  /\ pc = [h \in Harts |-> "out"] /\ work = [h \in Harts |-> Quiet]

-----------------------------------------------------------------------------
set_flag(b, f) == [b EXCEPT !.event = @ \cup {f}]

(* Mutation: the list is given up and nothing is left in its place. *)
spec_sfence_lossy(b, v) ==
  IF "ALL_NO_GLOBAL" \in b.event THEN b
  ELSE IF Len(b.spec) > MAX_SPEC_SFENCE THEN [b EXCEPT !.spec = <<>>]
  ELSE [event |-> b.event \cup {"SPEC"}, spec |-> Append(b.spec, v)]

(* Mutation: the list is never given up. *)
spec_sfence_unbounded(b, v) ==
  IF "ALL_NO_GLOBAL" \in b.event \/ Len(b.spec) > MAX_SPEC_SFENCE + 1 THEN b
  ELSE [event |-> b.event \cup {"SPEC"}, spec |-> Append(b.spec, v)]

(* A page is listed unless everything is to be flushed; a list that has      *)
(* grown too long is given up for a flush of everything.                     *)
spec_sfence(b, v) ==
  IF "ALL_NO_GLOBAL" \in b.event THEN b
  ELSE IF Len(b.spec) > MAX_SPEC_SFENCE
         THEN [event |-> b.event \cup {"ALL_NO_GLOBAL"}, spec |-> <<>>]
  ELSE [event |-> b.event \cup {"SPEC"}, spec |-> Append(b.spec, v)]

Post(b, mail) == IF mail \in Vas THEN spec_sfence(b, mail) ELSE set_flag(b, mail)

Covers(b, v) ==
  \/ "ALL_NO_GLOBAL" \in b.event
  \/ "SPEC" \in b.event /\ \E i \in 1..Len(b.spec) : b.spec[i] = v

(* Mutation: one kind of mail is seen to, the other waits for its own turn. *)
HandleMail_either(h) ==
  LET b == local_mail[h]
      i == "FENCE_I" \in b.event
  IN  /\ icache' = IF i THEN icache \ {h} ELSE icache
      /\ stale' = [stale EXCEPT ![h] = {v \in @ : i \/ ~Covers(b, v)}]
      /\ local_mail' = [local_mail EXCEPT ![h] = NoMail]

(* HartMailBox::handle, on the hart's own mail. *)
HandleMail(h) ==
  LET b == local_mail[h]
  IN  /\ icache' = IF "FENCE_I" \in b.event THEN icache \ {h} ELSE icache
      /\ stale' = [stale EXCEPT ![h] = {v \in @ : ~Covers(b, v)}]
      /\ local_mail' = [local_mail EXCEPT ![h] = NoMail]

-----------------------------------------------------------------------------
(* The page table changes (or code is written): what is cached is stale, and *)
(* all_hart_fn starts.                                                       *)
Change(h, mail) ==
  /\ pc[h] = "out" /\ h \in Changers
  /\ stale' = [g \in Harts |-> stale[g] \cup
        (CASE mail \in Vas -> {mail} [] mail = "ALL_NO_GLOBAL" -> Vas [] OTHER -> {})]
  /\ icache' = IF mail = "FENCE_I" THEN Harts ELSE icache
  /\ work' = [work EXCEPT ![h] = [todo |-> Harts \ {h}, mail |-> mail]]
  /\ pc' = [pc EXCEPT ![h] = "register"]
  /\ UNCHANGED <<mailbox, local_mail>>

register(h, g) ==
  /\ pc[h] = "register" /\ g \in work[h].todo
  /\ mailbox' = [mailbox EXCEPT ![g] = Post(@, work[h].mail)]
  /\ work' = [work EXCEPT ![h].todo = @ \ {g}]
  /\ UNCHANGED <<stale, icache, local_mail, pc>>

RegisterOwn(h) ==
  /\ pc[h] = "register" /\ work[h].todo = {}
  /\ local_mail' = [local_mail EXCEPT ![h] = Post(@, work[h].mail)]
  /\ work' = [work EXCEPT ![h] = Quiet]
  /\ pc' = [pc EXCEPT ![h] = "flush"]
  /\ UNCHANGED <<stale, icache, mailbox>>

Flush(h) ==
  /\ pc[h] = "flush"
  /\ HandleMail(h)
  /\ pc' = [pc EXCEPT ![h] = "out"]
  /\ UNCHANGED <<mailbox, work>>

(* HartLocal::handle: an empty mailbox is seen without its lock. *)
handle(h) ==
  /\ pc[h] = "out" /\ mailbox[h].event # {}
  /\ pc' = [pc EXCEPT ![h] = "swap"]
  /\ UNCHANGED <<stale, icache, mailbox, local_mail, work>>

HandleSwap(h) ==
  /\ pc[h] = "swap"
  /\ mailbox' = [mailbox EXCEPT ![h] = local_mail[h]]
  /\ local_mail' = [local_mail EXCEPT ![h] = mailbox[h]]
  /\ pc' = [pc EXCEPT ![h] = "flush"]
  /\ UNCHANGED <<stale, icache, work>>

(* OutermostFuture::poll flushes when it takes a task up and lays it down. *)
SwitchFlush(h) ==
  /\ pc[h] = "out" /\ stale[h] # {}
  /\ stale' = [stale EXCEPT ![h] = {}]
  /\ UNCHANGED <<icache, mailbox, local_mail, pc, work>>

Next ==
  \E h \in Harts :
    \/ \E mail \in Mails : Change(h, mail)
    \/ (\E g \in Harts : register(h, g)) \/ RegisterOwn(h) \/ Flush(h)
    \/ handle(h) \/ HandleSwap(h) \/ SwitchFlush(h)

Spec == Init /\ [][Next]_vars

-----------------------------------------------------------------------------
Changing(h, mail) ==
  \E g \in Harts : pc[g] = "register" /\ mail = work[g].mail /\ h \in work[g].todo \cup {g}

(* A hart with a stale translation has the flush for it in its mail, or will *)
(* be sent it by the hart that is changing the page table; likewise for      *)
(* stale instructions.  No flush is lost between test, swap and upgrade.     *)
FlushPending ==
  \A h \in Harts :
    /\ \A v \in stale[h] :
         \/ Covers(mailbox[h], v) \/ Covers(local_mail[h], v)
         \/ Changing(h, v) \/ Changing(h, "ALL_NO_GLOBAL")
    /\ h \in icache =>
         "FENCE_I" \in mailbox[h].event \cup local_mail[h].event \/ Changing(h, "FENCE_I")

(* The mailbox of a hart that does not look for a while, or never does as    *)
(* those that kmain parks (entry_id >= 2), stays bounded.                    *)
MailBounded == \A h \in Harts : Len(mailbox[h].spec) <= MAX_SPEC_SFENCE + 1

(* What may be stale has its flush under way, and a mailbox nobody looks at  *)
(* stays bounded.                                                            *)
MailboxSafe == FlushPending /\ MailBounded
=============================================================================
