----------------------------- MODULE HartProofs -----------------------------
(***************************************************************************)
(* Proofs about three things the harts run: the hart's environment          *)
(* (HartEnv), the sequence lock (SeqMutex) and the mailboxes (Mailbox).     *)
(*                                                                         *)
(* For every number of harts, tasks and nested guards: a hart that can be   *)
(* interrupted is in one whole environment without AutoSie, and the bits of *)
(* sstatus are those the guards of the running task ask for.  The argument: *)
(* no environment is in use, or about to be, on two harts, so its counters  *)
(* change only on the hart whose bits they describe; and at every step of a *)
(* switch the bits are those of the old environment, of the new one, or     *)
(* closed.                                                                  *)
(***************************************************************************)
EXTENDS HartEnv, Integers, Sequences, TLAPS

(* Environments of tasks and of harts are different objects, and guards nest. *)
Constants == MaxNest \in Nat /\ Tasks \cap Harts = {}

(* An environment belongs to one hart, from the start of the switch to it   *)
(* to the end of the switch away from it.                                   *)
Owned ==
  /\ \A h \in Harts : now[h] \in Tasks \cup {h} /\ next[h] \in Tasks \cup {h}
  /\ \A h \in Harts : pc[h] \in {"run", "open"} => next[h] = now[h]
  /\ \A g, h \in Harts : g # h =>
       /\ now[g] # now[h] /\ now[g] # next[h]
       /\ next[g] # now[h] /\ next[g] # next[h]

(* The bits of the hart at every step of a switch and inside NativeAutoSie. *)
Bits(h) ==
  /\ native[h] # "none" =>
       /\ pc[h] = "run" /\ ~sie[h]
       /\ native[h] = "on" <=> env[now[h]].sie = 0
  /\ pc[h] \in {"run", "close"} /\ native[h] = "none" => (sie[h] <=> env[now[h]].sie = 0)
  /\ pc[h] \in Switching => ~sie[h]
  /\ pc[h] # "swap" => (sum[h] <=> env[now[h]].sum > 0)
  /\ pc[h] = "swap" => (sum[h] <=> env[next[h]].sum > 0)
  /\ pc[h] \in {"swap", "open"} => (open[h] <=> env[next[h]].sie = 0)

IInv == TypeOK /\ Owned /\ \A h \in Harts : Bits(h)

-----------------------------------------------------------------------------
(* The start: every hart runs its own environment, which holds no guard. *)
LEMMA InitInv == Constants /\ Init => IInv
<1> SUFFICES ASSUME Constants, Init PROVE IInv
  BY Zenon
<1>1. TypeOK
  BY DEF Constants, Init, TypeOK, Envs
<1>2. Owned
  <2>1. \A h \in Harts : now[h] = h /\ next[h] = h
    BY Zenon DEF Init
  <2> QED
    BY <2>1 DEF Owned
<1>3. ASSUME NEW h \in Harts PROVE Bits(h)
  <2>1. /\ pc[h] = "run" /\ native[h] = "none" /\ now[h] = h /\ sie[h] = TRUE /\ sum[h] = FALSE
    BY Zenon DEF Init
  <2>2. env[h].sie = 0 /\ env[h].sum = 0
    BY Zenon DEF Init, Envs
  <2> QED
    BY <2>1, <2>2 DEF Bits, Switching
<1> QED
  BY <1>1, <1>2, <1>3, Zenon DEF IInv

(* The other harts keep their bits when their environments keep their counters. *)
LEMMA OthersKeep ==
  ASSUME TypeOK, Owned, NEW h \in Harts, NEW g \in Harts, g # h, Bits(g),
         \A e \in Envs : e # now[h] => env'[e] = env[e],
         pc'[g] = pc[g], now'[g] = now[g], next'[g] = next[g], open'[g] = open[g],
         native'[g] = native[g], sie'[g] = sie[g], sum'[g] = sum[g]
  PROVE  Bits(g)'
<1>1. now[g] \in Envs /\ next[g] \in Envs /\ now[g] # now[h] /\ next[g] # now[h]
  BY DEF TypeOK, Owned
<1>2. env'[now[g]] = env[now[g]] /\ env'[next[g]] = env[next[g]]
  BY <1>1, Zenon
<1> QED
  BY <1>2, Zenon DEF Bits, Switching

(* A bit that is set to a truth value stays one. *)
LEMMA SetType ==
  ASSUME NEW f, f \in [Harts -> BOOLEAN], NEW h \in Harts, NEW v \in BOOLEAN
  PROVE  [f EXCEPT ![h] = v] \in [Harts -> BOOLEAN]
  BY Zenon

(* So does a counter of an environment. *)
LEMMA CountType ==
  ASSUME NEW S, NEW f \in [Envs -> [sie : S, sum : S]], NEW e \in Envs, NEW n \in S
  PROVE  /\ [f EXCEPT ![e].sie = n] \in [Envs -> [sie : S, sum : S]]
         /\ [f EXCEPT ![e].sum = n] \in [Envs -> [sie : S, sum : S]]
  BY Zenon

(* Every step keeps the types. *)
LEMMA TypeStep ==
  ASSUME Constants, TypeOK, NEW h \in Harts,
         \/ \E e \in Envs : SwitchBegin(h, e)
         \/ SwitchClose(h) \/ env_change(h) \/ SwitchSwap(h) \/ SwitchOpen(h)
         \/ sie_inc(h) \/ sie_dec(h) \/ sum_inc(h) \/ sum_dec(h)
         \/ NativeAutoSie(h) \/ NativeAutoSieDrop(h)
  PROVE  TypeOK'
<1>1. CASE \E e \in Envs : SwitchBegin(h, e)
  BY <1>1 DEF SwitchBegin, Set, TypeOK
<1>2. CASE SwitchClose(h)
  BY <1>2, Zenon DEF SwitchClose, Set, TypeOK, Switching
<1>3. CASE env_change(h)
  <2>1. /\ \E v \in BOOLEAN : sum' = [sum EXCEPT ![h] = v]
        /\ \E v \in BOOLEAN : open' = [open EXCEPT ![h] = v]
    <3>1. sum[h] \in BOOLEAN /\ (env[next[h]].sum > 0) \in BOOLEAN
      BY DEF TypeOK
    <3> QED
      BY <1>3, <3>1, Zenon DEF env_change, Set
  <2>2. sum' \in [Harts -> BOOLEAN] /\ open' \in [Harts -> BOOLEAN]
    BY <2>1, SetType, Zenon DEF TypeOK
  <2> QED
    BY <1>3, <2>2, Zenon DEF env_change, Set, TypeOK, Switching
<1>4. CASE SwitchSwap(h)
  BY <1>4, Zenon DEF SwitchSwap, Set, TypeOK, Switching
<1>5. CASE SwitchOpen(h)
  <2>1. sie' = [sie EXCEPT ![h] = sie[h] \/ open[h]] /\ open' = [open EXCEPT ![h] = FALSE]
    BY <1>5, Zenon DEF SwitchOpen, Set
  <2>2. sie' \in [Harts -> BOOLEAN] /\ open' \in [Harts -> BOOLEAN]
    BY <2>1, SetType, Zenon DEF TypeOK
  <2> QED
    BY <1>5, <2>2, Zenon DEF SwitchOpen, Set, TypeOK, Switching
<1>6. CASE sie_inc(h) \/ sie_dec(h) \/ sum_inc(h) \/ sum_dec(h)
  <2>1. now[h] \in Envs /\ env[now[h]] \in [sie : 0..MaxNest, sum : 0..MaxNest]
    BY Zenon DEF TypeOK
  <2>2. \/ \E n \in 0..MaxNest : env' = [env EXCEPT ![now[h]].sie = n]
        \/ \E n \in 0..MaxNest : env' = [env EXCEPT ![now[h]].sum = n]
    <3>1. CASE sie_inc(h)
      <4>1. env[now[h]].sie + 1 \in 0..MaxNest
        BY <2>1, <3>1 DEF sie_inc, Constants
      <4>2. env' = [env EXCEPT ![now[h]].sie = env[now[h]].sie + 1]
        BY <2>1, <3>1, Zenon DEF sie_inc, CountSie, TypeOK
      <4> QED
        BY <4>1, <4>2, Zenon
    <3>2. CASE sie_dec(h)
      <4>1. env[now[h]].sie - 1 \in 0..MaxNest
        BY <2>1, <3>2 DEF sie_dec, Constants
      <4>2. env' = [env EXCEPT ![now[h]].sie = env[now[h]].sie - 1]
        BY <2>1, <3>2, Zenon DEF sie_dec, CountSie, TypeOK
      <4> QED
        BY <4>1, <4>2, Zenon
    <3>3. CASE sum_inc(h)
      <4>1. env[now[h]].sum + 1 \in 0..MaxNest
        BY <2>1, <3>3 DEF sum_inc, Constants
      <4>2. env' = [env EXCEPT ![now[h]].sum = env[now[h]].sum + 1]
        BY <2>1, <3>3, Zenon DEF sum_inc, CountSum, TypeOK
      <4> QED
        BY <4>1, <4>2, Zenon
    <3>4. CASE sum_dec(h)
      <4>1. env[now[h]].sum - 1 \in 0..MaxNest
        BY <2>1, <3>4 DEF sum_dec, Constants
      <4>2. env' = [env EXCEPT ![now[h]].sum = env[now[h]].sum - 1]
        BY <2>1, <3>4, Zenon DEF sum_dec, CountSum, TypeOK
      <4> QED
        BY <4>1, <4>2, Zenon
    <3> QED
      BY <1>6, <3>1, <3>2, <3>3, <3>4, Zenon
  <2>3. env' \in [Envs -> [sie : 0..MaxNest, sum : 0..MaxNest]]
    <3>1. env \in [Envs -> [sie : 0..MaxNest, sum : 0..MaxNest]]
      BY Zenon DEF TypeOK
    <3>2. CASE \E n \in 0..MaxNest : env' = [env EXCEPT ![now[h]].sie = n]
      <4>1. PICK n \in 0..MaxNest : env' = [env EXCEPT ![now[h]].sie = n]
        BY <3>2, Zenon
      <4> QED
        BY <2>1, <3>1, <4>1, CountType, Zenon
    <3>3. CASE \E n \in 0..MaxNest : env' = [env EXCEPT ![now[h]].sum = n]
      <4>1. PICK n \in 0..MaxNest : env' = [env EXCEPT ![now[h]].sum = n]
        BY <3>3, Zenon
      <4> QED
        BY <2>1, <3>1, <4>1, CountType, Zenon
    <3> QED
      BY <2>2, <3>2, <3>3, Zenon
  <2>4. \/ \E v \in BOOLEAN : sie' = [sie EXCEPT ![h] = v] /\ sum' = sum
        \/ \E v \in BOOLEAN : sum' = [sum EXCEPT ![h] = v] /\ sie' = sie
    <3>1. CASE sie_inc(h)
      BY <3>1, Zenon DEF sie_inc, Set
    <3>2. CASE sie_dec(h)
      BY <3>2, Zenon DEF sie_dec, Set
    <3>3. CASE sum_inc(h)
      BY <3>3, Zenon DEF sum_inc, Set
    <3>4. CASE sum_dec(h)
      BY <3>4, Zenon DEF sum_dec, Set
    <3> QED
      BY <1>6, <3>1, <3>2, <3>3, <3>4, Zenon
  <2>5. sie' \in [Harts -> BOOLEAN] /\ sum' \in [Harts -> BOOLEAN]
    BY <2>4, SetType, Zenon DEF TypeOK
  <2>6. UNCHANGED <<pc, now, next, open, native>>
    BY <1>6, Zenon DEF sie_inc, sie_dec, sum_inc, sum_dec
  <2> QED
    BY <2>3, <2>5, <2>6, Zenon DEF TypeOK
<1>7. CASE NativeAutoSie(h) \/ NativeAutoSieDrop(h)
  BY <1>7, Zenon DEF NativeAutoSie, NativeAutoSieDrop, Set, TypeOK
<1> QED
  BY <1>1, <1>2, <1>3, <1>4, <1>5, <1>6, <1>7, Zenon

(* No environment gets a second hart: a switch takes a free task or goes    *)
(* back to the hart's own.                                                  *)
LEMMA OwnedStep ==
  ASSUME Constants, TypeOK, Owned, NEW h \in Harts,
         \/ \E e \in Envs : SwitchBegin(h, e)
         \/ SwitchClose(h) \/ env_change(h) \/ SwitchSwap(h) \/ SwitchOpen(h)
         \/ sie_inc(h) \/ sie_dec(h) \/ sum_inc(h) \/ sum_dec(h)
         \/ NativeAutoSie(h) \/ NativeAutoSieDrop(h)
  PROVE  Owned'
<1>0. now \in [Harts -> Envs] /\ next \in [Harts -> Envs]
      /\ pc \in [Harts -> {"run", "close"} \cup Switching]
  BY Zenon DEF TypeOK
<1>1. CASE \E e \in Envs : SwitchBegin(h, e)
  <2>1. PICK e \in Envs : SwitchBegin(h, e)
    BY <1>1, Zenon
  <2>2. /\ now' = now /\ next' = [next EXCEPT ![h] = e] /\ pc' = [pc EXCEPT ![h] = "close"]
        /\ \/ e \in Tasks /\ \A g \in Harts : now[g] # e /\ next[g] # e
           \/ e = h
    BY <2>1, Zenon DEF SwitchBegin, Set
  <2>3. \A g \in Harts : g # h => now[g] # e /\ next[g] # e
    BY <2>2 DEF Owned, Constants
  <2> QED
    BY <1>0, <2>2, <2>3 DEF Owned
<1>2. CASE SwitchSwap(h)
  <2>1. now' = [now EXCEPT ![h] = next[h]] /\ next' = next /\ pc' = [pc EXCEPT ![h] = "open"]
    BY <1>2, Zenon DEF SwitchSwap, Set
  <2> QED
    BY <1>0, <2>1 DEF Owned
<1>3. CASE SwitchClose(h) \/ env_change(h) \/ SwitchOpen(h)
  <2>1. /\ now' = now /\ next' = next
        /\ \/ pc' = [pc EXCEPT ![h] = "env"]
           \/ pc' = [pc EXCEPT ![h] = "swap"]
           \/ pc[h] = "open" /\ pc' = [pc EXCEPT ![h] = "run"]
    BY <1>3, Zenon DEF SwitchClose, env_change, SwitchOpen, Set
  <2> QED
    BY <1>0, <2>1 DEF Owned
<1>4. CASE \/ sie_inc(h) \/ sie_dec(h) \/ sum_inc(h) \/ sum_dec(h)
           \/ NativeAutoSie(h) \/ NativeAutoSieDrop(h)
  <2>1. now' = now /\ next' = next /\ pc' = pc
    BY <1>4, Zenon DEF sie_inc, sie_dec, sum_inc, sum_dec, NativeAutoSie, NativeAutoSieDrop
  <2> QED
    BY <2>1, Zenon DEF Owned
<1> QED
  BY <1>1, <1>2, <1>3, <1>4, Zenon

(* What a step of h leaves alone on the other harts. *)
LEMMA OthersStep ==
  ASSUME TypeOK, NEW h \in Harts, NEW g \in Harts, g # h,
         \/ \E e \in Envs : SwitchBegin(h, e)
         \/ SwitchClose(h) \/ env_change(h) \/ SwitchSwap(h) \/ SwitchOpen(h)
         \/ sie_inc(h) \/ sie_dec(h) \/ sum_inc(h) \/ sum_dec(h)
         \/ NativeAutoSie(h) \/ NativeAutoSieDrop(h)
  PROVE  /\ \A e \in Envs : e # now[h] => env'[e] = env[e]
         /\ pc'[g] = pc[g] /\ now'[g] = now[g] /\ next'[g] = next[g] /\ open'[g] = open[g]
         /\ native'[g] = native[g] /\ sie'[g] = sie[g] /\ sum'[g] = sum[g]
<1>1. CASE \E e \in Envs : SwitchBegin(h, e)
  BY <1>1, Zenon DEF SwitchBegin, Set, TypeOK
<1>2. CASE SwitchClose(h) \/ env_change(h)
  BY <1>2 DEF SwitchClose, env_change, Set, TypeOK
<1>3. CASE SwitchSwap(h) \/ SwitchOpen(h)
  BY <1>3, Zenon DEF SwitchSwap, SwitchOpen, Set, TypeOK
<1>4. CASE sie_inc(h) \/ sie_dec(h)
  BY <1>4, Zenon DEF sie_inc, sie_dec, CountSie, Set, TypeOK
<1>5. CASE sum_inc(h) \/ sum_dec(h)
  BY <1>5, Zenon DEF sum_inc, sum_dec, CountSum, Set, TypeOK
<1>6. CASE NativeAutoSie(h) \/ NativeAutoSieDrop(h)
  BY <1>6, Zenon DEF NativeAutoSie, NativeAutoSieDrop, Set, TypeOK
<1> QED
  BY <1>1, <1>2, <1>3, <1>4, <1>5, <1>6, Zenon

(* The steps of a switch keep the bits of their hart as they should be. *)
LEMMA SwitchBits ==
  ASSUME TypeOK, Owned, NEW h \in Harts, Bits(h),
         \/ \E e \in Envs : SwitchBegin(h, e)
         \/ SwitchClose(h) \/ env_change(h) \/ SwitchSwap(h) \/ SwitchOpen(h)
  PROVE  Bits(h)'
<1>0. /\ sie \in [Harts -> BOOLEAN] /\ sum \in [Harts -> BOOLEAN] /\ open \in [Harts -> BOOLEAN]
      /\ pc \in [Harts -> {"run", "close"} \cup Switching]
      /\ now \in [Harts -> Envs] /\ next \in [Harts -> Envs]
  BY Zenon DEF TypeOK
<1>1. CASE \E e \in Envs : SwitchBegin(h, e)
  <2>1. /\ pc[h] = "run" /\ native[h] = "none" /\ pc'[h] = "close"
        /\ native' = native /\ env' = env /\ now' = now /\ sie' = sie /\ sum' = sum
    BY <1>0, <1>1, Zenon DEF SwitchBegin, Set, Running
  <2> QED
    BY <2>1, Zenon DEF Bits, Switching
<1>2. CASE SwitchClose(h)
  <2>1. /\ pc[h] = "close" /\ pc'[h] = "env" /\ (sie'[h] <=> sie[h] /\ env[now[h]].sie # 0)
        /\ native' = native /\ env' = env /\ now' = now /\ sum' = sum
    BY <1>0, <1>2, Zenon DEF SwitchClose, Set
  <2> QED
    BY <2>1, Zenon DEF Bits, Switching
<1>3. CASE env_change(h)
  <2>1. /\ pc[h] = "env" /\ pc'[h] = "swap" /\ native' = native /\ env' = env
        /\ now' = now /\ next' = next /\ sie' = sie
    BY <1>0, <1>3, Zenon DEF env_change, Set
  <2>2. open'[h] <=> env[next[h]].sie = 0
    BY <1>0, <1>3, Zenon DEF env_change, Set
  <2>3. sum[h] <=> env[now[h]].sum > 0
    BY <2>1, Zenon DEF Bits
  <2>4. sum'[h] <=> env[next[h]].sum > 0
    BY <1>0, <1>3, <2>3, Zenon DEF env_change, Set
  <2> QED
    BY <2>1, <2>2, <2>4, Zenon DEF Bits, Switching
<1>4. CASE SwitchSwap(h)
  <2>1. /\ pc[h] = "swap" /\ pc'[h] = "open" /\ now'[h] = next[h] /\ next' = next
        /\ native' = native /\ env' = env /\ sie' = sie /\ sum' = sum /\ open' = open
    BY <1>0, <1>4, Zenon DEF SwitchSwap, Set
  <2> QED
    BY <2>1, Zenon DEF Bits, Switching
<1>5. CASE SwitchOpen(h)
  <2>1. /\ pc[h] = "open" /\ pc'[h] = "run" /\ now' = now /\ next' = next
        /\ native' = native /\ env' = env /\ sum' = sum /\ (sie'[h] <=> sie[h] \/ open[h])
    BY <1>0, <1>5, Zenon DEF SwitchOpen, Set
  <2>2. next[h] = now[h]
    BY <2>1, Zenon DEF Owned
  <2> QED
    BY <2>1, <2>2, Zenon DEF Bits, Switching
<1> QED
  BY <1>1, <1>2, <1>3, <1>4, <1>5, Zenon

(* The guards keep the bits of their hart as they should be. *)
LEMMA GuardBits ==
  ASSUME TypeOK, Constants, NEW h \in Harts, Bits(h),
         \/ sie_inc(h) \/ sie_dec(h) \/ sum_inc(h) \/ sum_dec(h)
         \/ NativeAutoSie(h) \/ NativeAutoSieDrop(h)
  PROVE  Bits(h)'
<1>0. /\ sie \in [Harts -> BOOLEAN] /\ sum \in [Harts -> BOOLEAN]
      /\ native \in [Harts -> {"none", "on", "off"}]
      /\ now[h] \in Envs /\ env[now[h]].sie \in Nat /\ env[now[h]].sum \in Nat
  BY DEF TypeOK, Constants
<1>1. CASE sie_inc(h)
  <2>1. /\ pc[h] = "run" /\ native[h] = "none" /\ pc' = pc /\ native' = native /\ now' = now
        /\ sum' = sum /\ (sie'[h] <=> sie[h] /\ env[now[h]].sie # 0)
    BY <1>0, <1>1, Zenon DEF sie_inc, Set, Running
  <2>2. env'[now[h]].sie = env[now[h]].sie + 1 /\ env'[now[h]].sum = env[now[h]].sum
    BY <1>0, <1>1, Zenon DEF sie_inc, CountSie, TypeOK
  <2> QED
    BY <1>0, <2>1, <2>2 DEF Bits, Switching
<1>2. CASE sie_dec(h)
  <2>1. /\ pc[h] = "run" /\ native[h] = "none" /\ pc' = pc /\ native' = native /\ now' = now
        /\ sum' = sum /\ (sie'[h] <=> sie[h] \/ env[now[h]].sie = 1)
    BY <1>0, <1>2, Zenon DEF sie_dec, Set, Running
  <2>2. env'[now[h]].sie = env[now[h]].sie - 1 /\ env'[now[h]].sum = env[now[h]].sum
    BY <1>0, <1>2, Zenon DEF sie_dec, CountSie, TypeOK
  <2> QED
    BY <1>0, <2>1, <2>2, <1>2 DEF Bits, Switching, sie_dec
<1>3. CASE sum_inc(h)
  <2>1. /\ pc[h] = "run" /\ native[h] = "none" /\ pc' = pc /\ native' = native /\ now' = now
        /\ sie' = sie /\ (sum'[h] <=> sum[h] \/ env[now[h]].sum = 0)
    BY <1>0, <1>3, Zenon DEF sum_inc, Set, Running
  <2>2. env'[now[h]].sum = env[now[h]].sum + 1 /\ env'[now[h]].sie = env[now[h]].sie
    BY <1>0, <1>3, Zenon DEF sum_inc, CountSum, TypeOK
  <2> QED
    BY <1>0, <2>1, <2>2 DEF Bits, Switching
<1>4. CASE sum_dec(h)
  <2>1. /\ pc[h] = "run" /\ native[h] = "none" /\ pc' = pc /\ native' = native /\ now' = now
        /\ sie' = sie /\ (sum'[h] <=> sum[h] /\ env[now[h]].sum # 1)
    BY <1>0, <1>4, Zenon DEF sum_dec, Set, Running
  <2>2. env'[now[h]].sum = env[now[h]].sum - 1 /\ env'[now[h]].sie = env[now[h]].sie
    BY <1>0, <1>4, Zenon DEF sum_dec, CountSum, TypeOK
  <2> QED
    BY <1>0, <2>1, <2>2, <1>4 DEF Bits, Switching, sum_dec
<1>5. CASE NativeAutoSie(h)
  <2>1. /\ pc[h] = "run" /\ native[h] = "none" /\ pc' = pc /\ now' = now /\ env' = env
        /\ sum' = sum /\ sie'[h] = FALSE /\ native'[h] = IF sie[h] THEN "on" ELSE "off"
    BY <1>0, <1>5, Zenon DEF NativeAutoSie, Set, Running
  <2> QED
    BY <2>1, Zenon DEF Bits, Switching
<1>6. CASE NativeAutoSieDrop(h)
  <2>1. /\ native[h] # "none" /\ native'[h] = "none" /\ pc' = pc /\ now' = now /\ env' = env
        /\ sum' = sum /\ (sie'[h] <=> sie[h] \/ native[h] = "on")
    BY <1>0, <1>6, Zenon DEF NativeAutoSieDrop, Set
  <2> QED
    BY <2>1, Zenon DEF Bits, Switching
<1> QED
  BY <1>1, <1>2, <1>3, <1>4, <1>5, <1>6, Zenon

-----------------------------------------------------------------------------
(* Every step keeps the invariant. *)
LEMMA StepInv == Constants /\ IInv /\ [Next]_vars => IInv'
<1> SUFFICES ASSUME Constants, IInv, [Next]_vars PROVE IInv'
  BY Zenon
<1>0. TypeOK /\ Owned /\ \A g \in Harts : Bits(g)
  BY Zenon DEF IInv
<1>1. CASE UNCHANGED vars
  BY <1>1 DEF IInv, TypeOK, Owned, Bits, vars
<1>2. ASSUME NEW h \in Harts,
             \/ \E e \in Envs : SwitchBegin(h, e)
             \/ SwitchClose(h) \/ env_change(h) \/ SwitchSwap(h) \/ SwitchOpen(h)
             \/ sie_inc(h) \/ sie_dec(h) \/ sum_inc(h) \/ sum_dec(h)
             \/ NativeAutoSie(h) \/ NativeAutoSieDrop(h)
      PROVE  IInv'
  <2>1. TypeOK' /\ Owned'
    BY <1>0, <1>2, TypeStep, OwnedStep, Zenon
  <2>2. \A g \in Harts : g # h => Bits(g)'
    BY <1>0, <1>2, OthersStep, OthersKeep
  <2>3. Bits(h)'
    BY <1>0, <1>2, SwitchBits, GuardBits, Zenon
  <2> QED
    BY <2>1, <2>2, <2>3, Zenon DEF IInv
<1> QED
  BY <1>1, <1>2, Zenon DEF Next

(* A hart that can be interrupted is not between two environments, and the  *)
(* one it runs holds no AutoSie.                                            *)
THEOREM InterruptsAreSafe == ASSUME Constants PROVE Spec => []InterruptsSafe
<1>1. Init => IInv
  BY InitInv, Zenon
<1>2. IInv /\ [Next]_vars => IInv'
  BY StepInv, Zenon
<1>3. IInv => InterruptsSafe
  BY Zenon DEF IInv, TypeOK, Bits, InterruptsSafe, Switching
<1> QED
  BY <1>1, <1>2, <1>3, PTL DEF Spec

(* Running code has the interrupt and user-access bits its guards ask for,  *)
(* on whichever hart polls it after an await.                               *)
THEOREM BitsAreTheTasks == ASSUME Constants PROVE Spec => []BitsFollowTask
<1>1. Init => IInv
  BY InitInv, Zenon
<1>2. IInv /\ [Next]_vars => IInv'
  BY StepInv, Zenon
<1>3. IInv => BitsFollowTask
  <2> SUFFICES ASSUME IInv, NEW h \in Harts, Running(h)
               PROVE  sie[h] = (env[now[h]].sie = 0) /\ sum[h] = (env[now[h]].sum > 0)
    BY Zenon DEF BitsFollowTask
  <2>1. (sie[h] <=> env[now[h]].sie = 0) /\ (sum[h] <=> env[now[h]].sum > 0)
    BY Zenon DEF IInv, Bits, Running
  <2>2. sie[h] \in BOOLEAN /\ sum[h] \in BOOLEAN
    BY Zenon DEF IInv, TypeOK
  <2> QED
    BY <2>1, <2>2
<1> QED
  BY <1>1, <1>2, <1>3, PTL DEF Spec

(* Both together, for any harts, tasks and interleaving of polls, awaits,    *)
(* guards and migrations.                                                   *)
THEOREM HartEnvIsSafe == ASSUME Constants PROVE Spec => []HartEnvSafe
  BY InterruptsAreSafe, BitsAreTheTasks, PTL DEF HartEnvSafe

-----------------------------------------------------------------------------
(***************************************************************************)
(* The sequence lock.  For every number of harts and of writes: what a      *)
(* reader returns is one write's data, and one writer at a time is inside.  *)
(* The argument: a word differs from the even number seq only while a       *)
(* writer is inside, numbers only grow, so a reader whose number is still   *)
(* seq at the end has copied nothing but words equal to it.                 *)
(***************************************************************************)
CONSTANT MaxSeq

VARIABLES seq, d1, d2, my, v1, v2, since, try, at  \* the variables of SeqMutex; at is its pc

SL == INSTANCE SeqMutex WITH pc <- at

Writing == {"write1", "write2", "unlock"}

(* One writer, and seq is odd exactly while it is inside. *)
Writer ==
  /\ \A h \in Harts : at[h] \in Writing => ~SL!Even(seq)
  /\ ~SL!Even(seq) => \E h \in Harts : at[h] \in Writing
  /\ \A h, g \in Harts : at[h] \in Writing /\ at[g] \in Writing => h = g

(* What the two words hold, by how far the writer is. *)
Words ==
  /\ SL!Even(seq) => d1 = seq /\ d2 = seq
  /\ \A h \in Harts :
       /\ at[h] = "write1" => d1 = seq - 1 /\ d2 = seq - 1
       /\ at[h] = "write2" => d1 = seq + 1 /\ d2 = seq - 1
       /\ at[h] = "unlock" => d1 = seq + 1 /\ d2 = seq + 1

(* What a hart knows of seq and of the words it has copied. *)
Reader(h) ==
  /\ my[h] <= seq /\ since[h] <= my[h]
  /\ at[h] \in {"copy1", "copy2", "verify", "wcas"} => SL!Even(my[h])
  /\ at[h] \in {"copy2", "verify"} /\ my[h] = seq => v1[h] = seq
  /\ at[h] = "verify" /\ my[h] = seq => v2[h] = seq
  /\ at[h] = "returned" => v1[h] = v2[h] /\ v1[h] >= since[h]

SeqInv == SL!TypeOK /\ Writer /\ Words /\ \A h \in Harts : Reader(h)

-----------------------------------------------------------------------------
(* Parity alternates: the compare_exchange and the unlock both add one. *)
LEMMA EvenSucc == \A n \in Nat : SL!Even(n + 1) <=> ~SL!Even(n)
  BY DEF SL!Even

(* The start of the lock satisfies the invariant. *)
LEMMA SeqInit == SL!Init => SeqInv
<1>1. SL!Even(0)
  BY DEF SL!Even
<1> QED
  BY <1>1 DEF SL!Init, SeqInv, SL!TypeOK, Writer, Words, Reader, Writing

(* The end of an operation keeps the types of what belongs to the hart. *)
LEMMA ReturnType ==
  ASSUME SL!TypeOK, NEW h \in Harts, SL!Return(h)
  PROVE  /\ my' \in [Harts -> Nat] /\ v1' \in [Harts -> Nat] /\ v2' \in [Harts -> Nat]
         /\ since' \in [Harts -> Nat] /\ try' \in [Harts -> BOOLEAN]
         /\ at' \in [Harts -> {"idle", "rwait", "copy1", "copy2", "verify", "returned",
                               "wwait", "wcas", "write1", "write2", "unlock"}]
  BY Zenon DEF SL!Return, SL!Goto, SL!TypeOK

(* Every step keeps the types. *)
LEMMA SeqTypes == SL!TypeOK /\ [SL!Next]_(SL!vars) => SL!TypeOK'
<1> SUFFICES ASSUME SL!TypeOK, [SL!Next]_(SL!vars) PROVE SL!TypeOK'
  BY Zenon
<1>1. CASE UNCHANGED SL!vars
  BY <1>1, Zenon DEF SL!TypeOK, SL!vars
<1>2. ASSUME NEW h \in Harts, SL!Step(h) PROVE SL!TypeOK'
  <2>1. SL!Committed \in Nat
    BY DEF SL!Committed, SL!Even, SL!TypeOK
  <2>2. CASE SL!StartRead(h)
    BY <2>1, <2>2, Zenon DEF SL!StartRead, SL!Goto, SL!TypeOK
  <2>3. CASE SL!wait_unlock(h)
    BY <2>3 DEF SL!wait_unlock, SL!Goto, SL!TypeOK
  <2>4. CASE SL!CopyFirst(h) \/ SL!CopySecond(h)
    BY <2>4 DEF SL!CopyFirst, SL!CopySecond, SL!Goto, SL!TypeOK
  <2>5. CASE SL!Verify(h)
    <3>1. CASE SL!Goto(h, "returned") /\ UNCHANGED <<my, v1, v2, since, try>>
      BY <2>5, <3>1, Zenon DEF SL!Verify, SL!Goto, SL!TypeOK
    <3>2. CASE SL!Return(h)
      BY <2>5, <3>2, ReturnType, Zenon DEF SL!Verify, SL!TypeOK
    <3>3. CASE my' = [my EXCEPT ![h] = seq] /\ SL!Goto(h, "rwait") /\ UNCHANGED <<v1, v2, since, try>>
      BY <2>5, <3>3, Zenon DEF SL!Verify, SL!Goto, SL!TypeOK
    <3> QED
      BY <2>5, <3>1, <3>2, <3>3, Zenon DEF SL!Verify
  <2>6. CASE SL!Finish(h)
    BY <2>6, ReturnType, Zenon DEF SL!Finish, SL!TypeOK
  <2>7. CASE SL!StartWrite(h)
    BY <2>7, Zenon DEF SL!StartWrite, SL!Goto, SL!TypeOK
  <2>8. CASE SL!WriteCas(h)
    <3>1. CASE seq' = seq + 1 /\ SL!Goto(h, "write1") /\ UNCHANGED <<my, v1, v2, since, try>>
      BY <2>8, <3>1 DEF SL!WriteCas, SL!Goto, SL!TypeOK
    <3>2. CASE SL!Return(h) /\ UNCHANGED seq
      BY <2>8, <3>2, ReturnType, Zenon DEF SL!WriteCas, SL!TypeOK
    <3>3. CASE my' = [my EXCEPT ![h] = seq] /\ SL!Goto(h, "wwait") /\ UNCHANGED <<seq, v1, v2, since, try>>
      BY <2>8, <3>3, Zenon DEF SL!WriteCas, SL!Goto, SL!TypeOK
    <3> QED
      BY <2>8, <3>1, <3>2, <3>3, Zenon DEF SL!WriteCas
  <2>9. CASE SL!WriteFirst(h) \/ SL!WriteSecond(h)
    BY <2>9 DEF SL!WriteFirst, SL!WriteSecond, SL!Goto, SL!TypeOK
  <2>10. CASE SL!Unlock(h)
    BY <2>10, ReturnType DEF SL!Unlock, SL!TypeOK
  <2> QED
    BY <1>2, <2>2, <2>3, <2>4, <2>5, <2>6, <2>7, <2>8, <2>9, <2>10, Zenon DEF SL!Step
<1> QED
  BY <1>1, <1>2, Zenon DEF SL!Next

(* A step in which seq, the words and the writer stay as they are. *)
LEMMA WriterUnchanged ==
  ASSUME Writer, Words, SL!TypeOK, SL!TypeOK', NEW h \in Harts,
         UNCHANGED <<seq, d1, d2>>, at[h] \notin Writing, at'[h] \notin Writing,
         \A g \in Harts : g # h => at'[g] = at[g]
  PROVE  Writer' /\ Words'
<1>1. \A g \in Harts : at[g] \in Writing \/ at'[g] \in Writing => at'[g] = at[g]
  BY Zenon
<1>2. SL!Even(seq)' <=> SL!Even(seq)
  BY Zenon DEF SL!Even
<1>3. Writer'
  BY <1>1, <1>2, Zenon DEF Writer
<1>4. Words'
  BY <1>1, <1>2, Zenon DEF Words, Writing
<1> QED
  BY <1>3, <1>4, Zenon

(* What the other harts know stays true when seq stays or grows. *)
LEMMA ReadersKeep ==
  ASSUME SL!TypeOK, SL!TypeOK', NEW g \in Harts, Reader(g), seq' >= seq,
         my'[g] = my[g], since'[g] = since[g], v1'[g] = v1[g], v2'[g] = v2[g],
         at'[g] = at[g]
  PROVE  Reader(g)'
<1>1. SL!Even(my[g])' <=> SL!Even(my[g])
  BY Zenon DEF SL!Even
<1>2. my[g] \in Nat /\ seq \in Nat /\ seq' \in Nat
  BY Zenon DEF SL!TypeOK
<1> QED
  BY <1>1, <1>2 DEF Reader

(* A step that leaves seq, the words and the writer alone only has to keep  *)
(* what the hart itself knows.                                              *)
LEMMA ReadersStep ==
  ASSUME SeqInv, SL!TypeOK', NEW h \in Harts,
         SL!StartRead(h) \/ SL!wait_unlock(h) \/ SL!CopyFirst(h) \/ SL!CopySecond(h)
           \/ SL!Verify(h) \/ SL!Finish(h) \/ SL!StartWrite(h)
  PROVE  SeqInv'
<1>0. /\ SL!TypeOK /\ Writer /\ Words /\ Reader(h)
      /\ seq \in Nat /\ my[h] \in Nat /\ since[h] \in Nat /\ seq' = seq /\ d1' = d1 /\ d2' = d2
  BY Zenon DEF SeqInv, SL!TypeOK, SL!StartRead, SL!wait_unlock, SL!CopyFirst, SL!CopySecond, SL!Verify, SL!Finish, SL!StartWrite
<1>1. /\ at[h] \notin Writing /\ at'[h] \notin Writing
      /\ \A g \in Harts : g # h => at'[g] = at[g]
  BY <1>0 DEF SL!TypeOK, SL!StartRead, SL!wait_unlock, SL!CopyFirst, SL!CopySecond, SL!Verify, SL!Finish, SL!StartWrite,
              SL!Return, SL!Goto, Writing
<1>2. Writer' /\ Words'
  BY <1>0, <1>1, WriterUnchanged, Zenon
<1>3. ASSUME NEW g \in Harts, g # h PROVE Reader(g)'
  <2>1. my'[g] = my[g] /\ since'[g] = since[g] /\ v1'[g] = v1[g] /\ v2'[g] = v2[g]
    BY <1>0, <1>3, Zenon DEF SL!TypeOK, SL!StartRead, SL!wait_unlock, SL!CopyFirst, SL!CopySecond, SL!Verify, SL!Finish,
                      SL!StartWrite, SL!Return
  <2> QED
    BY <1>0, <1>1, <1>3, <2>1, ReadersKeep DEF SeqInv
<1>4. Reader(h)'
  <2>1. SL!Even(seq) => d1 = seq /\ d2 = seq
    BY <1>0, Zenon DEF Words
  <2>2. CASE SL!StartRead(h)
    <3>1. SL!Committed \in Nat /\ SL!Committed <= seq
      <4>1. ~SL!Even(seq) => seq # 0
        BY DEF SL!Even
      <4> QED
        BY <1>0, <4>1 DEF SL!Committed
    <3>2. /\ my'[h] = seq /\ since'[h] = SL!Committed
          /\ at'[h] \in {"rwait", "copy1"} /\ (at'[h] = "copy1" => SL!Even(seq))
      BY <1>0, <2>2, Zenon DEF SL!StartRead, SL!Goto, SL!TypeOK
    <3> QED
      BY <1>0, <3>1, <3>2 DEF Reader, SL!Even
  <2>3. CASE SL!wait_unlock(h)
    <3>1. /\ my'[h] \in {my[h], seq} /\ since'[h] = since[h]
          /\ at'[h] \in {"rwait", "wwait", "copy1", "wcas"}
          /\ (at'[h] \in {"copy1", "wcas"} => my'[h] = my[h] /\ SL!Even(my[h]))
      BY <1>0, <2>3, Zenon DEF SL!wait_unlock, SL!Goto, SL!TypeOK
    <3> QED
      BY <1>0, <3>1 DEF Reader, SL!Even
  <2>4. CASE SL!CopyFirst(h)
    <3>1. /\ my'[h] = my[h] /\ since'[h] = since[h] /\ v1'[h] = d1 /\ at[h] = "copy1" /\ at'[h] = "copy2"
      BY <1>0, <2>4, Zenon DEF SL!CopyFirst, SL!Goto, SL!TypeOK
    <3> QED
      BY <1>0, <2>1, <3>1, Zenon DEF Reader, SL!Even
  <2>5. CASE SL!CopySecond(h)
    <3>1. /\ my'[h] = my[h] /\ since'[h] = since[h] /\ v1'[h] = v1[h] /\ v2'[h] = d2
          /\ at[h] = "copy2" /\ at'[h] = "verify"
      BY <1>0, <2>5, Zenon DEF SL!CopySecond, SL!Goto, SL!TypeOK
    <3> QED
      BY <1>0, <2>1, <3>1, Zenon DEF Reader, SL!Even
  <2>6. CASE SL!Verify(h)
    <3>1. CASE at'[h] = "returned"
      <4>1. /\ my[h] = seq /\ my'[h] = my[h] /\ since'[h] = since[h] /\ v1'[h] = v1[h]
            /\ v2'[h] = v2[h] /\ at[h] = "verify"
        BY <1>0, <2>6, <3>1, Zenon DEF SL!Verify, SL!Return, SL!Goto, SL!TypeOK
      <4> QED
        BY <1>0, <3>1, <4>1, Zenon DEF Reader
    <3>2. CASE at'[h] # "returned"
      <4>1. \/ at'[h] = "idle" /\ my'[h] = 0 /\ since'[h] = 0
            \/ at'[h] = "rwait" /\ my'[h] = seq /\ since'[h] = since[h]
        BY <1>0, <2>6, <3>2, Zenon DEF SL!Verify, SL!Return, SL!Goto, SL!TypeOK
      <4> QED
        BY <1>0, <4>1 DEF Reader
    <3> QED
      BY <3>1, <3>2, Zenon
  <2>7. CASE SL!Finish(h)
    <3>1. at'[h] = "idle" /\ my'[h] = 0 /\ since'[h] = 0
      BY <1>0, <2>7 DEF SL!Finish, SL!Return, SL!Goto, SL!TypeOK
    <3> QED
      BY <1>0, <3>1 DEF Reader
  <2>8. CASE SL!StartWrite(h)
    <3>1. /\ my'[h] = seq /\ since'[h] = since[h] /\ at'[h] \in {"wcas", "wwait"}
          /\ (at'[h] = "wcas" => SL!Even(seq))
      BY <1>0, <2>8 DEF SL!StartWrite, SL!Goto, SL!TypeOK
    <3> QED
      BY <1>0, <3>1 DEF Reader, SL!Even
  <2> QED
    BY <2>2, <2>3, <2>4, <2>5, <2>6, <2>7, <2>8, Zenon
<1> QED
  BY <1>2, <1>3, <1>4, Zenon DEF SeqInv

(* The compare_exchange: the writer enters alone, from an even number. *)
LEMMA WriteCasStep ==
  ASSUME SeqInv, SL!TypeOK', NEW h \in Harts, SL!WriteCas(h)
  PROVE  SeqInv'
<1>0. /\ SL!TypeOK /\ Writer /\ Words /\ Reader(h) /\ at[h] = "wcas"
      /\ seq \in Nat /\ my[h] \in Nat /\ since[h] \in Nat /\ d1' = d1 /\ d2' = d2
  BY Zenon DEF SeqInv, SL!TypeOK, SL!WriteCas
<1>1. /\ \A g \in Harts : g # h => at'[g] = at[g]
      /\ \A g \in Harts : g # h => /\ my'[g] = my[g] /\ since'[g] = since[g]
                                   /\ v1'[g] = v1[g] /\ v2'[g] = v2[g]
      /\ seq' \in {seq, seq + 1}
  BY <1>0 DEF SL!TypeOK, SL!WriteCas, SL!Return, SL!Goto
<1>2. \A g \in Harts : g # h => Reader(g)'
  BY <1>0, <1>1, ReadersKeep DEF SeqInv
<1>3. CASE seq = my[h]
  <2>1. SL!Even(seq) /\ d1 = seq /\ d2 = seq
    BY <1>0, <1>3, Zenon DEF Reader, Words
  <2>2. /\ seq' = seq + 1 /\ at'[h] = "write1" /\ my'[h] = my[h] /\ since'[h] = since[h]
    BY <1>0, <1>3, Zenon DEF SL!WriteCas, SL!Goto, SL!TypeOK
  <2>3. ~SL!Even(seq')
    BY <1>0, <2>1, <2>2, EvenSucc, Zenon
  <2>4. ~SL!Even(seq)'
    BY <2>3, Zenon DEF SL!Even
  <2>5. \A g \in Harts : g # h => at'[g] \notin Writing
    BY <1>0, <1>1, <2>1, Zenon DEF Writer
  <2>6. Writer'
    BY <2>2, <2>4, <2>5, Zenon DEF Writer, Writing
  <2>7. Words'
    BY <1>0, <2>1, <2>2, <2>4, <2>5 DEF Words, Writing
  <2>8. Reader(h)'
    BY <1>0, <2>2 DEF Reader
  <2> QED
    BY <1>2, <2>6, <2>7, <2>8, Zenon DEF SeqInv
<1>4. CASE seq # my[h]
  <2>1. /\ seq' = seq
        /\ \/ at'[h] = "idle" /\ my'[h] = 0 /\ since'[h] = 0
           \/ at'[h] = "wwait" /\ my'[h] = seq /\ since'[h] = since[h]
    BY <1>0, <1>4 DEF SL!WriteCas, SL!Return, SL!Goto, SL!TypeOK
  <2>2. at[h] \notin Writing /\ at'[h] \notin Writing
    BY <1>0, <2>1, Zenon DEF Writing
  <2>3. Writer' /\ Words'
    BY <1>0, <1>1, <2>1, <2>2, WriterUnchanged, Zenon
  <2>4. Reader(h)'
    BY <1>0, <2>1 DEF Reader
  <2> QED
    BY <1>2, <2>3, <2>4, Zenon DEF SeqInv
<1> QED
  BY <1>3, <1>4, Zenon

(* The two stores to the data: the words follow the place of the writer. *)
LEMMA WriteDataStep ==
  ASSUME SeqInv, SL!TypeOK', NEW h \in Harts, SL!WriteFirst(h) \/ SL!WriteSecond(h)
  PROVE  SeqInv'
<1>0. /\ SL!TypeOK /\ Writer /\ Words /\ Reader(h) /\ at[h] \in Writing
      /\ seq \in Nat /\ seq' = seq
  BY Zenon DEF SeqInv, SL!TypeOK, SL!WriteFirst, SL!WriteSecond, Writing
<1>1. /\ my' = my /\ since' = since /\ v1' = v1 /\ v2' = v2
      /\ \A g \in Harts : g # h => at'[g] = at[g]
  BY <1>0, Zenon DEF SL!TypeOK, SL!WriteFirst, SL!WriteSecond, SL!Goto
<1>2. \/ at[h] = "write1" /\ at'[h] = "write2" /\ d1' = seq + 1 /\ d2' = d2
      \/ at[h] = "write2" /\ at'[h] = "unlock" /\ d2' = seq + 1 /\ d1' = d1
  BY <1>0, Zenon DEF SL!TypeOK, SL!WriteFirst, SL!WriteSecond, SL!Goto
<1>3. \A g \in Harts : g # h => Reader(g)'
  BY <1>0, <1>1, ReadersKeep DEF SeqInv
<1>4. Reader(h)'
  BY <1>0, <1>1, <1>2, Zenon DEF Reader
<1>5. ~SL!Even(seq) /\ ~SL!Even(seq)'
  BY <1>0, Zenon DEF Writer, SL!Even
<1>6. \A g \in Harts : g # h => at'[g] \notin Writing
  BY <1>0, <1>1, Zenon DEF Writer
<1>7. Writer'
  BY <1>2, <1>5, <1>6, Zenon DEF Writer, Writing
<1>8. Words'
  BY <1>0, <1>2, <1>5, <1>6, Zenon DEF Words, Writing
<1> QED
  BY <1>3, <1>4, <1>7, <1>8, Zenon DEF SeqInv

(* The drop of the guard: both words are the new even number. *)
LEMMA UnlockStep ==
  ASSUME SeqInv, SL!TypeOK', NEW h \in Harts, SL!Unlock(h)
  PROVE  SeqInv'
<1>0. /\ SL!TypeOK /\ Writer /\ Words /\ at[h] = "unlock" /\ seq \in Nat
      /\ seq' = seq + 1 /\ d1' = d1 /\ d2' = d2
  BY Zenon DEF SeqInv, SL!TypeOK, SL!Unlock
<1>1. /\ at'[h] = "idle" /\ my'[h] = 0 /\ since'[h] = 0
      /\ \A g \in Harts : g # h => at'[g] = at[g]
      /\ \A g \in Harts : g # h => /\ my'[g] = my[g] /\ since'[g] = since[g]
                                   /\ v1'[g] = v1[g] /\ v2'[g] = v2[g]
  BY <1>0 DEF SL!TypeOK, SL!Unlock, SL!Return, SL!Goto
<1>2. \A g \in Harts : g # h => Reader(g)'
  BY <1>0, <1>1, ReadersKeep DEF SeqInv
<1>3. Reader(h)'
  BY <1>0, <1>1 DEF Reader
<1>4. SL!Even(seq)'
  <2>1. ~SL!Even(seq)
    BY <1>0, Zenon DEF Writer, Writing
  <2>2. SL!Even(seq + 1)
    BY <1>0, <2>1, EvenSucc, Zenon
  <2> QED
    BY <1>0, <2>2, Zenon DEF SL!Even
<1>5. \A g \in Harts : at'[g] \notin Writing
  BY <1>0, <1>1, Zenon DEF Writer, Writing
<1>6. Writer'
  BY <1>4, <1>5, Zenon DEF Writer
<1>7. Words'
  BY <1>0, <1>5, Zenon DEF Words, Writing
<1> QED
  BY <1>2, <1>3, <1>6, <1>7, Zenon DEF SeqInv

-----------------------------------------------------------------------------
(* Every step keeps the invariant. *)
LEMMA SeqStep == SeqInv /\ [SL!Next]_(SL!vars) => SeqInv'
<1> SUFFICES ASSUME SeqInv, [SL!Next]_(SL!vars) PROVE SeqInv'
  BY Zenon
<1>0. SL!TypeOK'
  BY SeqTypes, Zenon DEF SeqInv
<1>1. CASE UNCHANGED SL!vars
  BY <1>1, Zenon DEF SeqInv, SL!TypeOK, Writer, Words, Reader, SL!Even, SL!vars
<1>2. ASSUME NEW h \in Harts, SL!Step(h) PROVE SeqInv'
  BY <1>0, <1>2, ReadersStep, WriteCasStep, WriteDataStep, UnlockStep, Zenon DEF SL!Step
<1> QED
  BY <1>1, <1>2, Zenon DEF SL!Next

(* What read and try_read return is the data of one complete write, at      *)
(* least as new as the data were when the call began.                       *)
THEOREM ReadsAreAtomic == SL!Spec => []SL!ReadAtomic
<1>1. SeqInv => SL!ReadAtomic
  BY Zenon DEF SeqInv, Reader, SL!ReadAtomic
<1> QED
  BY SeqInit, SeqStep, <1>1, PTL DEF SL!Spec

(* One writer holds the guard at a time, and the number is odd exactly      *)
(* while one does.                                                          *)
THEOREM WritersExclude == SL!Spec => []SL!OneWriter
<1>1. SeqInv => SL!OneWriter
  <2> SUFFICES ASSUME SeqInv PROVE SL!OneWriter
    BY Zenon
  <2>1. ~SL!Even(seq) <=> \E h \in Harts : at[h] \in Writing
    BY Zenon DEF SeqInv, Writer
  <2> QED
    BY <2>1, Zenon DEF SeqInv, Writer, SL!OneWriter, Writing, SL!Even
<1> QED
  BY SeqInit, SeqStep, <1>1, PTL DEF SL!Spec

(***************************************************************************)
(* The mailboxes (Mailbox), for every set of harts and pages and every      *)
(* length of the list of pages: a hart with a stale translation, or stale   *)
(* instructions, has the flush for them in one of its two mailboxes or is   *)
(* still to be sent it, and both mailboxes stay bounded.  The argument:     *)
(* posting never takes away what a mailbox covers, also when a long list is *)
(* given up; a changer is counted on until its own mail is posted, last; a  *)
(* swap keeps the two boxes together, so both are bounded alike.            *)
(***************************************************************************)
CONSTANTS Changers, Vas, MAX_SPEC_SFENCE

VARIABLES stale, icache, mailbox, local_mail, work, stage  \* the variables of Mailbox; stage is its pc

ML == INSTANCE Mailbox WITH pc <- stage

(* Pages are no mail of another kind. *)
MailConstants ==
  /\ MAX_SPEC_SFENCE \in Nat
  /\ "FENCE_I" \notin Vas /\ "ALL_NO_GLOBAL" \notin Vas

(* Both mailboxes of a hart are bounded: they are swapped. *)
Short == \A h \in Harts : /\ Len(mailbox[h].spec) <= MAX_SPEC_SFENCE + 1
                          /\ Len(local_mail[h].spec) <= MAX_SPEC_SFENCE + 1

MailInv == ML!TypeOK /\ ML!FlushPending /\ Short

-----------------------------------------------------------------------------
(* What mail does to a mailbox: what was covered still is, and so is what    *)
(* the mail asks for.                                                        *)
LEMMA PostFacts ==
  ASSUME MailConstants, NEW b \in ML!Boxes, NEW m \in ML!Mails, Len(b.spec) <= MAX_SPEC_SFENCE + 1
  PROVE  /\ ML!Post(b, m) \in ML!Boxes /\ Len(ML!Post(b, m).spec) <= MAX_SPEC_SFENCE + 1
         /\ \A v \in Vas : ML!Covers(b, v) => ML!Covers(ML!Post(b, m), v)
         /\ \A f \in b.event : f \in ML!Post(b, m).event
         /\ \A v \in Vas : m = v \/ m = "ALL_NO_GLOBAL" => ML!Covers(ML!Post(b, m), v)
         /\ m = "FENCE_I" => "FENCE_I" \in ML!Post(b, m).event
<1> DEFINE r == ML!Post(b, m)
<1>0. /\ b.event \in SUBSET {"FENCE_I", "ALL_NO_GLOBAL", "SPEC"} /\ b.spec \in Seq(Vas)
      /\ Len(b.spec) \in Nat /\ MAX_SPEC_SFENCE \in Nat
  BY DEF ML!Boxes, MailConstants
<1>1. CASE m \notin Vas
  <2>1. r = [b EXCEPT !.event = @ \cup {m}] /\ m \in {"FENCE_I", "ALL_NO_GLOBAL"}
    BY <1>1, Zenon DEF ML!Post, ML!set_flag, ML!Mails
  <2>2. r.event = b.event \cup {m} /\ r.spec = b.spec /\ r \in ML!Boxes
    BY <2>1 DEF ML!Boxes
  <2> HIDE DEF r
  <2>3. \A v \in Vas : ML!Covers(b, v) => ML!Covers(r, v)
    BY <2>2, Zenon DEF ML!Covers
  <2>4. \A v \in Vas : m = v \/ m = "ALL_NO_GLOBAL" => ML!Covers(r, v)
    BY <1>1, <2>2, Zenon DEF ML!Covers
  <2> QED
    BY <2>2, <2>3, <2>4, Zenon DEF r
<1>2. CASE m \in Vas
  <2>0. r = ML!spec_sfence(b, m) /\ m # "ALL_NO_GLOBAL" /\ m # "FENCE_I"
    BY <1>2, Zenon DEF ML!Post, MailConstants
  <2>1. CASE "ALL_NO_GLOBAL" \in b.event
    <3>1. r = b
      BY <2>0, <2>1, Zenon DEF ML!spec_sfence
    <3>2. \A v \in Vas : ML!Covers(b, v)
      BY <2>1, Zenon DEF ML!Covers
    <3> HIDE DEF r
    <3> QED
      BY <2>0, <3>1, <3>2, Zenon DEF r
  <2>2. CASE "ALL_NO_GLOBAL" \notin b.event /\ Len(b.spec) > MAX_SPEC_SFENCE
    <3>1. r = [event |-> b.event \cup {"ALL_NO_GLOBAL"}, spec |-> <<>>]
      BY <2>0, <2>2, Zenon DEF ML!spec_sfence
    <3>2. r.event = b.event \cup {"ALL_NO_GLOBAL"} /\ r.spec = <<>> /\ r \in ML!Boxes /\ Len(r.spec) <= MAX_SPEC_SFENCE + 1
      BY <1>0, <3>1 DEF ML!Boxes
    <3> HIDE DEF r
    <3>3. \A v \in Vas : ML!Covers(r, v)
      BY <3>2, Zenon DEF ML!Covers
    <3> QED
      BY <2>0, <3>2, <3>3, Zenon DEF r
  <2>3. CASE "ALL_NO_GLOBAL" \notin b.event /\ ~(Len(b.spec) > MAX_SPEC_SFENCE)
    <3>1. r = [event |-> b.event \cup {"SPEC"}, spec |-> Append(b.spec, m)]
      BY <2>0, <2>3, Zenon DEF ML!spec_sfence
    <3>2. r.event = b.event \cup {"SPEC"} /\ r.spec = Append(b.spec, m) /\ r \in ML!Boxes
      BY <1>0, <1>2, <3>1 DEF ML!Boxes
    <3> HIDE DEF r
    <3>3. /\ Len(r.spec) = Len(b.spec) + 1 /\ r.spec[Len(b.spec) + 1] = m
          /\ \A i \in 1..Len(b.spec) : r.spec[i] = b.spec[i]
      BY <1>0, <1>2, <3>2
    <3>4. Len(r.spec) <= MAX_SPEC_SFENCE + 1 /\ Len(b.spec) + 1 \in 1..Len(r.spec)
      BY <1>0, <2>3, <3>3
    <3>5. \A i \in 1..Len(b.spec) : i \in 1..Len(r.spec)
      BY <1>0, <3>3
    <3>6. ML!Covers(r, m)
      BY <3>2, <3>3, <3>4, Zenon DEF ML!Covers
    <3>7. ASSUME NEW v \in Vas, ML!Covers(b, v) PROVE ML!Covers(r, v)
      <4>1. PICK i \in 1..Len(b.spec) : b.spec[i] = v
        BY <2>3, <3>7, Zenon DEF ML!Covers
      <4>2. i \in 1..Len(r.spec) /\ r.spec[i] = v
        BY <3>3, <3>5, <4>1, Zenon
      <4> QED
        BY <3>2, <4>2, Zenon DEF ML!Covers
    <3> QED
      BY <2>0, <3>2, <3>4, <3>6, <3>7, Zenon DEF r
  <2> QED
    BY <2>1, <2>2, <2>3, Zenon
<1> QED
  BY <1>1, <1>2, Zenon

(* A hart's flushes stay pending when mailboxes only gain, nothing more is   *)
(* stale and whoever stops changing has left its mail.                       *)
LEMMA StillPending ==
  ASSUME ML!FlushPending,
         \A h \in Harts : \A v \in stale'[h] :
           /\ v \in stale[h]
           /\ ML!Covers(mailbox[h], v) \/ ML!Covers(local_mail[h], v) => ML!Covers(mailbox'[h], v) \/ ML!Covers(local_mail'[h], v)
           /\ \A m \in {v, "ALL_NO_GLOBAL"} : ML!Changing(h, m) =>
                ML!Changing(h, m)' \/ ML!Covers(mailbox'[h], v) \/ ML!Covers(local_mail'[h], v),
         \A h \in icache' :
           /\ h \in icache
           /\ "FENCE_I" \in mailbox[h].event \cup local_mail[h].event => "FENCE_I" \in mailbox'[h].event \cup local_mail'[h].event
           /\ ML!Changing(h, "FENCE_I") => ML!Changing(h, "FENCE_I")' \/ "FENCE_I" \in mailbox'[h].event \cup local_mail'[h].event
  PROVE  ML!FlushPending'
<1>1. ASSUME NEW h \in Harts, NEW v \in stale'[h]
      PROVE  \/ ML!Covers(mailbox'[h], v) \/ ML!Covers(local_mail'[h], v)
             \/ ML!Changing(h, v)' \/ ML!Changing(h, "ALL_NO_GLOBAL")'
  <2>1. \/ ML!Covers(mailbox[h], v) \/ ML!Covers(local_mail[h], v)
        \/ ML!Changing(h, v) \/ ML!Changing(h, "ALL_NO_GLOBAL")
    BY <1>1, Zenon DEF ML!FlushPending
  <2>2. v \in {v, "ALL_NO_GLOBAL"} /\ "ALL_NO_GLOBAL" \in {v, "ALL_NO_GLOBAL"}
    OBVIOUS
  <2> QED
    BY <1>1, <2>1, <2>2, Zenon
<1>2. ASSUME NEW h \in Harts, h \in icache'
      PROVE  "FENCE_I" \in mailbox'[h].event \cup local_mail'[h].event \/ ML!Changing(h, "FENCE_I")'
  BY <1>2, Zenon DEF ML!FlushPending
<1> QED
  BY <1>1, <1>2, Zenon DEF ML!FlushPending

(* Who is changing what, after a step. *)
LEMMA ChangingKept ==
  ASSUME NEW h \in Harts, stage[h] # "register", work' = work,
         \A g \in Harts : g # h => stage'[g] = stage[g]
  PROVE  \A x \in Harts : \A m : ML!Changing(x, m) => ML!Changing(x, m)'
  BY Zenon DEF ML!Changing

(* The change makes things stale, and the changer has all harts to tell. *)
LEMMA ChangeInv ==
  ASSUME MailConstants, MailInv, NEW h \in Harts, NEW mail \in ML!Mails, ML!Change(h, mail)
  PROVE  MailInv'
<1> DEFINE new == CASE mail \in Vas -> {mail} [] mail = "ALL_NO_GLOBAL" -> Vas [] OTHER -> {}
<1>i. ML!TypeOK /\ ML!FlushPending /\ Short
  BY Zenon DEF MailInv
<1>k. /\ stage[h] = "out" /\ mailbox' = mailbox /\ local_mail' = local_mail
      /\ stale' = [g \in Harts |-> stale[g] \cup new]
      /\ icache' = IF mail = "FENCE_I" THEN Harts ELSE icache
      /\ work' = [work EXCEPT ![h] = [todo |-> Harts \ {h}, mail |-> mail]]
      /\ stage' = [stage EXCEPT ![h] = "register"]
  BY DEF ML!Change
<1>n. new \in SUBSET Vas /\ \A v \in new : mail = v \/ mail = "ALL_NO_GLOBAL"
  BY DEF MailConstants, ML!Mails
<1> HIDE DEF new
<1>p. /\ stage' \in [Harts -> {"out", "register", "flush", "swap"}] /\ stage'[h] = "register"
      /\ \A g \in Harts : g # h => stage'[g] = stage[g]
  BY <1>i, <1>k, Zenon DEF ML!TypeOK
<1>w. /\ work' \in [Harts -> [todo : SUBSET Harts, mail : ML!Mails]]
      /\ work'[h].mail = mail /\ work'[h].todo = Harts \ {h}
      /\ \A g \in Harts : g # h => work'[g] = work[g]
  BY <1>i, <1>k DEF ML!TypeOK
<1>1. ML!TypeOK'
  <2>1. stale' \in [Harts -> SUBSET Vas]
    BY <1>i, <1>k, <1>n DEF ML!TypeOK
  <2>2. icache' \subseteq Harts
    BY <1>i, <1>k DEF ML!TypeOK
  <2> QED
    BY <1>i, <1>k, <1>p, <1>w, <2>1, <2>2, Zenon DEF ML!TypeOK
<1>2. Short'
  BY <1>i, <1>k, Zenon DEF Short
<1>3. \A g \in Harts : ML!Changing(g, mail)'
  BY <1>p, <1>w, Zenon DEF ML!Changing
<1>4. \A g \in Harts : \A m : ML!Changing(g, m) => ML!Changing(g, m)'
  <2>1. \A x \in Harts : stage[x] = "register" => x # h
    BY <1>k, Zenon
  <2> QED
    BY <1>p, <1>w, <2>1, Zenon DEF ML!Changing
<1>5. ASSUME NEW g \in Harts, NEW v \in stale'[g]
      PROVE  \/ ML!Covers(mailbox'[g], v) \/ ML!Covers(local_mail'[g], v)
             \/ ML!Changing(g, v)' \/ ML!Changing(g, "ALL_NO_GLOBAL")'
  <2>1. v \in stale[g] \/ v \in new
    BY <1>k, <1>5, Zenon
  <2>2. CASE v \in stale[g]
    <3>1. \/ ML!Covers(mailbox[g], v) \/ ML!Covers(local_mail[g], v)
          \/ ML!Changing(g, v) \/ ML!Changing(g, "ALL_NO_GLOBAL")
      BY <1>i, <2>2, Zenon DEF ML!FlushPending
    <3> QED
      BY <1>k, <1>4, <3>1, Zenon
  <2>3. CASE v \in new
    BY <1>3, <1>n, <2>3, Zenon
  <2> QED
    BY <2>1, <2>2, <2>3, Zenon
<1>6. ASSUME NEW g \in Harts, g \in icache'
      PROVE  "FENCE_I" \in mailbox'[g].event \cup local_mail'[g].event \/ ML!Changing(g, "FENCE_I")'
  <2>1. mail = "FENCE_I" \/ g \in icache
    BY <1>k, <1>6, Zenon
  <2>2. CASE g \in icache
    <3>1. "FENCE_I" \in mailbox[g].event \cup local_mail[g].event \/ ML!Changing(g, "FENCE_I")
      BY <1>i, <2>2, Zenon DEF ML!FlushPending
    <3> QED
      BY <1>k, <1>4, <3>1, Zenon
  <2> QED
    BY <1>3, <2>1, <2>2, Zenon
<1>7. ML!FlushPending'
  BY <1>5, <1>6, Zenon DEF ML!FlushPending
<1> QED
  BY <1>1, <1>2, <1>7, Zenon DEF MailInv

(* Mail reaches the mailbox of another hart. *)
LEMMA RegisterInv ==
  ASSUME MailConstants, MailInv, NEW h \in Harts, NEW g \in Harts, ML!register(h, g)
  PROVE  MailInv'
<1>i. ML!TypeOK /\ ML!FlushPending /\ Short
  BY Zenon DEF MailInv
<1>d. PICK m : m = work[h].mail
  OBVIOUS
<1>k. /\ stage[h] = "register" /\ g \in work[h].todo
      /\ mailbox' = [mailbox EXCEPT ![g] = ML!Post(@, m)]
      /\ work' = [work EXCEPT ![h].todo = @ \ {g}]
      /\ stale' = stale /\ icache' = icache /\ local_mail' = local_mail /\ stage' = stage
  BY <1>d, Zenon DEF ML!register
<1>t. /\ m \in ML!Mails /\ mailbox[g] \in ML!Boxes /\ Len(mailbox[g].spec) <= MAX_SPEC_SFENCE + 1
      /\ stale \in [Harts -> SUBSET Vas] /\ icache \subseteq Harts
  BY <1>i, <1>d DEF ML!TypeOK, Short
<1>b. /\ mailbox' \in [Harts -> ML!Boxes] /\ mailbox'[g] = ML!Post(mailbox[g], m)
      /\ \A x \in Harts : x # g => mailbox'[x] = mailbox[x]
  BY <1>i, <1>k, <1>t, PostFacts, Zenon DEF ML!TypeOK
<1>q. /\ \A v \in Vas : ML!Covers(mailbox[g], v) => ML!Covers(mailbox'[g], v)
      /\ \A v \in Vas : (m = v \/ m = "ALL_NO_GLOBAL") => ML!Covers(mailbox'[g], v)
      /\ "FENCE_I" \in mailbox[g].event => "FENCE_I" \in mailbox'[g].event
      /\ m = "FENCE_I" => "FENCE_I" \in mailbox'[g].event
  <2>1. PICK b \in ML!Boxes : b = mailbox[g]
    BY <1>t, Zenon
  <2>2. Len(b.spec) <= MAX_SPEC_SFENCE + 1 /\ m \in ML!Mails /\ MailConstants
    BY <1>t, <2>1, Zenon
  <2>3. /\ \A v \in Vas : ML!Covers(b, v) => ML!Covers(ML!Post(b, m), v)
        /\ \A f \in b.event : f \in ML!Post(b, m).event
        /\ \A v \in Vas : (m = v \/ m = "ALL_NO_GLOBAL") => ML!Covers(ML!Post(b, m), v)
        /\ m = "FENCE_I" => "FENCE_I" \in ML!Post(b, m).event
    BY <2>2, PostFacts, Zenon
  <2>4. mailbox'[g] = ML!Post(b, m)
    BY <1>b, <2>1, Zenon
  <2> QED
    BY <2>1, <2>3, <2>4, Zenon
<1>w. /\ work' \in [Harts -> [todo : SUBSET Harts, mail : ML!Mails]]
      /\ work'[h].mail = m /\ work'[h].todo = work[h].todo \ {g}
      /\ \A x \in Harts : x # h => work'[x] = work[x]
  BY <1>i, <1>k, <1>d DEF ML!TypeOK
<1>1. ML!TypeOK'
  BY <1>i, <1>k, <1>b, <1>w, Zenon DEF ML!TypeOK
<1>2. Short'
  BY <1>i, <1>k, <1>t, <1>b, PostFacts, Zenon DEF Short
<1>3. \A x \in Harts : \A n : ML!Changing(x, n) => ML!Changing(x, n)' \/ (x = g /\ n = m)
  <2> SUFFICES ASSUME NEW x \in Harts, NEW n, ML!Changing(x, n) PROVE ML!Changing(x, n)' \/ (x = g /\ n = m)
    OBVIOUS
  <2>1. PICK y \in Harts : stage[y] = "register" /\ n = work[y].mail /\ x \in work[y].todo \cup {y}
    BY Zenon DEF ML!Changing
  <2>2. CASE y = h
    BY <1>d, <1>k, <1>w, <2>1, <2>2, Zenon DEF ML!Changing
  <2>3. CASE y # h
    BY <1>k, <1>w, <2>1, <2>3, Zenon DEF ML!Changing
  <2> QED
    BY <2>2, <2>3, Zenon
<1>4. ASSUME NEW x \in Harts, NEW v \in stale'[x]
      PROVE  /\ v \in stale[x]
             /\ ML!Covers(mailbox[x], v) \/ ML!Covers(local_mail[x], v) => ML!Covers(mailbox'[x], v) \/ ML!Covers(local_mail'[x], v)
             /\ \A n \in {v, "ALL_NO_GLOBAL"} : ML!Changing(x, n) =>
                  ML!Changing(x, n)' \/ ML!Covers(mailbox'[x], v) \/ ML!Covers(local_mail'[x], v)
  <2>1. v \in stale[x] /\ v \in Vas
    BY <1>k, <1>t, <1>4, Zenon
  <2>2. ML!Covers(mailbox[x], v) => ML!Covers(mailbox'[x], v)
    BY <1>b, <1>q, <2>1, Zenon
  <2>3. ASSUME NEW n \in {v, "ALL_NO_GLOBAL"}, x = g, n = m PROVE ML!Covers(mailbox'[x], v)
    BY <1>q, <2>1, <2>3, Zenon
  <2> QED
    BY <1>k, <1>3, <2>1, <2>2, <2>3, Zenon
<1>5. ASSUME NEW x \in icache'
      PROVE  /\ x \in icache
             /\ "FENCE_I" \in mailbox[x].event \cup local_mail[x].event => "FENCE_I" \in mailbox'[x].event \cup local_mail'[x].event
             /\ ML!Changing(x, "FENCE_I") => ML!Changing(x, "FENCE_I")' \/ "FENCE_I" \in mailbox'[x].event \cup local_mail'[x].event
  <2>1. x \in icache /\ x \in Harts
    BY <1>k, <1>t, <1>5, Zenon
  <2>2. "FENCE_I" \in mailbox[x].event => "FENCE_I" \in mailbox'[x].event
    BY <1>b, <1>q, <2>1, Zenon
  <2>3. x = g /\ "FENCE_I" = m => "FENCE_I" \in mailbox'[x].event
    BY <1>q, Zenon
  <2> QED
    BY <1>k, <1>3, <2>1, <2>2, <2>3, Zenon
<1>6. ML!FlushPending'
  BY <1>i, <1>4, <1>5, StillPending, Zenon
<1> QED
  BY <1>1, <1>2, <1>6, Zenon DEF MailInv

(* The changer leaves its own mail last. *)
LEMMA RegisterOwnInv ==
  ASSUME MailConstants, MailInv, NEW h \in Harts, ML!RegisterOwn(h)
  PROVE  MailInv'
<1>i. ML!TypeOK /\ ML!FlushPending /\ Short
  BY Zenon DEF MailInv
<1>d. PICK m : m = work[h].mail
  OBVIOUS
<1>k. /\ stage[h] = "register" /\ work[h].todo = {}
      /\ local_mail' = [local_mail EXCEPT ![h] = ML!Post(@, m)]
      /\ work' = [work EXCEPT ![h] = ML!Quiet] /\ stage' = [stage EXCEPT ![h] = "flush"]
      /\ stale' = stale /\ icache' = icache /\ mailbox' = mailbox
  BY <1>d, Zenon DEF ML!RegisterOwn
<1>t. /\ m \in ML!Mails /\ local_mail[h] \in ML!Boxes /\ Len(local_mail[h].spec) <= MAX_SPEC_SFENCE + 1
      /\ stale \in [Harts -> SUBSET Vas] /\ icache \subseteq Harts
  BY <1>i, <1>d DEF ML!TypeOK, Short
<1>b. /\ local_mail' \in [Harts -> ML!Boxes] /\ local_mail'[h] = ML!Post(local_mail[h], m)
      /\ \A x \in Harts : x # h => local_mail'[x] = local_mail[x]
  BY <1>i, <1>k, <1>t, PostFacts, Zenon DEF ML!TypeOK
<1>q. /\ \A v \in Vas : ML!Covers(local_mail[h], v) => ML!Covers(local_mail'[h], v)
      /\ \A v \in Vas : (m = v \/ m = "ALL_NO_GLOBAL") => ML!Covers(local_mail'[h], v)
      /\ "FENCE_I" \in local_mail[h].event => "FENCE_I" \in local_mail'[h].event
      /\ m = "FENCE_I" => "FENCE_I" \in local_mail'[h].event
  <2>1. PICK b \in ML!Boxes : b = local_mail[h]
    BY <1>t, Zenon
  <2>2. Len(b.spec) <= MAX_SPEC_SFENCE + 1 /\ m \in ML!Mails /\ MailConstants
    BY <1>t, <2>1, Zenon
  <2>3. /\ \A v \in Vas : ML!Covers(b, v) => ML!Covers(ML!Post(b, m), v)
        /\ \A f \in b.event : f \in ML!Post(b, m).event
        /\ \A v \in Vas : (m = v \/ m = "ALL_NO_GLOBAL") => ML!Covers(ML!Post(b, m), v)
        /\ m = "FENCE_I" => "FENCE_I" \in ML!Post(b, m).event
    BY <2>2, PostFacts, Zenon
  <2>4. local_mail'[h] = ML!Post(b, m)
    BY <1>b, <2>1, Zenon
  <2> QED
    BY <2>1, <2>3, <2>4, Zenon
<1>w. /\ work' \in [Harts -> [todo : SUBSET Harts, mail : ML!Mails]]
      /\ \A x \in Harts : x # h => work'[x] = work[x]
  <2>1. ML!Quiet \in [todo : SUBSET Harts, mail : ML!Mails]
    BY DEF ML!Quiet, ML!Mails
  <2> QED
    BY <1>i, <1>k, <2>1, Zenon DEF ML!TypeOK
<1>p. /\ stage' \in [Harts -> {"out", "register", "flush", "swap"}]
      /\ \A x \in Harts : x # h => stage'[x] = stage[x]
  BY <1>i, <1>k, Zenon DEF ML!TypeOK
<1>1. ML!TypeOK'
  BY <1>i, <1>k, <1>b, <1>w, <1>p, Zenon DEF ML!TypeOK
<1>2. Short'
  BY <1>i, <1>k, <1>t, <1>b, PostFacts, Zenon DEF Short
<1>3. \A x \in Harts : \A n : ML!Changing(x, n) => ML!Changing(x, n)' \/ (x = h /\ n = m)
  <2> SUFFICES ASSUME NEW x \in Harts, NEW n, ML!Changing(x, n) PROVE ML!Changing(x, n)' \/ (x = h /\ n = m)
    OBVIOUS
  <2>1. PICK y \in Harts : stage[y] = "register" /\ n = work[y].mail /\ x \in work[y].todo \cup {y}
    BY Zenon DEF ML!Changing
  <2>2. CASE y = h
    BY <1>d, <1>k, <2>1, <2>2, Zenon
  <2>3. CASE y # h
    BY <1>p, <1>w, <2>1, <2>3, Zenon DEF ML!Changing
  <2> QED
    BY <2>2, <2>3, Zenon
<1>4. ASSUME NEW x \in Harts, NEW v \in stale'[x]
      PROVE  /\ v \in stale[x]
             /\ ML!Covers(mailbox[x], v) \/ ML!Covers(local_mail[x], v) => ML!Covers(mailbox'[x], v) \/ ML!Covers(local_mail'[x], v)
             /\ \A n \in {v, "ALL_NO_GLOBAL"} : ML!Changing(x, n) =>
                  ML!Changing(x, n)' \/ ML!Covers(mailbox'[x], v) \/ ML!Covers(local_mail'[x], v)
  <2>1. v \in stale[x] /\ v \in Vas
    BY <1>k, <1>t, <1>4, Zenon
  <2>2. ML!Covers(local_mail[x], v) => ML!Covers(local_mail'[x], v)
    BY <1>b, <1>q, <2>1, Zenon
  <2>3. ASSUME NEW n \in {v, "ALL_NO_GLOBAL"}, x = h, n = m PROVE ML!Covers(local_mail'[x], v)
    BY <1>q, <2>1, <2>3, Zenon
  <2> QED
    BY <1>k, <1>3, <2>1, <2>2, <2>3, Zenon
<1>5. ASSUME NEW x \in icache'
      PROVE  /\ x \in icache
             /\ "FENCE_I" \in mailbox[x].event \cup local_mail[x].event => "FENCE_I" \in mailbox'[x].event \cup local_mail'[x].event
             /\ ML!Changing(x, "FENCE_I") => ML!Changing(x, "FENCE_I")' \/ "FENCE_I" \in mailbox'[x].event \cup local_mail'[x].event
  <2>1. x \in icache /\ x \in Harts
    BY <1>k, <1>t, <1>5, Zenon
  <2>2. "FENCE_I" \in local_mail[x].event => "FENCE_I" \in local_mail'[x].event
    BY <1>b, <1>q, <2>1, Zenon
  <2>3. x = h /\ "FENCE_I" = m => "FENCE_I" \in local_mail'[x].event
    BY <1>q, Zenon
  <2> QED
    BY <1>k, <1>3, <2>1, <2>2, <2>3, Zenon
<1>6. ML!FlushPending'
  BY <1>i, <1>4, <1>5, StillPending, Zenon
<1> QED
  BY <1>1, <1>2, <1>6, Zenon DEF MailInv

(* A hart sees to its own mail: what the mail covered is stale no more. *)
LEMMA FlushInv ==
  ASSUME MailConstants, MailInv, NEW h \in Harts, ML!Flush(h)
  PROVE  MailInv'
<1>i. ML!TypeOK /\ ML!FlushPending /\ Short
  BY Zenon DEF MailInv
<1>k. /\ stage[h] = "flush" /\ stage' = [stage EXCEPT ![h] = "out"] /\ mailbox' = mailbox /\ work' = work
      /\ icache' = IF "FENCE_I" \in local_mail[h].event THEN icache \ {h} ELSE icache
      /\ stale' = [stale EXCEPT ![h] = {v \in @ : ~ML!Covers(local_mail[h], v)}]
      /\ local_mail' = [local_mail EXCEPT ![h] = ML!NoMail]
  BY DEF ML!Flush, ML!HandleMail
<1>b. /\ ML!NoMail \in ML!Boxes /\ ML!NoMail.spec = <<>> /\ local_mail' \in [Harts -> ML!Boxes] /\ local_mail'[h] = ML!NoMail
      /\ \A x \in Harts : x # h => local_mail'[x] = local_mail[x]
  <2>1. ML!NoMail \in ML!Boxes /\ ML!NoMail.spec = <<>>
    BY DEF ML!NoMail, ML!Boxes
  <2> QED
    BY <1>i, <1>k, <2>1, Zenon DEF ML!TypeOK
<1>s. /\ stale' \in [Harts -> SUBSET Vas] /\ stale'[h] = {v \in stale[h] : ~ML!Covers(local_mail[h], v)}
      /\ \A x \in Harts : x # h => stale'[x] = stale[x]
  <2>1. stale \in [Harts -> SUBSET Vas]
    BY <1>i, Zenon DEF ML!TypeOK
  <2>2. {v \in stale[h] : ~ML!Covers(local_mail[h], v)} \in SUBSET Vas
    BY <2>1, Zenon
  <2> QED
    BY <1>k, <2>1, <2>2, Zenon
<1>p. /\ stage' \in [Harts -> {"out", "register", "flush", "swap"}]
      /\ \A x \in Harts : x # h => stage'[x] = stage[x]
  BY <1>i, <1>k, Zenon DEF ML!TypeOK
<1>c. \A x \in Harts : \A m : ML!Changing(x, m) => ML!Changing(x, m)'
  <2>1. stage[h] # "register"
    BY <1>k, Zenon
  <2> QED
    BY <1>k, <1>p, <2>1, ChangingKept, Zenon
<1>1. ML!TypeOK'
  <2>1. icache' \subseteq Harts
    BY <1>i, <1>k, Zenon DEF ML!TypeOK
  <2> QED
    BY <1>i, <1>k, <1>b, <1>s, <1>p, <2>1, Zenon DEF ML!TypeOK
<1>2. Short'
  <2>1. Len(ML!NoMail.spec) <= MAX_SPEC_SFENCE + 1
    BY <1>b DEF MailConstants
  <2> QED
    BY <1>i, <1>k, <1>b, <2>1, Zenon DEF Short
<1>3. ASSUME NEW x \in Harts, NEW v \in stale'[x]
      PROVE  \/ ML!Covers(mailbox'[x], v) \/ ML!Covers(local_mail'[x], v)
             \/ ML!Changing(x, v)' \/ ML!Changing(x, "ALL_NO_GLOBAL")'
  <2>1. v \in stale[x] /\ (x = h => ~ML!Covers(local_mail[x], v))
    BY <1>s, <1>3, Zenon
  <2>2. \/ ML!Covers(mailbox[x], v) \/ ML!Covers(local_mail[x], v)
        \/ ML!Changing(x, v) \/ ML!Changing(x, "ALL_NO_GLOBAL")
    BY <1>i, <2>1, Zenon DEF ML!FlushPending
  <2> QED
    BY <1>k, <1>b, <1>c, <2>1, <2>2, Zenon
<1>4. ASSUME NEW x \in Harts, x \in icache'
      PROVE  "FENCE_I" \in mailbox'[x].event \cup local_mail'[x].event \/ ML!Changing(x, "FENCE_I")'
  <2>1. x \in icache /\ (x = h => "FENCE_I" \notin local_mail[x].event)
    BY <1>k, <1>4, Zenon
  <2>2. "FENCE_I" \in mailbox[x].event \cup local_mail[x].event \/ ML!Changing(x, "FENCE_I")
    BY <1>i, <2>1, Zenon DEF ML!FlushPending
  <2> QED
    BY <1>k, <1>b, <1>c, <2>1, <2>2, Zenon
<1>5. ML!FlushPending'
  BY <1>3, <1>4, Zenon DEF ML!FlushPending
<1> QED
  BY <1>1, <1>2, <1>5, Zenon DEF MailInv

(* A hart sees its mailbox filled, or takes it; a switch of tasks flushes.   *)
LEMMA QuietSteps ==
  ASSUME MailInv, NEW h \in Harts, ML!handle(h) \/ ML!HandleSwap(h) \/ ML!SwitchFlush(h)
  PROVE  MailInv'
<1>i. ML!TypeOK /\ ML!FlushPending /\ Short
  BY Zenon DEF MailInv
<1>k. /\ stage[h] # "register" /\ stage' \in [Harts -> {"out", "register", "flush", "swap"}]
      /\ work' = work /\ icache' = icache
      /\ \A x \in Harts : x # h => stage'[x] = stage[x]
  <2>1. stage[h] # "register" /\ work' = work /\ icache' = icache
    BY Zenon DEF ML!handle, ML!HandleSwap, ML!SwitchFlush
  <2>2. stage' = stage \/ stage' = [stage EXCEPT ![h] = "swap"] \/ stage' = [stage EXCEPT ![h] = "flush"]
    BY Zenon DEF ML!handle, ML!HandleSwap, ML!SwitchFlush
  <2> QED
    BY <1>i, <2>1, <2>2, Zenon DEF ML!TypeOK
<1>c. \A x \in Harts : \A m : ML!Changing(x, m) => ML!Changing(x, m)'
  BY <1>k, ChangingKept, Zenon
<1>s. stale' \in [Harts -> SUBSET Vas] /\ \A x \in Harts : \A v \in stale'[x] : v \in stale[x]
  <2>1. stale' = stale \/ stale' = [stale EXCEPT ![h] = {}]
    BY Zenon DEF ML!handle, ML!HandleSwap, ML!SwitchFlush
  <2> QED
    BY <1>i, <2>1, Zenon DEF ML!TypeOK
<1>b. /\ mailbox' \in [Harts -> ML!Boxes] /\ local_mail' \in [Harts -> ML!Boxes]
      /\ \A x \in Harts : \/ (mailbox'[x] = mailbox[x] /\ local_mail'[x] = local_mail[x])
                          \/ (mailbox'[x] = local_mail[x] /\ local_mail'[x] = mailbox[x])
  <2>1. CASE mailbox' = mailbox /\ local_mail' = local_mail
    BY <1>i, <2>1, Zenon DEF ML!TypeOK
  <2>2. CASE ML!HandleSwap(h)
    <3>1. /\ mailbox' = [mailbox EXCEPT ![h] = local_mail[h]]
          /\ local_mail' = [local_mail EXCEPT ![h] = mailbox[h]]
          /\ mailbox \in [Harts -> ML!Boxes] /\ local_mail \in [Harts -> ML!Boxes]
      BY <1>i, <2>2, Zenon DEF ML!HandleSwap, ML!TypeOK
    <3> QED
      BY <3>1, Zenon
  <2> QED
    BY <2>1, <2>2, Zenon DEF ML!handle, ML!SwitchFlush
<1>1. ML!TypeOK'
  BY <1>i, <1>k, <1>s, <1>b, Zenon DEF ML!TypeOK
<1>2. Short'
  BY <1>i, <1>b, Zenon DEF Short
<1>3. ASSUME NEW x \in Harts, NEW v \in stale'[x]
      PROVE  \/ ML!Covers(mailbox'[x], v) \/ ML!Covers(local_mail'[x], v)
             \/ ML!Changing(x, v)' \/ ML!Changing(x, "ALL_NO_GLOBAL")'
  <2>1. \/ ML!Covers(mailbox[x], v) \/ ML!Covers(local_mail[x], v)
        \/ ML!Changing(x, v) \/ ML!Changing(x, "ALL_NO_GLOBAL")
    BY <1>i, <1>s, <1>3, Zenon DEF ML!FlushPending
  <2>2. ML!Covers(mailbox[x], v) \/ ML!Covers(local_mail[x], v) => ML!Covers(mailbox'[x], v) \/ ML!Covers(local_mail'[x], v)
    BY <1>b, Zenon
  <2> QED
    BY <1>c, <2>1, <2>2, Zenon
<1>4. ASSUME NEW x \in Harts, x \in icache'
      PROVE  "FENCE_I" \in mailbox'[x].event \cup local_mail'[x].event \/ ML!Changing(x, "FENCE_I")'
  <2>1. "FENCE_I" \in mailbox[x].event \/ "FENCE_I" \in local_mail[x].event \/ ML!Changing(x, "FENCE_I")
    BY <1>i, <1>k, <1>4, Zenon DEF ML!FlushPending
  <2>2. "FENCE_I" \in mailbox[x].event \/ "FENCE_I" \in local_mail[x].event =>
          "FENCE_I" \in mailbox'[x].event \/ "FENCE_I" \in local_mail'[x].event
    BY <1>b, Zenon
  <2> QED
    BY <1>c, <2>1, <2>2, Zenon
<1>5. ML!FlushPending'
  BY <1>3, <1>4, Zenon DEF ML!FlushPending
<1> QED
  BY <1>1, <1>2, <1>5, Zenon DEF MailInv

(* Nothing is stale at the start. *)
LEMMA MailInit == MailConstants /\ ML!Init => MailInv
<1> SUFFICES ASSUME MailConstants, ML!Init PROVE MailInv
  OBVIOUS
<1>1. /\ stale = [h \in Harts |-> {}] /\ icache = {}
      /\ mailbox = [h \in Harts |-> ML!NoMail] /\ local_mail = [h \in Harts |-> ML!NoMail]
      /\ stage = [h \in Harts |-> "out"] /\ work = [h \in Harts |-> ML!Quiet]
  BY Zenon DEF ML!Init
<1>2. /\ ML!NoMail \in ML!Boxes /\ Len(ML!NoMail.spec) <= MAX_SPEC_SFENCE + 1
      /\ ML!Quiet \in [todo : SUBSET Harts, mail : ML!Mails]
  BY DEF ML!NoMail, ML!Boxes, ML!Quiet, ML!Mails, MailConstants
<1>3. ML!TypeOK
  BY <1>1, <1>2, Zenon DEF ML!TypeOK
<1>4. Short
  BY <1>1, <1>2, Zenon DEF Short
<1>5. ML!FlushPending
  BY <1>1, Zenon DEF ML!FlushPending
<1> QED
  BY <1>3, <1>4, <1>5, Zenon DEF MailInv

(* Every step keeps the invariant. *)
LEMMA MailStep == MailConstants /\ MailInv /\ [ML!Next]_(ML!vars) => MailInv'
<1> SUFFICES ASSUME MailConstants, MailInv, [ML!Next]_(ML!vars) PROVE MailInv'
  OBVIOUS
<1>1. CASE ML!Next
  BY <1>1, ChangeInv, RegisterInv, RegisterOwnInv, FlushInv, QuietSteps, Zenon DEF ML!Next
<1>2. CASE UNCHANGED ML!vars
  <2>1. /\ stale' = stale /\ icache' = icache /\ mailbox' = mailbox /\ local_mail' = local_mail
        /\ stage' = stage /\ work' = work
    BY <1>2 DEF ML!vars
  <2>2. ML!TypeOK' /\ Short'
    BY <2>1, Zenon DEF MailInv, ML!TypeOK, Short
  <2>3. \A h, m : ML!Changing(h, m)' <=> ML!Changing(h, m)
    BY <2>1, Zenon DEF ML!Changing
  <2>4. ML!FlushPending'
    BY <2>1, <2>3, Zenon DEF MailInv, ML!FlushPending
  <2> QED
    BY <2>2, <2>4, Zenon DEF MailInv
<1> QED
  BY <1>1, <1>2, Zenon

(* A hart with a stale translation or stale instructions has the flush for   *)
(* them in its mail or will be sent it, and mailboxes stay bounded, for any  *)
(* number of harts and pages and any length of the list.                     *)
THEOREM MailboxIsSafe == ASSUME MailConstants PROVE ML!Spec => []ML!MailboxSafe
<1>1. ML!Init => MailInv
  BY MailInit, Zenon
<1>2. MailInv /\ [ML!Next]_(ML!vars) => MailInv'
  BY MailStep, Zenon
<1>3. MailInv => ML!MailboxSafe
  BY Zenon DEF MailInv, ML!MailboxSafe, ML!MailBounded, Short
<1> QED
  BY <1>1, <1>2, <1>3, PTL DEF ML!Spec
=============================================================================
