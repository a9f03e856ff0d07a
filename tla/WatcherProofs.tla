---------------------------- MODULE WatcherProofs ----------------------------
(* Proofs about ActivityWatcher: that its alerts are true, final, announced  *)
(* once, and that its cursor passes nothing, for any chain and any crashes.  *)
EXTENDS ActivityWatcher, FiniteSetTheorems, SequenceTheorems, TLAPS

(* Where something seen on the chain may be.                                 *)
Placed(x) == x.height \in 1..Len(chain) /\ x.branch <= branch

(* What a block did to the queue follows from what is in it.                 *)
BlockFits(c, h) ==
  LET b == c[h]
      before == NonceAt(c, h - 1)
  IN  /\ \A i \in b.executed : before < i /\ i <= b.nonce /\ i \notin b.lapsed
      /\ \A g \in 1..(h - 1) : c[g].nonce <= before
      /\ before <= b.nonce
      /\ (\E i \in DOMAIN b.txs : b.txs[i] = "executed") /\ b.nonce = before + 1
           => b.nonce \in b.executed

(* Everything has been seen on a chain of these blocks.                      *)
Sighted ==
  /\ WatcherTypeOK
  /\ outbox \in Seq(Record)
  /\ todo \subseteq Log /\ receipts \subseteq Log
  /\ \A x \in records \cup sent \cup todo \cup receipts : Placed(x)
  /\ \A h \in DOMAIN chain : BlockFits(chain, h) /\ chain[h].branch <= branch
  /\ \A log \in todo : log.kind \in LogKinds
  /\ \A c \in receipts :
       Canonical(c) => c.tx \in DOMAIN chain[c.height].txs /\ chain[c.height].txs[c.tx] = c.kind

(* What is on record, or read for the record, is as deep as the confirmed    *)
(* depth, and the cursor is where the records end.                           *)
Deep ==
  /\ \A r \in records \cup sent : r.height + Confirmations <= Len(chain) + 1
  /\ \A c \in receipts : c.height + Confirmations <= latest + 1
  /\ \A r \in records : r.height <= cursor
  /\ \A h \in {cursor, start} : h <= 1 \/ h + Confirmations <= Len(chain) + 1

(* What a run has in hand.                                                   *)
InHand ==
  /\ phase # "logs" => todo = {}
  /\ phase \in {"idle", "reconcile", "fetch"} => fresh = {}

Passed(log) == Recorded(AlertOf(log)) \/ log \in unread

(* Up to where every log has been passed, or is about to be.                 *)
Covered ==
  deepest <= Confirmations =>
    /\ \A log \in Reportable(cursor - 1) : Passed(log)
    /\ phase \in {"reconcile", "fetch"} => \A log \in Reportable(start - 1) : Passed(log)
    /\ phase \in {"logs", "derive"} \cup Looking =>
         \A log \in Reportable(latest - Confirmations) : Passed(log) \/ log \in todo

(* Nothing on record is orphaned, or filed under another block than the one  *)
(* it was seen in.                                                          *)
Final ==
  deepest < Confirmations =>
    /\ \A r \in records \cup sent : Canonical(r)
    /\ \A r \in records : r.seen = r.branch
    /\ \A log \in todo : Confirmed(log.height) => Canonical(log)

(* What has been read about the call in hand is so of its block, for as long *)
(* as that block is canonical.                                              *)
Held ==
  /\ ahead \subseteq receipts
  /\ phase \notin Looking => ahead = {}
  /\ phase \in Looking \ {"canonical"} =>
       LET h == evidence.call.height
       IN  /\ evidence.call \in receipts
           /\ deepest < Confirmations => Canonical(evidence.call)
           /\ Canonical(evidence.call) =>
                /\ evidence.late /\ NonceAt(chain, h - 1) < subject.item
                     => subject.item \in chain[h].lapsed
                /\ phase \in {"after", "queue", "key"} => evidence.before = NonceAt(chain, h - 1)
                /\ phase \in {"queue", "key"} => evidence.after = NonceAt(chain, h)
  /\ phase = "key" => Outcome # "none"

(* What has been announced: it is off the outbox, but for the moment before  *)
(* it is marked, or a run has died then and it is not fresh any more; and    *)
(* once it is off the record, its block is off the chain for good.           *)
Told ==
  /\ \A i, j \in DOMAIN outbox : outbox[i] = outbox[j] => i = j
  /\ \A i \in DOMAIN outbox :
       outbox[i] \in sent /\ outbox[i] \in fresh => phase = "mark" /\ i = 1
  /\ phase = "mark" => outbox # <<>>
  /\ \A r \in sent \ records : ~Canonical(r) /\ \A log \in todo : AlertOf(log) # r

(* What a lifecycle alert says of its block.                                 *)
Lifecycle ==
  \A r \in records :
    Canonical(r) /\ r.seen = r.branch =>
      /\ r.kind = "executed" => r.item \in chain[r.height].executed
      /\ r.kind = "skipped" => /\ r.item \in chain[r.height].lapsed
                               /\ NonceAt(chain, r.height - 1) < r.item
                               /\ r.item <= chain[r.height].nonce

WatcherInv == Sighted /\ Deep /\ InHand /\ Covered /\ Final /\ Held /\ Told /\ Lifecycle

-----------------------------------------------------------------------------
(* Induction over the naturals for a set, by the least number that is not   *)
(* in it.                                                                   *)
LEMMA LeastOf ==
  ASSUME NEW T \in SUBSET Nat, T # {}
  PROVE  \E n \in T : \A m \in T : n <= m
<1>1. PICK n \in T : \A m \in T : ~(<<m, n>> \in OpToRel(<, Nat))
  BY NatLessThanWellFounded, WFMin
<1>2. \A m \in T : ~(m < n)
  BY <1>1 DEF OpToRel
<1>3. n \in T
  BY <1>1
<1>4. \A m \in T : n <= m
  BY <1>2, <1>3
<1> QED BY <1>3, <1>4

LEMMA NumberInduction ==
  ASSUME NEW S, 0 \in S, \A n \in Nat : n \in S => n + 1 \in S
  PROVE  Nat \subseteq S
<1> DEFINE T == Nat \ S
<1>1. SUFFICES ASSUME T # {} PROVE FALSE
  OBVIOUS
<1>2. PICK n \in T : \A m \in T : n <= m
  BY <1>1, LeastOf, T \subseteq Nat
<1>3. n # 0 /\ n - 1 \in Nat /\ n - 1 \notin S
  BY <1>2
<1> QED BY <1>2, <1>3

LEMMA GreatestOf ==
  ASSUME NEW T \in SUBSET Nat, T # {}, NEW bound \in Nat, \A n \in T : n <= bound
  PROVE  Max(T) \in T /\ \A n \in T : n <= Max(T)
<1> DEFINE U == {bound - n : n \in T}
<1>1. U \in SUBSET Nat /\ U # {}
  <2>1. \A n \in T : bound - n \in Nat
    OBVIOUS
  <2> QED BY <2>1
<1>2. PICK u \in U : \A v \in U : u <= v
  BY <1>1, LeastOf
<1>3. PICK n \in T : u = bound - n
  BY <1>2
<1>4. \A m \in T : bound - m \in U /\ m \in Nat
  OBVIOUS
<1>5. \A m \in T : n >= m
  BY <1>2, <1>3, <1>4
<1>6. \E x \in T : \A y \in T : x >= y
  BY <1>3, <1>5
<1>7. Max(T) \in T /\ \A y \in T : Max(T) >= y
  BY <1>6 DEF Max
<1> QED BY <1>7

-----------------------------------------------------------------------------
(* The effects of a block's transactions, one after the other.              *)
LEMMA EffectsDefined ==
  ASSUME NEW c, NEW content, Len(content.txs) \in Nat
  PROVE  LET e == Effects(c, content)
         IN  /\ e[0] = [nonce |-> NonceAt(c, Len(c)), executed |-> {}]
             /\ \A i \in 1..Len(content.txs) :
                  e[i] = After(e[i - 1], content.txs[i], ItemsAt(c, Len(c)), Lapse(c, content))
<1> DEFINE base == [nonce |-> NonceAt(c, Len(c)), executed |-> {}]
           Step(s, i) == After(s, content.txs[i], ItemsAt(c, Len(c)), Lapse(c, content))
           Is(f, n) == f = [i \in 0..n |-> IF i = 0 THEN base ELSE Step(f[i - 1], i)]
           S == {n \in Nat : \E f : Is(f, n)}
<1> HIDE DEF base, Step
<1>1. 0 \in S
  <2>1. Is([i \in 0..0 |-> base], 0)
    OBVIOUS
  <2> QED BY <2>1
<1>2. ASSUME NEW n \in Nat, n \in S PROVE n + 1 \in S
  <2>1. PICK f : Is(f, n)
    BY <1>2
  <2> DEFINE g == [i \in 0..(n + 1) |-> IF i <= n THEN f[i] ELSE Step(f[n], n + 1)]
  <2>2. ASSUME NEW i \in 0..(n + 1)
        PROVE  g[i] = IF i = 0 THEN base ELSE Step(g[i - 1], i)
    <3>1. CASE i = 0
      BY <2>1, <3>1
    <3>2. CASE i \in 1..n
      <4>1. i - 1 \in 0..n /\ i - 1 <= n /\ i \in 0..n
        BY <3>2
      <4>2. g[i] = f[i] /\ g[i - 1] = f[i - 1]
        BY <3>2, <4>1
      <4>3. f[i] = Step(f[i - 1], i)
        BY <2>1, <3>2, <4>1
      <4> QED BY <3>2, <4>2, <4>3
    <3>3. CASE i = n + 1
      <4>1. g[n] = f[n] /\ g[n + 1] = Step(f[n], n + 1) /\ (n + 1) - 1 = n
        OBVIOUS
      <4> QED BY <3>3, <4>1
    <3> QED BY <3>1, <3>2, <3>3
  <2>3. Is(g, n + 1)
    <3> HIDE DEF g
    <3>1. DOMAIN g = 0..(n + 1) /\ g = [i \in 0..(n + 1) |-> g[i]]
      BY DEF g
    <3> QED BY <2>2, <3>1
  <2>4. \E h : Is(h, n + 1)
    <3> HIDE DEF g, Is
    <3> QED BY <2>3
  <2> QED BY <2>4
<1>3. Nat \subseteq S
  <2> HIDE DEF S
  <2> QED BY <1>1, <1>2, NumberInduction
<1>4. \E f : Is(f, Len(content.txs))
  BY <1>3
<1>5. Is(Effects(c, content), Len(content.txs))
  BY <1>4 DEF Effects, base, Step
<1> DEFINE e == Effects(c, content)
           n == Len(content.txs)
           g == [i \in 0..n |-> IF i = 0 THEN base ELSE Step(e[i - 1], i)]
<1>9. e = g
  BY <1>5
<1> HIDE DEF e, Is
<1>10. \A i \in 0..n : g[i] = IF i = 0 THEN base ELSE Step(e[i - 1], i)
  OBVIOUS
<1> HIDE DEF g
<1>6. e[0] = base /\ \A i \in 1..n : e[i] = Step(e[i - 1], i)
  <2>1. 0 \in 0..n /\ \A i \in 1..n : i \in 0..n /\ i # 0
    OBVIOUS
  <2> QED BY <1>9, <1>10, <2>1
<1>7. Effects(c, content)[0] = [nonce |-> NonceAt(c, Len(c)), executed |-> {}]
  BY <1>6 DEF base, e
<1>8. ASSUME NEW i \in 1..Len(content.txs)
      PROVE  Effects(c, content)[i] =
               After(Effects(c, content)[i - 1], content.txs[i], ItemsAt(c, Len(c)), Lapse(c, content))
  BY <1>6 DEF Step, e
<1> QED BY <1>7, <1>8

(* What holds of the effects when the transactions fit: items pass in their *)
(* order, and none is executed that had lapsed.                             *)
Orderly(s, first, lapse) ==
  /\ s \in [nonce : Nat, executed : SUBSET Nat]
  /\ first <= s.nonce
  /\ \A i \in s.executed : first < i /\ lapse < i /\ i <= s.nonce

LEMMA AfterIsOrderly ==
  ASSUME NEW first \in Nat, NEW lapse \in Nat, NEW items \in Nat, NEW s, Orderly(s, first, lapse),
         NEW kind, kind \in {"executed", "cancelled"} => s.nonce < items,
         kind = "executed" => s.nonce >= lapse
  PROVE  /\ Orderly(After(s, kind, items, lapse), first, lapse)
         /\ s.executed # {} \/ kind = "executed" => After(s, kind, items, lapse).executed # {}
<1> DEFINE t == After(s, kind, items, lapse)
<1>1. s.nonce \in Nat /\ s.executed \in SUBSET Nat /\ s = [nonce |-> s.nonce, executed |-> s.executed]
  BY DEF Orderly
<1>2. CASE kind = "executed"
  <2>1. t = [nonce |-> s.nonce + 1, executed |-> s.executed \cup {s.nonce + 1}]
    BY <1>2 DEF After
  <2>2. t.nonce = s.nonce + 1 /\ t.executed = s.executed \cup {s.nonce + 1}
    BY <2>1
  <2>3. t \in [nonce : Nat, executed : SUBSET Nat]
    BY <1>1, <2>1
  <2>4. \A i \in t.executed : first < i /\ lapse < i /\ i <= t.nonce
    BY <1>1, <1>2, <2>2 DEF Orderly
  <2>5. first <= t.nonce
    BY <1>1, <2>2 DEF Orderly
  <2> QED BY <2>2, <2>3, <2>4, <2>5 DEF Orderly
<1>3. CASE kind # "executed"
  <2>1. PICK n \in Nat : n >= s.nonce /\ t = [nonce |-> n, executed |-> s.executed]
    <3>1. CASE kind = "skipped"
      <4>1. t = [nonce |-> Later(s.nonce, lapse), executed |-> s.executed]
        BY <1>1, <3>1 DEF After
      <4>2. Later(s.nonce, lapse) \in Nat /\ Later(s.nonce, lapse) >= s.nonce
        BY <1>1 DEF Later
      <4> QED BY <4>1, <4>2
    <3>2. CASE kind = "cancelled"
      <4>1. t = [nonce |-> items, executed |-> s.executed]
        BY <1>1, <3>2 DEF After
      <4>2. items >= s.nonce
        BY <1>1, <3>2
      <4> QED BY <4>1, <4>2
    <3>3. CASE kind \notin {"skipped", "cancelled"}
      <4>1. t = s
        BY <1>3, <3>3 DEF After
      <4> QED BY <1>1, <4>1
    <3> QED BY <3>1, <3>2, <3>3
  <2>2. t.nonce = n /\ t.executed = s.executed /\ t \in [nonce : Nat, executed : SUBSET Nat]
    BY <1>1, <2>1
  <2> HIDE DEF t
  <2>3. \A i \in t.executed : first < i /\ lapse < i /\ i <= t.nonce
    BY <1>1, <2>1, <2>2 DEF Orderly
  <2>4. first <= t.nonce
    BY <1>1, <2>1, <2>2 DEF Orderly
  <2>5. Orderly(t, first, lapse)
    BY <2>2, <2>3, <2>4 DEF Orderly
  <2> QED BY <1>3, <2>2, <2>5 DEF t
<1> QED BY <1>2, <1>3

LEMMA EffectsAreOrderly ==
  ASSUME NEW c, NEW content, content.txs \in Seq(TxKinds), Lapse(c, content) \in Nat,
         ItemsAt(c, Len(c)) \in Nat, NonceAt(c, Len(c)) \in Nat, Fits(c, content)
  PROVE  LET e == Effects(c, content)[Len(content.txs)]
         IN  /\ Orderly(e, NonceAt(c, Len(c)), Lapse(c, content))
             /\ (\E i \in DOMAIN content.txs : content.txs[i] = "executed") => e.executed # {}
<1> DEFINE first == NonceAt(c, Len(c))
           lapse == Lapse(c, content)
           items == ItemsAt(c, Len(c))
           txs == content.txs
           e == Effects(c, content)
           Holds(n) == /\ Orderly(e[n], first, lapse)
                       /\ (\E i \in 1..n : txs[i] = "executed") => e[n].executed # {}
           S == {n \in Nat : n <= Len(txs) => Holds(n)}
<1>1. Len(txs) \in Nat /\ DOMAIN txs = 1..Len(txs)
  OBVIOUS
<1>2. /\ e[0] = [nonce |-> first, executed |-> {}]
      /\ \A i \in 1..Len(txs) : e[i] = After(e[i - 1], txs[i], items, lapse)
  BY <1>1, EffectsDefined
<1>3. \A i \in 1..Len(txs) :
        /\ txs[i] \in {"executed", "cancelled"} => e[i - 1].nonce < items
        /\ txs[i] = "executed" => e[i - 1].nonce >= lapse
  BY <1>1 DEF Fits
<1> HIDE DEF first, lapse, items, txs, e
<1>4. first \in Nat /\ lapse \in Nat /\ items \in Nat
  BY DEF first, lapse, items
<1>5. Holds(0)
  BY <1>2, <1>4 DEF Orderly
<1>6. ASSUME NEW n \in Nat, n + 1 <= Len(txs), Holds(n) PROVE Holds(n + 1)
  <2>1. n + 1 \in 1..Len(txs) /\ (n + 1) - 1 = n
    BY <1>1, <1>6
  <2>2. /\ e[n + 1] = After(e[n], txs[n + 1], items, lapse)
        /\ txs[n + 1] \in {"executed", "cancelled"} => e[n].nonce < items
        /\ txs[n + 1] = "executed" => e[n].nonce >= lapse
    BY <1>2, <1>3, <2>1
  <2>3. /\ Orderly(e[n + 1], first, lapse)
        /\ e[n].executed # {} \/ txs[n + 1] = "executed" => e[n + 1].executed # {}
    BY <1>4, <1>6, <2>2, AfterIsOrderly
  <2>4. \A i \in 1..(n + 1) : i \in 1..n \/ i = n + 1
    OBVIOUS
  <2> QED BY <1>6, <2>3, <2>4
<1>7. Nat \subseteq S
  <2> HIDE DEF Holds
  <2>1. 0 \in S
    BY <1>5
  <2>2. \A n \in Nat : n \in S => n + 1 \in S
    BY <1>1, <1>6
  <2> HIDE DEF S
  <2> QED BY <2>1, <2>2, NumberInduction
<1>8. Holds(Len(txs))
  <2> HIDE DEF Holds
  <2> QED BY <1>1, <1>7
<1> QED BY <1>1, <1>8 DEF e, txs, first, lapse

(* What is left of a sequence are elements of it, in their order.           *)
LEMMA WithoutDefined ==
  ASSUME NEW seq, NEW gone, Len(seq) \in Nat
  PROVE  \E kept :
           /\ Without(seq, gone) = kept[Len(seq)]
           /\ kept[0] = <<>>
           /\ \A i \in 1..Len(seq) :
                kept[i] = IF seq[i] \in gone THEN kept[i - 1] ELSE Append(kept[i - 1], seq[i])
<1> DEFINE Step(s, i) == IF seq[i] \in gone THEN s ELSE Append(s, seq[i])
           Is(f, n) == f = [i \in 0..n |-> IF i = 0 THEN <<>> ELSE Step(f[i - 1], i)]
           S == {n \in Nat : \E f : Is(f, n)}
<1> HIDE DEF Step
<1>1. 0 \in S
  <2>1. Is([i \in 0..0 |-> <<>>], 0)
    OBVIOUS
  <2> QED BY <2>1
<1>2. ASSUME NEW n \in Nat, n \in S PROVE n + 1 \in S
  <2>1. PICK f : Is(f, n)
    BY <1>2
  <2> DEFINE g == [i \in 0..(n + 1) |-> IF i <= n THEN f[i] ELSE Step(f[n], n + 1)]
  <2>2. ASSUME NEW i \in 0..(n + 1)
        PROVE  g[i] = IF i = 0 THEN <<>> ELSE Step(g[i - 1], i)
    <3>1. CASE i = 0
      BY <2>1, <3>1
    <3>2. CASE i \in 1..n
      <4>1. i - 1 \in 0..n /\ i - 1 <= n /\ i \in 0..n
        BY <3>2
      <4>2. g[i] = f[i] /\ g[i - 1] = f[i - 1]
        BY <3>2, <4>1
      <4>3. f[i] = Step(f[i - 1], i)
        BY <2>1, <3>2, <4>1
      <4> QED BY <3>2, <4>2, <4>3
    <3>3. CASE i = n + 1
      <4>1. g[n] = f[n] /\ g[n + 1] = Step(f[n], n + 1) /\ (n + 1) - 1 = n
        OBVIOUS
      <4> QED BY <3>3, <4>1
    <3> QED BY <3>1, <3>2, <3>3
  <2>3. Is(g, n + 1)
    <3> HIDE DEF g
    <3>1. DOMAIN g = 0..(n + 1) /\ g = [i \in 0..(n + 1) |-> g[i]]
      BY DEF g
    <3> QED BY <2>2, <3>1
  <2>4. \E h : Is(h, n + 1)
    <3> HIDE DEF g, Is
    <3> QED BY <2>3
  <2> QED BY <2>4
<1>3. Nat \subseteq S
  <2> HIDE DEF S
  <2> QED BY <1>1, <1>2, NumberInduction
<1>4. \E f : Is(f, Len(seq))
  BY <1>3
<1> DEFINE kept == CHOOSE f : Is(f, Len(seq))
<1>5. Is(kept, Len(seq))
  BY <1>4
<1>6. Without(seq, gone) = kept[Len(seq)]
  BY DEF Without, Step
<1> DEFINE n == Len(seq)
           g == [i \in 0..n |-> IF i = 0 THEN <<>> ELSE Step(kept[i - 1], i)]
<1>8. kept = g
  BY <1>5
<1> HIDE DEF Is, kept
<1>9. \A i \in 0..n : g[i] = IF i = 0 THEN <<>> ELSE Step(kept[i - 1], i)
  OBVIOUS
<1> HIDE DEF g
<1>7. kept[0] = <<>> /\ \A i \in 1..n : kept[i] = Step(kept[i - 1], i)
  <2>1. 0 \in 0..n /\ \A i \in 1..n : i \in 0..n /\ i # 0
    OBVIOUS
  <2> QED BY <1>8, <1>9, <2>1
<1> QED BY <1>6, <1>7 DEF Step

LEMMA WithoutKeeps ==
  ASSUME NEW R, NEW seq \in Seq(R), NEW gone
  PROVE  LET w == Without(seq, gone)
         IN  /\ w \in Seq(R)
             /\ \A i \in DOMAIN w : w[i] \notin gone /\ \E j \in DOMAIN seq : w[i] = seq[j]
             /\ (\A i, j \in DOMAIN seq : seq[i] = seq[j] => i = j)
                  => \A i, j \in DOMAIN w : w[i] = w[j] => i = j
<1>1. Len(seq) \in Nat /\ DOMAIN seq = 1..Len(seq) /\ \A i \in 1..Len(seq) : seq[i] \in R
  OBVIOUS
<1>2. PICK kept :
        /\ Without(seq, gone) = kept[Len(seq)]
        /\ kept[0] = <<>>
        /\ \A i \in 1..Len(seq) :
             kept[i] = IF seq[i] \in gone THEN kept[i - 1] ELSE Append(kept[i - 1], seq[i])
  BY <1>1, WithoutDefined
<1> DEFINE Distinct(s) == \A i, j \in DOMAIN s : s[i] = s[j] => i = j
           Left(n) == /\ kept[n] \in Seq(R)
                      /\ \A i \in DOMAIN kept[n] :
                           kept[n][i] \notin gone /\ \E j \in 1..n : kept[n][i] = seq[j]
                      /\ Distinct(seq) => Distinct(kept[n])
           S == {n \in Nat : n <= Len(seq) => Left(n)}
<1>3. Left(0)
  <2>1. <<>> \in Seq(R) /\ DOMAIN <<>> = {}
    OBVIOUS
  <2> QED BY <1>2, <2>1
<1>4. ASSUME NEW n \in Nat, n + 1 <= Len(seq), Left(n) PROVE Left(n + 1)
  <2>1. n + 1 \in 1..Len(seq) /\ (n + 1) - 1 = n /\ seq[n + 1] \in R
    BY <1>1, <1>4
  <2>2. CASE seq[n + 1] \in gone
    <3>1. kept[n + 1] = kept[n]
      BY <1>2, <2>1, <2>2
    <3>2. \A j \in 1..n : j \in 1..(n + 1)
      OBVIOUS
    <3> QED BY <1>4, <3>1, <3>2
  <2>3. CASE seq[n + 1] \notin gone
    <3> DEFINE s == kept[n]
               t == kept[n + 1]
    <3>1. t = Append(s, seq[n + 1])
      BY <1>2, <2>1, <2>3
    <3>2. s \in Seq(R)
      BY <1>4
    <3>3. /\ t \in Seq(R) /\ Len(t) = Len(s) + 1 /\ DOMAIN t = 1..(Len(s) + 1) /\ DOMAIN s = 1..Len(s)
          /\ Len(s) \in Nat
          /\ \A i \in 1..Len(s) : t[i] = s[i]
          /\ t[Len(s) + 1] = seq[n + 1]
      BY <2>1, <3>1, <3>2, AppendProperties
    <3> HIDE DEF s, t
    <3>4. \A i \in DOMAIN t : i \in 1..Len(s) \/ i = Len(s) + 1
      BY <3>3
    <3>5. \A i \in DOMAIN s : s[i] \notin gone /\ \E j \in 1..n : s[i] = seq[j]
      BY <1>4 DEF s
    <3>6. \A i \in DOMAIN t : t[i] \notin gone /\ \E j \in 1..(n + 1) : t[i] = seq[j]
      <4>1. \A j \in 1..n : j \in 1..(n + 1)
        OBVIOUS
      <4> QED BY <2>1, <2>3, <3>3, <3>4, <3>5, <4>1
    <3>7. ASSUME Distinct(seq) PROVE Distinct(t)
      <4>1. \A i \in 1..Len(s) : s[i] # seq[n + 1]
        <5>1. \A j \in 1..n : j \in DOMAIN seq /\ j # n + 1
          BY <1>1, <2>1
        <5>2. \A j \in 1..n : seq[j] # seq[n + 1]
          BY <1>1, <2>1, <3>7, <5>1
        <5> QED BY <3>3, <3>5, <5>2
      <4>2. \A i, j \in 1..Len(s) : s[i] = s[j] => i = j
        BY <1>4, <3>3, <3>7 DEF s
      <4> QED BY <3>3, <3>4, <4>1, <4>2
    <3> QED BY <3>3, <3>6, <3>7 DEF t
  <2> QED BY <2>2, <2>3
<1>5. Nat \subseteq S
  <2> HIDE DEF Left
  <2>1. 0 \in S
    BY <1>3
  <2>2. \A n \in Nat : n \in S => n + 1 \in S
    BY <1>1, <1>4
  <2> HIDE DEF S
  <2> QED BY <2>1, <2>2, NumberInduction
<1>6. Left(Len(seq))
  <2> HIDE DEF Left
  <2> QED BY <1>1, <1>5
<1> QED BY <1>1, <1>2, <1>6

-----------------------------------------------------------------------------
(* Numbers of the chain.                                                    *)
LEMMA CountIsNatural ==
  ASSUME NEW txs \in Seq(TxKinds), NEW kind
  PROVE  CountOf(txs, kind) \in Nat
<1>1. DOMAIN txs = 1..Len(txs) /\ Len(txs) \in Nat
  OBVIOUS
<1>2. IsFiniteSet(1..Len(txs))
  BY <1>1, FS_Interval
<1>3. {i \in DOMAIN txs : txs[i] = kind} \subseteq 1..Len(txs)
  BY <1>1
<1>4. IsFiniteSet({i \in DOMAIN txs : txs[i] = kind})
  BY <1>2, <1>3, FS_Subset
<1> QED BY <1>4, FS_CardinalityType DEF CountOf

LEMMA BlockNumbers ==
  ASSUME NEW c \in Seq(Block), NEW h \in 0..Len(c)
  PROVE  ItemsAt(c, h) \in Nat /\ NonceAt(c, h) \in Nat
<1>1. CASE h = 0
  BY <1>1 DEF ItemsAt, NonceAt
<1>2. CASE h # 0
  <2>1. c[h] \in Block
    BY <1>2
  <2> QED BY <1>2, <2>1 DEF ItemsAt, NonceAt, Block
<1> QED BY <1>1, <1>2

LEMMA ItemIsNatural ==
  ASSUME chain \in Seq(Block), NEW h \in 1..Len(chain), NEW i \in DOMAIN chain[h].txs
  PROVE  ItemOf(h, i) \in Nat
<1>1. chain[h] \in Block
  OBVIOUS
<1>11. chain[h].txs \in Seq(TxKinds)
  BY <1>1 DEF Block
<1>2. i \in 1..Len(chain[h].txs) /\ Len(chain[h].txs) \in Nat
  BY <1>11
<1>3. SubSeq(chain[h].txs, 1, i) \in Seq(TxKinds)
  BY <1>11, <1>2, SubSeqProperties
<1>4. CountOf(SubSeq(chain[h].txs, 1, i), "queued") \in Nat
  BY <1>3, CountIsNatural
<1>5. h - 1 \in 0..Len(chain)
  OBVIOUS
<1>6. ItemsAt(chain, h - 1) \in Nat
  BY <1>5, BlockNumbers
<1> QED BY <1>4, <1>6 DEF ItemOf

(* What a log of the chain says.                                            *)
LogAt(h, i) ==
  [height |-> h, branch |-> chain[h].branch, tx |-> i, kind |-> chain[h].txs[i], item |-> ItemOf(h, i)]

LEMMA FoundAt ==
  ASSUME NEW kinds, NEW from, NEW to, NEW x
  PROVE  x \in Found(kinds, from, to) <=>
           \E h \in from..to : \E i \in DOMAIN chain[h].txs : chain[h].txs[i] \in kinds /\ x = LogAt(h, i)
<1> DEFINE In(h) == {LogAt(h, i) : i \in {j \in DOMAIN chain[h].txs : chain[h].txs[j] \in kinds}}
<1>1. Found(kinds, from, to) = UNION {In(h) : h \in from..to}
  BY DEF Found, LogAt
<1>2. \A h : x \in In(h) <=> \E i \in DOMAIN chain[h].txs : chain[h].txs[i] \in kinds /\ x = LogAt(h, i)
  <2> HIDE DEF LogAt
  <2> QED OBVIOUS
<1> HIDE DEF In
<1>3. x \in UNION {In(h) : h \in from..to} <=> \E h \in from..to : x \in In(h)
  OBVIOUS
<1> QED BY <1>1, <1>2, <1>3

LEMMA FoundOnChain ==
  ASSUME chain \in Seq(Block), NEW kinds \in SUBSET TxKinds, NEW from \in Nat \ {0}, NEW to \in Int, to <= Len(chain),
         NEW x \in Found(kinds, from, to)
  PROVE  /\ x \in Log /\ x.kind \in kinds
         /\ x.height \in from..to /\ x.height \in 1..Len(chain)
         /\ Canonical(x)
         /\ x.tx \in DOMAIN chain[x.height].txs /\ chain[x.height].txs[x.tx] = x.kind
<1>1. PICK h \in from..to : \E i \in DOMAIN chain[h].txs : chain[h].txs[i] \in kinds /\ x = LogAt(h, i)
  BY FoundAt
<1>2. PICK i \in DOMAIN chain[h].txs : chain[h].txs[i] \in kinds /\ x = LogAt(h, i)
  BY <1>1
<1>3. h \in 1..Len(chain) /\ h \in Nat
  OBVIOUS
<1>4. ItemOf(h, i) \in Nat
  BY <1>3, ItemIsNatural
<1>9. chain[h] \in Block
  BY <1>3
<1>5. chain[h].branch \in Nat /\ chain[h].txs \in Seq(TxKinds)
  BY <1>9 DEF Block
<1>6. i \in Nat /\ chain[h].txs[i] \in TxKinds
  BY <1>5
<1>7. /\ x.height = h /\ x.branch = chain[h].branch /\ x.tx = i
      /\ x.kind = chain[h].txs[i] /\ x.item = ItemOf(h, i)
  BY <1>2 DEF LogAt
<1>8. x \in Log
  BY <1>2, <1>3, <1>4, <1>5, <1>6 DEF LogAt, Log
<1> QED BY <1>2, <1>3, <1>7, <1>8 DEF Canonical

(* A block that fits on a chain whose blocks fit.                           *)
LEMMA SameBlockFits ==
  ASSUME NEW c, NEW d, NEW h \in Nat \ {0}, \A g \in 1..h : d[g] = c[g], BlockFits(c, h)
  PROVE  BlockFits(d, h)
<1>1. d[h] = c[h] /\ NonceAt(d, h - 1) = NonceAt(c, h - 1) /\ \A g \in 1..(h - 1) : d[g] = c[g]
  BY DEF NonceAt
<1> QED BY <1>1 DEF BlockFits

LEMMA ExtendedFits ==
  ASSUME NEW c \in Seq(Block), \A h \in DOMAIN c : BlockFits(c, h),
         NEW content \in Contents, Fits(c, content), NEW b \in Nat
  PROVE  LET d == Extended(c, content, b)
         IN  /\ d \in Seq(Block) /\ Len(d) = Len(c) + 1
             /\ \A h \in 1..Len(c) : d[h] = c[h]
             /\ d[Len(c) + 1].branch = b
             /\ \A h \in DOMAIN d : BlockFits(d, h)
<1> DEFINE n == Len(c)
           first == NonceAt(c, n)
           lapse == Lapse(c, content)
           e == Effects(c, content)[Len(content.txs)]
           block == [branch |-> b, txs |-> content.txs,
                     items |-> ItemsAt(c, n) + CountOf(content.txs, "queued"),
                     nonce |-> e.nonce, executed |-> e.executed, lapsed |-> first + 1 .. lapse]
           d == Extended(c, content, b)
<1>1. n \in Nat /\ DOMAIN c = 1..n /\ n \in 0..Len(c)
  OBVIOUS
<1>2. content.txs \in Seq(TxKinds) /\ content.lapsed \in Nat
  BY WatcherAssumption
<1>3. first \in Nat /\ ItemsAt(c, n) \in Nat
  BY <1>1, BlockNumbers
<1>4. lapse \in Nat
  BY <1>2, <1>3 DEF Lapse
<1>5. /\ Orderly(e, first, lapse)
      /\ (\E i \in DOMAIN content.txs : content.txs[i] = "executed") => e.executed # {}
  BY <1>2, <1>3, <1>4, EffectsAreOrderly
<1>6. d = Append(c, block)
  BY DEF Extended
<1>7. CountOf(content.txs, "queued") \in Nat
  BY <1>2, CountIsNatural
<1> HIDE DEF first, lapse, e, d
<1>8. e.nonce \in Nat /\ e.executed \in SUBSET Nat
  BY <1>5 DEF Orderly
<1>9. first + 1 .. lapse \in SUBSET Nat
  BY <1>3, <1>4
<1>10. block \in Block
  BY <1>2, <1>3, <1>7, <1>8, <1>9 DEF Block
<1>11. /\ block.branch = b /\ block.txs = content.txs /\ block.nonce = e.nonce
       /\ block.executed = e.executed /\ block.lapsed = first + 1 .. lapse
  OBVIOUS
<1> HIDE DEF block
<1>12. /\ d \in Seq(Block) /\ Len(d) = n + 1 /\ DOMAIN d = 1..(n + 1)
       /\ \A h \in 1..n : d[h] = c[h]
       /\ d[n + 1] = block
  BY <1>1, <1>6, <1>10, AppendProperties
<1>13. ASSUME NEW h \in 1..n PROVE BlockFits(d, h)
  <2>1. h \in Nat \ {0} /\ \A g \in 1..h : d[g] = c[g]
    BY <1>1, <1>12
  <2> QED BY <1>1, <2>1, SameBlockFits
<1>14. BlockFits(d, n + 1)
  <2>1. (n + 1) - 1 = n
    BY <1>1
  <2>2. NonceAt(d, n) = first
    BY <1>1, <1>12 DEF NonceAt, first
  <2>3. \A i \in block.executed : first < i /\ i <= block.nonce /\ i \notin block.lapsed
    BY <1>3, <1>4, <1>5, <1>8, <1>11 DEF Orderly
  <2>4. first <= block.nonce
    BY <1>5, <1>11 DEF Orderly
  <2>5. ASSUME NEW g \in 1..n PROVE d[g].nonce <= first
    <3>1. n \in DOMAIN c /\ BlockFits(c, n) /\ first = c[n].nonce
      BY <1>1 DEF NonceAt, first
    <3>5. d[g] = c[g] /\ c[g] \in Block
      BY <1>1, <1>12
    <3>2. d[g] = c[g] /\ c[g].nonce \in Nat
      BY <3>5 DEF Block
    <3>3. CASE g = n
      BY <1>3, <3>1, <3>2, <3>3
    <3>4. CASE g # n
      <4>1. g \in 1..(n - 1)
        <5> HIDE DEF n
        <5>1. g \in Nat /\ g <= n /\ 1 <= g
          BY <1>1
        <5> QED BY <1>1, <3>4, <5>1
      <4>2. c[g].nonce <= NonceAt(c, n - 1) /\ NonceAt(c, n - 1) <= c[n].nonce
        BY <3>1, <4>1 DEF BlockFits
      <4>3. n - 1 \in 0..Len(c)
        BY <1>1
      <4>4. NonceAt(c, n - 1) \in Nat
        BY <4>3, BlockNumbers
      <4> QED BY <1>3, <3>1, <3>2, <4>2, <4>4
    <3> QED BY <3>3, <3>4
  <2>6. (\E i \in DOMAIN block.txs : block.txs[i] = "executed") /\ block.nonce = first + 1
          => block.nonce \in block.executed
    <3>1. SUFFICES ASSUME e.executed # {}, e.nonce = first + 1 PROVE e.nonce \in e.executed
      BY <1>5, <1>11
    <3>2. PICK i \in e.executed : first < i /\ i <= first + 1 /\ i \in Nat
      BY <1>8, <3>1, <1>11, <2>3
    <3>3. i = e.nonce
      BY <1>3, <3>1, <3>2
    <3> QED BY <3>2, <3>3
  <2> QED BY <1>12, <2>1, <2>2, <2>3, <2>4, <2>5, <2>6 DEF BlockFits
<1>15. \A h \in DOMAIN d : h \in 1..n \/ h = n + 1
  BY <1>1, <1>12
<1> QED BY <1>1, <1>11, <1>12, <1>13, <1>14, <1>15 DEF d

-----------------------------------------------------------------------------
(* What a step of the chain leaves alone: the blocks up to some height; the  *)
(* others are of a new branch, and no more of them are gone than the deepest *)
(* reorganisation says.                                                      *)
Keeps(keep) ==
  /\ keep \in 0..Len(chain)
  /\ chain' \in Seq(Block) /\ Len(chain) <= Len(chain')
  /\ \A h \in 1..keep : chain'[h] = chain[h]
  /\ \A h \in (keep + 1)..Len(chain') : chain'[h].branch = branch'
  /\ \A h \in DOMAIN chain' : BlockFits(chain', h)
  /\ deepest' \in 0..MaxDepth /\ deepest <= deepest'
  /\ \/ keep = Len(chain) /\ branch' = branch
     \/ branch' = branch + 1 /\ Len(chain) - keep <= deepest'

LEMMA PrefixFits ==
  ASSUME chain \in Seq(Block), \A h \in DOMAIN chain : BlockFits(chain, h), NEW n \in 0..Len(chain)
  PROVE  LET kept == SubSeq(chain, 1, n)
         IN  /\ kept \in Seq(Block) /\ Len(kept) = n
             /\ \A h \in 1..n : kept[h] = chain[h]
             /\ \A h \in DOMAIN kept : BlockFits(kept, h)
<1> DEFINE kept == SubSeq(chain, 1, n)
<1>1. n \in Nat /\ Len(chain) \in Nat /\ DOMAIN chain = 1..Len(chain)
  OBVIOUS
<1>2. /\ kept \in Seq(Block) /\ Len(kept) = n
      /\ \A h \in 1..n : kept[h] = chain[h]
  <2>1. CASE n = 0
    <3>1. kept = <<>>
      BY <2>1
    <3> QED BY <2>1, <3>1
  <2>2. CASE n # 0
    <3>1. 1 \in 1..(n + 1) /\ n \in 0..Len(chain)
      BY <1>1, <2>2
    <3>2. kept \in Seq(Block) /\ Len(kept) = n - 1 + 1 /\ \A h \in 1..(n - 1 + 1) : kept[h] = chain[1 + h - 1]
      BY <1>1, <2>2, <3>1, SubSeqProperties
    <3> HIDE DEF kept
    <3>3. n - 1 + 1 = n /\ \A h \in 1..n : 1 + h - 1 = h
      BY <1>1
    <3> QED BY <3>2, <3>3
  <2> QED BY <2>1, <2>2
<1> HIDE DEF kept
<1>3. ASSUME NEW h \in DOMAIN kept PROVE BlockFits(kept, h)
  <2>1. h \in Nat \ {0} /\ h \in DOMAIN chain /\ \A g \in 1..h : kept[g] = chain[g]
    BY <1>1, <1>2
  <2> QED BY <2>1, SameBlockFits
<1> QED BY <1>2, <1>3 DEF kept

LEMMA MineKeeps ==
  ASSUME Sighted, NEW content \in Contents, Mine(content)
  PROVE  Keeps(Len(chain))
<1>1. chain \in Seq(Block) /\ branch \in Nat /\ deepest \in 0..MaxDepth /\ Len(chain) \in Nat
  BY DEF Sighted, WatcherTypeOK
<1>2. \A h \in DOMAIN chain : BlockFits(chain, h)
  BY DEF Sighted
<1>3. Fits(chain, content) /\ chain' = Extended(chain, content, branch) /\ branch' = branch /\ deepest' = deepest
  BY DEF Mine
<1>4. /\ chain' \in Seq(Block) /\ Len(chain') = Len(chain) + 1
      /\ \A h \in 1..Len(chain) : chain'[h] = chain[h]
      /\ chain'[Len(chain) + 1].branch = branch
      /\ \A h \in DOMAIN chain' : BlockFits(chain', h)
  BY <1>1, <1>2, <1>3, ExtendedFits
<1>5. \A h \in (Len(chain) + 1)..Len(chain') : h = Len(chain) + 1
  BY <1>1, <1>4
<1>6. \A h \in (Len(chain) + 1)..Len(chain') : chain'[h].branch = branch'
  BY <1>3, <1>4, <1>5
<1>7. Len(chain) <= Len(chain') /\ deepest <= deepest' /\ deepest' \in 0..MaxDepth /\ Len(chain) \in 0..Len(chain)
  BY <1>1, <1>3, <1>4, WatcherAssumption
<1> QED BY <1>3, <1>4, <1>6, <1>7 DEF Keeps

LEMMA ReorganiseKeeps ==
  ASSUME Sighted, NEW content \in Contents, NEW rest,
         rest = <<>> \/ \E next \in Contents : rest = <<next>>, Reorganise(content, rest), 1 + Len(rest) <= MaxDepth
  PROVE  Keeps(Len(chain) - (1 + Len(rest)))
<1> DEFINE depth == 1 + Len(rest)
           keep == Len(chain) - depth
           kept == SubSeq(chain, 1, keep)
           first == Extended(kept, content, branch + 1)
<1>1. chain \in Seq(Block) /\ branch \in Nat /\ deepest \in 0..MaxDepth /\ Len(chain) \in Nat
  BY DEF Sighted, WatcherTypeOK
<1>2. \A h \in DOMAIN chain : BlockFits(chain, h)
  BY DEF Sighted
<1>3. \/ rest = <<>> /\ Len(rest) = 0
      \/ \E next \in Contents : rest = <<next>> /\ Len(rest) = 1 /\ rest[1] = next
  OBVIOUS
<1>4. /\ depth <= Len(chain) /\ Fits(kept, content)
      /\ branch' = branch + 1 /\ deepest' = Later(deepest, depth)
      /\ IF rest = <<>> THEN chain' = first
         ELSE Fits(first, rest[1]) /\ chain' = Extended(first, rest[1], branch + 1)
  BY DEF Reorganise
<1>5. depth \in {1, 2} /\ keep \in 0..Len(chain) /\ keep \in Nat /\ Len(chain) - keep = depth
  <2>1. \A n : n = 0 \/ n = 1 => 1 + n \in {1, 2}
    OBVIOUS
  <2>2. depth \in {1, 2}
    <3>1. Len(rest) = 0 \/ Len(rest) = 1
      BY <1>3
    <3> QED BY <2>1, <3>1, Zenon
  <2>3. depth <= Len(chain)
    BY <1>4
  <2> HIDE DEF depth
  <2> QED BY <1>1, <2>2, <2>3
<1>6. /\ deepest' \in 0..MaxDepth /\ deepest <= deepest' /\ depth <= deepest'
  BY <1>1, <1>4, <1>5, WatcherAssumption DEF Later
<1> HIDE DEF kept, first, keep, depth
<1>7. /\ kept \in Seq(Block) /\ Len(kept) = keep
      /\ \A h \in 1..keep : kept[h] = chain[h]
      /\ \A h \in DOMAIN kept : BlockFits(kept, h)
  BY <1>1, <1>2, <1>5, PrefixFits DEF kept
<1>8. branch + 1 \in Nat
  BY <1>1
<1>9. /\ first \in Seq(Block) /\ Len(first) = keep + 1
      /\ \A h \in 1..keep : first[h] = kept[h]
      /\ first[keep + 1].branch = branch + 1
      /\ \A h \in DOMAIN first : BlockFits(first, h)
  BY <1>4, <1>7, <1>8, ExtendedFits DEF first
<1>10. /\ chain' \in Seq(Block) /\ Len(chain') = Len(chain)
       /\ \A h \in 1..keep : chain'[h] = kept[h]
       /\ \A h \in (keep + 1)..Len(chain') : chain'[h].branch = branch + 1
       /\ \A h \in DOMAIN chain' : BlockFits(chain', h)
  <2>1. CASE rest = <<>>
    <3>1. depth = 1 /\ chain' = first /\ Len(chain) = keep + 1
      BY <1>1, <1>3, <1>4, <1>5, <2>1 DEF depth
    <3>2. \A h \in (keep + 1)..(keep + 1) : h = keep + 1
      BY <1>5
    <3> QED BY <1>9, <3>1, <3>2
  <2>2. CASE rest # <<>>
    <3>1. PICK next \in Contents : rest = <<next>> /\ Len(rest) = 1 /\ rest[1] = next
      BY <1>3, <2>2
    <3>2. depth = 2 /\ Fits(first, next) /\ chain' = Extended(first, next, branch + 1) /\ Len(chain) = keep + 2
      BY <1>1, <1>4, <1>5, <2>2, <3>1 DEF depth
    <3>3. /\ chain' \in Seq(Block) /\ Len(chain') = Len(first) + 1
          /\ \A h \in 1..Len(first) : chain'[h] = first[h]
          /\ chain'[Len(first) + 1].branch = branch + 1
          /\ \A h \in DOMAIN chain' : BlockFits(chain', h)
      BY <1>8, <1>9, <3>2, ExtendedFits
    <3>4. Len(first) = keep + 1 /\ Len(first) + 1 = keep + 2 /\ Len(chain') = Len(chain)
      BY <1>5, <1>9, <3>2, <3>3
    <3>5. \A h \in 1..keep : h \in 1..Len(first)
      BY <1>5, <3>4
    <3>6. \A h \in (keep + 1)..(keep + 2) : h = keep + 1 \/ h = keep + 2
      BY <1>5
    <3>7. keep + 1 \in 1..Len(first)
      BY <1>5, <3>4
    <3>8. chain'[keep + 1].branch = branch + 1 /\ chain'[keep + 2].branch = branch + 1
      BY <1>9, <3>3, <3>4, <3>7
    <3>9. \A h \in (keep + 1)..Len(chain') : chain'[h].branch = branch + 1
      BY <3>2, <3>4, <3>6, <3>8
    <3>10. \A h \in 1..keep : chain'[h] = kept[h]
      BY <1>9, <3>3, <3>5
    <3> QED BY <3>3, <3>4, <3>9, <3>10
  <2> QED BY <2>1, <2>2
<1>11. \A h \in 1..keep : chain'[h] = chain[h]
  BY <1>7, <1>10
<1>12. Keeps(keep)
  BY <1>1, <1>4, <1>5, <1>6, <1>10, <1>11 DEF Keeps
<1> QED BY <1>12 DEF keep, depth

LEMMA ChainStepKeeps ==
  ASSUME Sighted, ChainStep
  PROVE  (\E keep : Keeps(keep)) /\ UNCHANGED <<lock, ledger, phase, run, history>>
<1>1. CASE \E content \in Contents : Mine(content)
  <2>1. PICK content \in Contents : Mine(content)
    BY <1>1
  <2> QED BY <2>1, MineKeeps DEF Mine
<1>2. CASE MaxDepth >= 1 /\ \E content \in Contents : Reorganise(content, <<>>)
  <2>1. PICK content \in Contents : Reorganise(content, <<>>)
    BY <1>2
  <2>2. 1 + Len(<<>>) <= MaxDepth
    BY <1>2, WatcherAssumption
  <2>3. Keeps(Len(chain) - (1 + Len(<<>>)))
    BY <2>1, <2>2, ReorganiseKeeps
  <2> QED BY <2>1, <2>3 DEF Reorganise
<1>3. CASE MaxDepth >= 2 /\ \E content, next \in Contents : Reorganise(content, <<next>>)
  <2>1. PICK content \in Contents, next \in Contents : Reorganise(content, <<next>>)
    BY <1>3
  <2>2. 1 + Len(<<next>>) <= MaxDepth
    BY <1>3, WatcherAssumption
  <2>3. Keeps(Len(chain) - (1 + Len(<<next>>)))
    BY <2>1, <2>2, ReorganiseKeeps
  <2> QED BY <2>1, <2>3 DEF Reorganise
<1> QED BY <1>1, <1>2, <1>3 DEF ChainStep

LEMMA CanonicalKept ==
  ASSUME chain \in Seq(Block), branch \in Nat, NEW keep, Keeps(keep),
         NEW x, Placed(x), x.branch \in Nat
  PROVE  Canonical(x)' <=> Canonical(x) /\ x.height <= keep
<1>1. x.height \in 1..Len(chain) /\ x.branch <= branch /\ Len(chain) \in Nat
  BY DEF Placed
<1>2. CASE x.height <= keep
  <2>1. chain'[x.height] = chain[x.height]
    BY <1>1, <1>2 DEF Keeps
  <2> QED BY <1>2, <2>1 DEF Canonical
<1>3. CASE ~(x.height <= keep)
  <2>1. keep \in Nat /\ Len(chain') \in Nat /\ x.height \in (keep + 1)..Len(chain')
    BY <1>1, <1>3 DEF Keeps
  <2>2. chain'[x.height].branch = branch'
    BY <2>1 DEF Keeps
  <2>3. branch' = branch + 1
    BY <1>1, <1>3 DEF Keeps
  <2>4. ~Canonical(x)'
    BY <1>1, <2>2, <2>3 DEF Canonical
  <2> QED BY <1>3, <2>4
<1> QED BY <1>2, <1>3

LEMMA FoundAtNext ==
  ASSUME NEW kinds, NEW from, NEW to, NEW x
  PROVE  x \in Found(kinds, from, to)' <=>
           \E h \in from..to :
             \E i \in DOMAIN chain'[h].txs : chain'[h].txs[i] \in kinds /\ x = LogAt(h, i)'
<1> DEFINE In(h) == {LogAt(h, i)' : i \in {j \in DOMAIN chain'[h].txs : chain'[h].txs[j] \in kinds}}
<1>1. Found(kinds, from, to)' = UNION {In(h) : h \in from..to}
  BY DEF Found, LogAt
<1>2. \A h : x \in In(h) <=> \E i \in DOMAIN chain'[h].txs : chain'[h].txs[i] \in kinds /\ x = LogAt(h, i)'
  <2> HIDE DEF LogAt
  <2> QED OBVIOUS
<1> HIDE DEF In
<1>3. x \in UNION {In(h) : h \in from..to} <=> \E h \in from..to : x \in In(h)
  OBVIOUS
<1> QED BY <1>1, <1>2, <1>3

LEMMA ReportableKept ==
  ASSUME chain \in Seq(Block), NEW keep \in 0..Len(chain), NEW to \in Int, to <= keep,
         \A h \in 1..keep : chain'[h] = chain[h], NEW x, x \in Reportable(to)'
  PROVE  x \in Reportable(to)
<1>1. x \in Found(LogKinds, 1, to)' /\ Alertable(x) /\ ~Superseded(x)'
  BY DEF Reportable, Alertable
<1>10. PICK h \in 1..to :
         \E i \in DOMAIN chain'[h].txs : chain'[h].txs[i] \in LogKinds /\ x = LogAt(h, i)'
  BY <1>1, FoundAtNext
<1>2. PICK i \in DOMAIN chain'[h].txs : chain'[h].txs[i] \in LogKinds /\ x = LogAt(h, i)'
  BY <1>10
<1>3. h \in 1..keep /\ h \in Nat /\ chain'[h] = chain[h]
  OBVIOUS
<1>4. ItemsAt(chain', h - 1) = ItemsAt(chain, h - 1)
  <2>1. CASE h = 1
    BY <2>1 DEF ItemsAt
  <2>2. CASE h # 1
    <3>1. h - 1 \in 1..keep
      BY <1>3, <2>2
    <3> QED BY <3>1 DEF ItemsAt
  <2> QED BY <2>1, <2>2
<1>5. ItemOf(h, i)' = ItemOf(h, i)
  BY <1>3, <1>4 DEF ItemOf
<1>6. LogAt(h, i)' = LogAt(h, i)
  BY <1>3, <1>5 DEF LogAt
<1>7. x \in Found(LogKinds, 1, to)
  BY <1>2, <1>3, <1>6, FoundAt
<1>8. x.height = h
  BY <1>2, <1>6 DEF LogAt
<1>9. ~Superseded(x)
  BY <1>1, <1>3, <1>8 DEF Superseded, Canonical
<1> QED BY <1>1, <1>7, <1>9 DEF Reportable

LEMMA ReportableOnChain ==
  ASSUME chain \in Seq(Block), NEW to \in Int, to <= Len(chain), NEW x \in Reportable(to)
  PROVE  /\ x \in Log /\ x.height \in 1..to
         /\ Canonical(x) /\ Alertable(x) /\ ~Superseded(x)
         /\ \A other \in Int : x.height <= other => x \in Reportable(other)
         /\ \A from \in Nat, last \in Int :
              from <= x.height /\ x.height <= last => x \in Found(LogKinds, from, last)
<1>1. x \in Found(LogKinds, 1, to) /\ Alertable(x) /\ ~Superseded(x)
  BY DEF Reportable
<1>2. LogKinds \in SUBSET TxKinds
  BY DEF LogKinds, TxKinds
<1>3. x \in Log /\ x.height \in 1..to /\ Canonical(x)
  BY <1>1, <1>2, FoundOnChain
<1>4. PICK h \in 1..to :
        \E i \in DOMAIN chain[h].txs : chain[h].txs[i] \in LogKinds /\ x = LogAt(h, i)
  BY <1>1, FoundAt
<1>5. x.height = h
  BY <1>4 DEF LogAt
<1>6. \A from, last \in Int : from <= h /\ h <= last => h \in from..last
  OBVIOUS
<1>7. \A from, last \in Int : from <= h /\ h <= last => x \in Found(LogKinds, from, last)
  BY <1>4, <1>6, FoundAt
<1>8. ASSUME NEW other \in Int, x.height <= other PROVE x \in Reportable(other)
  <2>1. x \in Found(LogKinds, 1, other)
    BY <1>5, <1>7, <1>8
  <2> QED BY <1>1, <2>1 DEF Reportable
<1> QED BY <1>1, <1>3, <1>5, <1>7, <1>8

(* What the chain says while it does not move.                              *)
LEMMA ChainIsStill ==
  ASSUME chain \in Seq(Block), UNCHANGED environment
  PROVE  /\ \A x : Canonical(x)' <=> Canonical(x)
         /\ \A x : Placed(x)' <=> Placed(x)
         /\ \A to \in Int : to <= Len(chain) => \A x \in Reportable(to)' : x \in Reportable(to)
<1>1. chain' = chain /\ branch' = branch
  BY DEF environment
<1>2. ASSUME NEW to \in Int, to <= Len(chain), NEW x \in Reportable(to)' PROVE x \in Reportable(to)
  <2>1. Len(chain) \in 0..Len(chain) /\ \A h \in 1..Len(chain) : chain'[h] = chain[h]
    BY <1>1
  <2> QED BY <1>2, <2>1, ReportableKept
<1>3. \A x : Canonical(x)' <=> Canonical(x)
  BY <1>1 DEF Canonical
<1>4. \A x : Placed(x)' <=> Placed(x)
  BY <1>1 DEF Placed
<1> QED BY <1>2, <1>3, <1>4

-----------------------------------------------------------------------------
(* The chain moves.                                                         *)
LEMMA ChainStepHolds ==
  ASSUME WatcherInv, ChainStep
  PROVE  WatcherInv'
<1>1. Sighted /\ Deep /\ InHand /\ Covered /\ Final /\ Held /\ Told /\ Lifecycle
  BY DEF WatcherInv
<1>2. PICK keep : Keeps(keep)
  BY <1>1, ChainStepKeeps
<1>3. UNCHANGED <<lock, cursor, records, outbox, phase, latest, start, todo, receipts, derivable,
                  fresh, subject, ahead, evidence, sent, unread>>
  BY <1>1, ChainStepKeeps DEF ledger, run, looking, history
<1>4. /\ chain \in Seq(Block) /\ branch \in Nat /\ deepest \in 0..MaxDepth /\ Len(chain) \in Nat
      /\ cursor \in 0..Len(chain) /\ latest \in 0..Len(chain) /\ start \in 1..(Len(chain) + 1)
      /\ Confirmations \in Nat \ {0}
  BY <1>1, WatcherAssumption DEF Sighted, WatcherTypeOK
<1>5. /\ keep \in 0..Len(chain) /\ keep \in Nat
      /\ chain' \in Seq(Block) /\ Len(chain) <= Len(chain') /\ Len(chain') \in Nat
      /\ deepest' \in 0..MaxDepth /\ deepest <= deepest'
      /\ branch' \in Nat /\ branch <= branch'
      /\ Len(chain) - keep <= deepest'
  BY <1>2, <1>4, WatcherAssumption DEF Keeps
<1>6. \A h \in 1..keep : chain'[h] = chain[h]
  BY <1>2 DEF Keeps
<1>7. ASSUME NEW x, x \in records \cup sent \cup todo \cup receipts
      PROVE  /\ x.height \in 1..Len(chain) /\ x.branch \in Nat /\ Placed(x) /\ Placed(x)'
             /\ Canonical(x)' <=> Canonical(x) /\ x.height <= keep
  <2>1. Placed(x)
    BY <1>1, <1>7 DEF Sighted
  <2>2. x \in Record \/ x \in Log
    BY <1>1, <1>7 DEF Sighted, WatcherTypeOK
  <2>3. x.branch \in Nat
    BY <2>2 DEF Record, Log
  <2>4. Canonical(x)' <=> Canonical(x) /\ x.height <= keep
    BY <1>2, <1>4, <2>1, <2>3, CanonicalKept
  <2>5. x.height \in 1..Len(chain) /\ Placed(x)'
    BY <1>4, <1>5, <2>1, <2>3 DEF Placed
  <2> QED BY <2>1, <2>3, <2>4, <2>5
<1>8. Sighted'
  <2>1. WatcherTypeOK'
    BY <1>1, <1>3, <1>4, <1>5 DEF Sighted, WatcherTypeOK
  <2>2. (outbox \in Seq(Record) /\ todo \subseteq Log /\ receipts \subseteq Log)'
    BY <1>1, <1>3 DEF Sighted
  <2>3. \A x \in records' \cup sent' \cup todo' \cup receipts' : Placed(x)'
    BY <1>3, <1>7
  <2>4. ASSUME NEW h \in DOMAIN chain' PROVE BlockFits(chain', h) /\ chain'[h].branch <= branch'
    <3>1. BlockFits(chain', h) /\ h \in 1..Len(chain')
      BY <1>2, <1>5 DEF Keeps
    <3>2. CASE h <= keep
      <4>1. chain'[h] = chain[h] /\ h \in DOMAIN chain
        BY <1>4, <1>5, <1>6, <3>1, <3>2
      <4>2. chain[h] \in Block /\ chain[h].branch <= branch
        BY <1>1, <1>4, <4>1 DEF Sighted
      <4>3. chain[h].branch \in Nat
        BY <4>2 DEF Block
      <4> QED BY <1>4, <1>5, <3>1, <4>1, <4>2, <4>3
    <3>3. CASE ~(h <= keep)
      <4>1. h \in (keep + 1)..Len(chain')
        BY <1>5, <3>1, <3>3
      <4>2. chain'[h].branch = branch'
        BY <1>2, <4>1 DEF Keeps
      <4> QED BY <1>5, <3>1, <4>2
    <3> QED BY <3>2, <3>3
  <2>5. \A log \in todo' : log.kind \in LogKinds
    BY <1>1, <1>3 DEF Sighted
  <2>6. ASSUME NEW c \in receipts', Canonical(c)'
        PROVE  c.tx \in DOMAIN chain'[c.height].txs /\ chain'[c.height].txs[c.tx] = c.kind
    <3>1. c \in receipts /\ Canonical(c) /\ c.height \in 1..keep
      BY <1>3, <1>5, <1>7, <2>6
    <3>2. c.tx \in DOMAIN chain[c.height].txs /\ chain[c.height].txs[c.tx] = c.kind
      BY <1>1, <3>1 DEF Sighted
    <3> QED BY <1>6, <3>1, <3>2
  <2> QED BY <2>1, <2>2, <2>3, <2>4, <2>5, <2>6 DEF Sighted
<1>9. Deep'
  <2>1. \A r \in records \cup sent : r.height \in Nat /\ r.height + Confirmations <= Len(chain) + 1
    BY <1>1, <1>7 DEF Deep
  <2>2. \A r \in records' \cup sent' : r.height + Confirmations <= Len(chain') + 1
    BY <1>3, <1>4, <1>5, <2>1
  <2>3. \A h \in {cursor, start} : h <= 1 \/ h + Confirmations <= Len(chain) + 1
    BY <1>1 DEF Deep
  <2>4. \A h \in {cursor', start'} : h <= 1 \/ h + Confirmations <= Len(chain') + 1
    BY <1>3, <1>4, <1>5, <2>3
  <2>5. /\ \A c \in receipts' : c.height + Confirmations <= latest' + 1
        /\ \A r \in records' : r.height <= cursor'
    BY <1>1, <1>3 DEF Deep
  <2> QED BY <2>2, <2>4, <2>5 DEF Deep
<1>10. InHand'
  BY <1>1, <1>3 DEF InHand
<1>11. Covered'
  <2>1. SUFFICES ASSUME deepest' <= Confirmations
                 PROVE  /\ \A log \in Reportable(cursor - 1)' : Passed(log)'
                        /\ phase' \in {"reconcile", "fetch"} =>
                             \A log \in Reportable(start - 1)' : Passed(log)'
                        /\ phase' \in {"logs", "derive"} \cup Looking =>
                             \A log \in Reportable(latest - Confirmations)' : Passed(log)' \/ log \in todo'
    BY DEF Covered
  <2>2. deepest <= Confirmations /\ keep >= Len(chain) - Confirmations
    BY <1>4, <1>5, <2>1
  <2>3. \A log : Passed(log)' <=> Passed(log)
    BY <1>3 DEF Passed, Recorded
  <2>4. \A h \in {cursor, start} : h <= 1 \/ h + Confirmations <= Len(chain) + 1
    BY <1>1 DEF Deep
  <2>5. \A to \in {cursor - 1, start - 1, latest - Confirmations} : to \in Int /\ to <= keep
    BY <1>4, <1>5, <2>2, <2>4
  <2>6. ASSUME NEW to \in {cursor - 1, start - 1, latest - Confirmations}, NEW x \in Reportable(to)'
        PROVE  x \in Reportable(to)
    BY <1>4, <1>5, <1>6, <2>5, <2>6, ReportableKept
  <2>7. /\ Reportable(cursor - 1)' \subseteq Reportable(cursor - 1)
        /\ Reportable(start - 1)' \subseteq Reportable(start - 1)
        /\ Reportable(latest - Confirmations)' \subseteq Reportable(latest - Confirmations)
    <3>1. \A to \in {cursor - 1, start - 1, latest - Confirmations} :
            \A x \in Reportable(to)' : x \in Reportable(to)
      BY <2>6
    <3>2. cursor' = cursor /\ start' = start /\ latest' = latest
      BY <1>3
    <3> QED BY <3>1, <3>2
  <2> QED BY <1>1, <1>3, <2>2, <2>3, <2>7 DEF Covered
<1>12. Final'
  <2>1. SUFFICES ASSUME deepest' < Confirmations
                 PROVE  /\ \A r \in records' \cup sent' : Canonical(r)'
                        /\ \A r \in records' : r.seen = r.branch
                        /\ \A log \in todo' : Confirmed(log.height)' => Canonical(log)'
    BY DEF Final
  <2>2. deepest < Confirmations /\ keep >= Len(chain) - Confirmations + 1
    BY <1>4, <1>5, <2>1
  <2>3. ASSUME NEW r \in records \cup sent PROVE Canonical(r)'
    <3>1. Canonical(r) /\ r.height + Confirmations <= Len(chain) + 1
      BY <1>1, <2>2 DEF Final, Deep
    <3>2. r.height \in 1..Len(chain) /\ (Canonical(r)' <=> Canonical(r) /\ r.height <= keep)
      BY <1>7
    <3> QED BY <1>4, <1>5, <2>2, <3>1, <3>2
  <2>4. ASSUME NEW log \in todo, Confirmed(log.height)' PROVE Canonical(log)'
    <3>1. Confirmed(log.height) /\ latest - log.height + 1 >= Confirmations
      BY <1>3, <2>4 DEF Confirmed
    <3>2. Canonical(log)
      BY <1>1, <2>2, <3>1 DEF Final
    <3>3. log.height \in 1..Len(chain) /\ (Canonical(log)' <=> Canonical(log) /\ log.height <= keep)
      BY <1>7
    <3> QED BY <1>4, <1>5, <2>2, <3>1, <3>2, <3>3
  <2>5. \A r \in records : r.seen = r.branch
    BY <1>1, <2>2 DEF Final
  <2> QED BY <1>3, <2>3, <2>4, <2>5
<1>15. Held'
  <2>1. ahead' \subseteq receipts' /\ (phase' \notin Looking => ahead' = {})
    BY <1>1, <1>3 DEF Held
  <2>2. phase' = "key" => Outcome' # "none"
    BY <1>1, <1>3 DEF Held, Outcome
  <2> DEFINE c == evidence.call
             h == c.height
  <2>3. SUFFICES ASSUME phase \in Looking \ {"canonical"}
                 PROVE  /\ c \in receipts
                        /\ deepest' < Confirmations => Canonical(c)'
                        /\ Canonical(c)' =>
                             /\ evidence.late /\ NonceAt(chain', h - 1) < subject.item
                                  => subject.item \in chain'[h].lapsed
                             /\ phase \in {"after", "queue", "key"} => evidence.before = NonceAt(chain', h - 1)
                             /\ phase \in {"queue", "key"} => evidence.after = NonceAt(chain', h)
    BY <1>3, <2>1, <2>2 DEF Held
  <2>4. /\ c \in receipts /\ h \in 1..Len(chain) /\ h + Confirmations <= latest + 1
        /\ Canonical(c)' <=> Canonical(c) /\ h <= keep
    <3>1. c \in receipts /\ c' = c
      BY <1>1, <1>3, <2>3 DEF Held
    <3>2. h \in 1..Len(chain) /\ (Canonical(c)' <=> Canonical(c) /\ h <= keep)
      BY <1>7, <3>1 DEF Canonical
    <3> QED BY <1>1, <3>1, <3>2 DEF Deep
  <2>5. ASSUME deepest' < Confirmations PROVE Canonical(c)'
    <3>1. deepest < Confirmations /\ keep >= Len(chain) - Confirmations + 1
      BY <1>4, <1>5, <2>5
    <3>2. Canonical(c)
      BY <1>1, <2>3, <3>1 DEF Held
    <3> QED BY <1>4, <1>5, <2>4, <3>1, <3>2
  <2>6. ASSUME Canonical(c)'
        PROVE  /\ evidence.late /\ NonceAt(chain', h - 1) < subject.item
                    => subject.item \in chain'[h].lapsed
               /\ phase \in {"after", "queue", "key"} => evidence.before = NonceAt(chain', h - 1)
               /\ phase \in {"queue", "key"} => evidence.after = NonceAt(chain', h)
    <3>1. Canonical(c) /\ h \in 1..keep
      BY <1>5, <2>4, <2>6
    <3>2. chain'[h] = chain[h] /\ NonceAt(chain', h - 1) = NonceAt(chain, h - 1)
          /\ NonceAt(chain', h) = NonceAt(chain, h)
      <4>1. h = 1 \/ h - 1 \in 1..keep
        BY <1>5, <3>1
      <4> QED BY <1>6, <3>1, <4>1 DEF NonceAt
    <3> QED BY <1>1, <2>3, <3>1, <3>2 DEF Held
  <2> QED BY <2>4, <2>5, <2>6
<1>13. Told'
  <2>1. \A r \in sent \ records : ~Canonical(r)'
    BY <1>1, <1>7 DEF Told
  <2> QED BY <1>1, <1>3, <2>1 DEF Told
<1>14. Lifecycle'
  <2>1. SUFFICES ASSUME NEW r \in records, Canonical(r)', r.seen = r.branch
                 PROVE  /\ r.kind = "executed" => r.item \in chain'[r.height].executed
                        /\ r.kind = "skipped" => /\ r.item \in chain'[r.height].lapsed
                                                 /\ NonceAt(chain', r.height - 1) < r.item
                                                 /\ r.item <= chain'[r.height].nonce
    BY <1>3 DEF Lifecycle
  <2>2. Canonical(r) /\ r.height \in 1..keep
    BY <1>5, <1>7, <2>1
  <2>3. chain'[r.height] = chain[r.height] /\ NonceAt(chain', r.height - 1) = NonceAt(chain, r.height - 1)
    <3>1. r.height = 1 \/ r.height - 1 \in 1..keep
      BY <1>5, <2>2
    <3> QED BY <1>6, <2>2, <3>1 DEF NonceAt
  <2> QED BY <1>1, <2>1, <2>2, <2>3 DEF Lifecycle
<1> QED BY <1>8, <1>9, <1>10, <1>11, <1>12, <1>13, <1>14, <1>15 DEF WatcherInv

-----------------------------------------------------------------------------
(* A step of the run that leaves the ledger and what was sent alone: what   *)
(* it may do to the rest.                                                   *)
Quiet ==
  /\ UNCHANGED <<environment, cursor, records, outbox, sent>>
  /\ lock' \in BOOLEAN /\ phase' \in Phases
  /\ latest' \in 0..Len(chain) /\ start' \in 1..(Len(chain) + 1)
  /\ derivable' \subseteq Record /\ todo' \subseteq Log /\ receipts' \subseteq Log
  /\ unread \subseteq unread'
  /\ phase' # "mark"
  /\ \/ fresh' = {}
     \/ fresh' = fresh /\ phase # "mark" /\ phase' \notin {"idle", "reconcile", "fetch"}
  /\ phase' # "logs" => todo' = {}

(* The logs and calls it has in hand then.                                  *)
QuietLogs ==
  /\ \A log \in todo' : /\ Placed(log) /\ log.kind \in LogKinds
                        /\ deepest < Confirmations /\ Confirmed(log.height)' => Canonical(log)
                        /\ \A r \in sent \ records : AlertOf(log) # r
  /\ \A c \in receipts' :
       /\ Placed(c) /\ c.height + Confirmations <= latest' + 1
       /\ Canonical(c) => c.tx \in DOMAIN chain[c.height].txs /\ chain[c.height].txs[c.tx] = c.kind

(* The record that is being looked at.                                      *)
QuietHands == subject' \in Record /\ evidence' \in Evidence /\ Held'

(* And up to where all logs have been passed.                               *)
QuietCover ==
  /\ start' <= 1 \/ start' + Confirmations <= Len(chain) + 1
  /\ deepest <= Confirmations =>
       /\ phase' \in {"reconcile", "fetch"} => \A log \in Reportable(start' - 1) : Passed(log)
       /\ phase' \in {"logs", "derive"} \cup Looking =>
            \A log \in Reportable(latest' - Confirmations) :
              Passed(log) \/ log \in unread' \/ log \in todo'

LEMMA QuietHolds ==
  ASSUME WatcherInv, Quiet, QuietLogs, QuietHands, QuietCover
  PROVE  WatcherInv'
<1>1. Sighted /\ Deep /\ InHand /\ Covered /\ Final /\ Held /\ Told /\ Lifecycle
  BY DEF WatcherInv
<1>2. /\ UNCHANGED environment
      /\ chain' = chain /\ branch' = branch /\ deepest' = deepest
      /\ cursor' = cursor /\ records' = records /\ outbox' = outbox /\ sent' = sent
  BY DEF Quiet, environment
<1>3. /\ chain \in Seq(Block) /\ Len(chain) \in Nat /\ cursor \in 0..Len(chain)
      /\ Confirmations \in Nat \ {0}
      /\ latest' \in 0..Len(chain) /\ start' \in 1..(Len(chain) + 1)
  BY <1>1, WatcherAssumption DEF Sighted, WatcherTypeOK, Quiet
<1>4. /\ \A x : Canonical(x)' <=> Canonical(x)
      /\ \A x : Placed(x)' <=> Placed(x)
      /\ \A to \in Int : to <= Len(chain) => \A x \in Reportable(to)' : x \in Reportable(to)
  BY <1>2, <1>3, ChainIsStill
<1>5. Sighted'
  <2>1. WatcherTypeOK'
    BY <1>1, <1>2 DEF Sighted, WatcherTypeOK, Quiet, QuietHands
  <2>2. (outbox \in Seq(Record) /\ todo \subseteq Log /\ receipts \subseteq Log)'
    BY <1>1, <1>2 DEF Sighted, Quiet
  <2>3. \A x \in records' \cup sent' \cup todo' \cup receipts' : Placed(x)'
    BY <1>1, <1>2, <1>4 DEF Sighted, QuietLogs
  <2>4. \A h \in DOMAIN chain' : BlockFits(chain', h) /\ chain'[h].branch <= branch'
    BY <1>1, <1>2 DEF Sighted
  <2>5. \A log \in todo' : log.kind \in LogKinds
    BY DEF QuietLogs
  <2>6. \A c \in receipts' :
          Canonical(c)' => c.tx \in DOMAIN chain'[c.height].txs /\ chain'[c.height].txs[c.tx] = c.kind
    BY <1>2, <1>4 DEF QuietLogs
  <2> QED BY <2>1, <2>2, <2>3, <2>4, <2>5, <2>6 DEF Sighted
<1>6. Deep'
  <2>1. \A c \in receipts' : c.height + Confirmations <= latest' + 1
    BY DEF QuietLogs
  <2>2. \A h \in {cursor', start'} : h <= 1 \/ h + Confirmations <= Len(chain') + 1
    BY <1>1, <1>2 DEF Deep, QuietCover
  <2> QED BY <1>1, <1>2, <2>1, <2>2 DEF Deep
<1>7. InHand'
  BY DEF InHand, Quiet
<1>8. Covered'
  <2>1. SUFFICES ASSUME deepest <= Confirmations
                 PROVE  /\ \A log \in Reportable(cursor - 1)' : Passed(log)'
                        /\ phase' \in {"reconcile", "fetch"} =>
                             \A log \in Reportable(start - 1)' : Passed(log)'
                        /\ phase' \in {"logs", "derive"} \cup Looking =>
                             \A log \in Reportable(latest - Confirmations)' : Passed(log)' \/ log \in todo'
    BY <1>2 DEF Covered
  <2>2. \A log : Passed(log) \/ log \in unread' => Passed(log)'
    BY <1>2 DEF Passed, Recorded, Quiet
  <2>3. /\ cursor - 1 \in Int /\ cursor - 1 <= Len(chain)
        /\ start' - 1 \in Int /\ start' - 1 <= Len(chain)
        /\ latest' - Confirmations \in Int /\ latest' - Confirmations <= Len(chain)
    BY <1>3
  <2>4. /\ Reportable(cursor - 1)' \subseteq Reportable(cursor - 1)
        /\ Reportable(start - 1)' \subseteq Reportable(start' - 1)
        /\ Reportable(latest - Confirmations)' \subseteq Reportable(latest' - Confirmations)
    <3>1. \A to \in {cursor - 1, start' - 1, latest' - Confirmations} :
            \A x \in Reportable(to)' : x \in Reportable(to)
      BY <1>4, <2>3
    <3> QED BY <1>2, <3>1
  <2>5. \A log \in Reportable(cursor - 1) : Passed(log)
    BY <1>1, <2>1 DEF Covered
  <2> QED BY <2>1, <2>2, <2>4, <2>5 DEF QuietCover
<1>9. Final'
  BY <1>1, <1>2, <1>4 DEF Final, QuietLogs
<1>10. Told'
  <2>1. /\ \A i, j \in DOMAIN outbox' : outbox'[i] = outbox'[j] => i = j
        /\ phase' # "mark"
    BY <1>1, <1>2 DEF Told, Quiet
  <2>2. \A i \in DOMAIN outbox' : ~(outbox'[i] \in sent' /\ outbox'[i] \in fresh')
    BY <1>1, <1>2 DEF Told, Quiet
  <2>3. \A r \in sent' \ records' : ~Canonical(r)' /\ \A log \in todo' : AlertOf(log) # r
    BY <1>1, <1>2, <1>4 DEF Told, QuietLogs
  <2> QED BY <2>1, <2>2, <2>3 DEF Told
<1>11. Lifecycle'
  BY <1>1, <1>2, <1>4 DEF Lifecycle
<1>12. Held'
  BY DEF QuietHands
<1> QED BY <1>5, <1>6, <1>7, <1>8, <1>9, <1>10, <1>11, <1>12 DEF WatcherInv

(* A step that puts a new alert on record.                                  *)
New(a) ==
  /\ ~Recorded(a)
  /\ records' = records \cup {a} /\ outbox' = Append(outbox, a)
  /\ cursor' = Later(cursor, a.height) /\ fresh' = fresh \cup {a}
  /\ UNCHANGED <<environment, lock, latest, start, receipts, history>>
  /\ \/ phase = "logs" /\ phase' = "logs"
     \/ phase = "key" /\ phase' = "derive"
  /\ QuietHands
  /\ todo' \subseteq todo /\ derivable' \subseteq derivable

(* What makes it one that may be recorded.                                  *)
Due(a) ==
  /\ a \in Record /\ Placed(a) /\ a.height + Confirmations <= latest + 1
  /\ deepest < Confirmations => Canonical(a) /\ a.seen = a.branch
  /\ a \notin sent
  /\ Canonical(a) /\ a.seen = a.branch =>
       /\ a.kind = "executed" => a.item \in chain[a.height].executed
       /\ a.kind = "skipped" => /\ a.item \in chain[a.height].lapsed
                                /\ NonceAt(chain, a.height - 1) < a.item
                                /\ a.item <= chain[a.height].nonce
  /\ deepest <= Confirmations =>
       /\ \A log \in Reportable(a.height - 1) : Passed(log)
       /\ \A log \in Reportable(latest - Confirmations) :
            Passed(log) \/ log \in todo' \/ AlertOf(log) = a

LEMMA NewHolds ==
  ASSUME WatcherInv, NEW a, New(a), Due(a)
  PROVE  WatcherInv'
<1>1. Sighted /\ Deep /\ InHand /\ Covered /\ Final /\ Held /\ Told /\ Lifecycle
  BY DEF WatcherInv
<1>2. /\ UNCHANGED environment
      /\ chain' = chain /\ branch' = branch /\ deepest' = deepest
      /\ lock' = lock /\ latest' = latest /\ start' = start
      /\ receipts' = receipts /\ sent' = sent /\ unread' = unread
      /\ records' = records \cup {a} /\ fresh' = fresh \cup {a}
      /\ todo' \subseteq todo /\ derivable' \subseteq derivable
      /\ \/ phase = "logs" /\ phase' = "logs"
         \/ phase = "key" /\ phase' = "derive"
      /\ subject' \in Record /\ evidence' \in Evidence /\ Held'
  BY DEF New, QuietHands, environment, history
<1>3. /\ chain \in Seq(Block) /\ Len(chain) \in Nat /\ cursor \in 0..Len(chain)
      /\ latest \in 0..Len(chain) /\ start \in 1..(Len(chain) + 1)
      /\ Confirmations \in Nat \ {0}
      /\ outbox \in Seq(Record) /\ \A i \in DOMAIN outbox : outbox[i] \in records
  BY <1>1, WatcherAssumption DEF Sighted, WatcherTypeOK
<1>4. /\ \A x : Canonical(x)' <=> Canonical(x)
      /\ \A x : Placed(x)' <=> Placed(x)
      /\ \A to \in Int : to <= Len(chain) => \A x \in Reportable(to)' : x \in Reportable(to)
  BY <1>2, <1>3, ChainIsStill
<1>5. /\ a \in Record /\ a.height \in 1..Len(chain) /\ Placed(a)
      /\ a.height + Confirmations <= latest + 1 /\ a.height + Confirmations <= Len(chain) + 1
  BY <1>3 DEF Due, Placed
<1>6. /\ cursor' = cursor \/ cursor' = a.height
      /\ cursor <= cursor' /\ a.height <= cursor' /\ cursor' \in 0..Len(chain)
  BY <1>3, <1>5 DEF New, Later
<1>7. /\ outbox' \in Seq(Record) /\ DOMAIN outbox = 1..Len(outbox) /\ Len(outbox) \in Nat
      /\ DOMAIN outbox' = 1..(Len(outbox) + 1)
      /\ \A i \in DOMAIN outbox : outbox'[i] = outbox[i]
      /\ outbox'[Len(outbox) + 1] = a
      /\ \A i \in DOMAIN outbox' : i \in DOMAIN outbox \/ i = Len(outbox) + 1
  <2>1. outbox' = Append(outbox, a)
    BY DEF New
  <2>2. /\ outbox' \in Seq(Record) /\ Len(outbox') = Len(outbox) + 1
        /\ \A i \in 1..Len(outbox) : outbox'[i] = outbox[i]
        /\ outbox'[Len(outbox) + 1] = a
    BY <1>3, <1>5, <2>1, AppendProperties
  <2>3. DOMAIN outbox' = 1..(Len(outbox) + 1) /\ DOMAIN outbox = 1..Len(outbox) /\ Len(outbox) \in Nat
    BY <1>3, <2>2
  <2> QED BY <2>2, <2>3
<1>8. a \notin records
  BY DEF New, Recorded
<1>9. Sighted'
  <2>1. WatcherTypeOK'
    <3>1. \A i \in DOMAIN outbox' : outbox'[i] \in records'
      BY <1>2, <1>3, <1>7
    <3>2. phase' \in Phases
        BY <1>2 DEF Phases
      <3> QED BY <1>1, <1>2, <1>5, <1>6, <3>1, <3>2 DEF Sighted, WatcherTypeOK
  <2>2. (outbox \in Seq(Record) /\ todo \subseteq Log /\ receipts \subseteq Log)'
    BY <1>1, <1>2, <1>7 DEF Sighted
  <2>3. \A x \in records' \cup sent' \cup todo' \cup receipts' : Placed(x)'
    BY <1>1, <1>2, <1>4, <1>5 DEF Sighted
  <2>4. /\ \A h \in DOMAIN chain' : BlockFits(chain', h) /\ chain'[h].branch <= branch'
        /\ \A log \in todo' : log.kind \in LogKinds
    BY <1>1, <1>2 DEF Sighted
  <2>5. \A c \in receipts' :
          Canonical(c)' => c.tx \in DOMAIN chain'[c.height].txs /\ chain'[c.height].txs[c.tx] = c.kind
    BY <1>1, <1>2, <1>4 DEF Sighted
  <2> QED BY <2>1, <2>2, <2>3, <2>4, <2>5 DEF Sighted
<1>10. Deep'
  <2>1. \A r \in records' \cup sent' : r.height + Confirmations <= Len(chain') + 1
    BY <1>1, <1>2, <1>5 DEF Deep
  <2>2. \A c \in receipts' : c.height + Confirmations <= latest' + 1
    BY <1>1, <1>2 DEF Deep
  <2>3. ASSUME NEW r \in records' PROVE r.height <= cursor'
    <3>1. CASE r = a
      BY <1>6, <3>1
    <3>2. CASE r # a
      <4>1. r \in records /\ r.height <= cursor
        BY <1>1, <1>2, <3>2 DEF Deep
      <4>2. r \in Record
        BY <1>1, <4>1 DEF Sighted, WatcherTypeOK
      <4>3. r.height \in Nat
        BY <4>2 DEF Record
      <4> QED BY <1>3, <1>6, <4>1, <4>3
    <3> QED BY <3>1, <3>2
  <2>4. \A h \in {cursor', start'} : h <= 1 \/ h + Confirmations <= Len(chain') + 1
    BY <1>1, <1>2, <1>5, <1>6 DEF Deep
  <2> QED BY <2>1, <2>2, <2>3, <2>4 DEF Deep
<1>11. InHand'
  <2>1. phase = "key" => todo = {}
    BY <1>1 DEF InHand
  <2> QED BY <1>2, <2>1 DEF InHand
<1>12. Covered'
  <2>1. SUFFICES ASSUME deepest <= Confirmations
                 PROVE  /\ \A log \in Reportable(cursor - 1)' : Passed(log)'
                        /\ \A log \in Reportable(latest - Confirmations)' : Passed(log)' \/ log \in todo'
    BY <1>2 DEF Covered
  <2>2. \A log : Passed(log) \/ AlertOf(log) = a => Passed(log)'
    BY <1>2 DEF Passed, Recorded
  <2>3. cursor' - 1 \in Int /\ cursor' - 1 <= Len(chain)
        /\ latest - Confirmations \in Int /\ latest - Confirmations <= Len(chain)
    BY <1>3, <1>6
  <2>4. ASSUME NEW log \in Reportable(cursor - 1)' PROVE Passed(log)'
    <3>1. log \in Reportable(cursor' - 1)
      BY <1>4, <2>3
    <3>2. CASE cursor' = cursor
      BY <1>1, <2>1, <2>2, <3>1, <3>2 DEF Covered
    <3>3. CASE cursor' = a.height
      BY <2>1, <2>2, <3>1, <3>3 DEF Due
    <3> QED BY <1>6, <3>2, <3>3
  <2>5. ASSUME NEW log \in Reportable(latest - Confirmations)' PROVE Passed(log)' \/ log \in todo'
    <3>1. log \in Reportable(latest - Confirmations)
      BY <1>2, <1>4, <2>3
    <3> QED BY <2>1, <2>2, <3>1 DEF Due
  <2> QED BY <2>4, <2>5
<1>13. Final'
  <2>1. SUFFICES ASSUME deepest < Confirmations
                 PROVE  /\ \A r \in records' \cup sent' : Canonical(r)
                        /\ \A r \in records' : r.seen = r.branch
                        /\ \A log \in todo' : Confirmed(log.height)' => Canonical(log)
    BY <1>2, <1>4 DEF Final
  <2>2. \A h : Confirmed(h)' <=> Confirmed(h)
    BY <1>2 DEF Confirmed
  <2>3. /\ \A r \in records \cup sent : Canonical(r)
        /\ \A r \in records : r.seen = r.branch
        /\ \A log \in todo : Confirmed(log.height) => Canonical(log)
    BY <1>1, <2>1 DEF Final
  <2>4. Canonical(a) /\ a.seen = a.branch
    BY <2>1 DEF Due
  <2> QED BY <1>2, <2>2, <2>3, <2>4
<1>14. Told'
  <2>1. \A i \in DOMAIN outbox : outbox[i] # a
    BY <1>3, <1>8
  <2>2. \A i, j \in DOMAIN outbox' : outbox'[i] = outbox'[j] => i = j
    <3>1. \A i, j \in DOMAIN outbox : outbox[i] = outbox[j] => i = j
      BY <1>1 DEF Told
    <3> QED BY <1>7, <2>1, <3>1
  <2>3. \A i \in DOMAIN outbox' : ~(outbox'[i] \in sent' /\ outbox'[i] \in fresh')
    <3>1. \A i \in DOMAIN outbox : ~(outbox[i] \in sent /\ outbox[i] \in fresh)
      BY <1>1, <1>2 DEF Told
    <3>2. a \notin sent
      BY DEF Due
    <3> QED BY <1>2, <1>7, <2>1, <3>1, <3>2
  <2>4. phase' # "mark"
    BY <1>2
  <2>5. \A r \in sent' \ records' : ~Canonical(r)' /\ \A log \in todo' : AlertOf(log) # r
    BY <1>1, <1>2, <1>4 DEF Told
  <2> QED BY <2>2, <2>3, <2>4, <2>5 DEF Told
<1>15. Lifecycle'
  <2>1. SUFFICES ASSUME NEW r \in records', Canonical(r), r.seen = r.branch
                 PROVE  /\ r.kind = "executed" => r.item \in chain[r.height].executed
                        /\ r.kind = "skipped" => /\ r.item \in chain[r.height].lapsed
                                                 /\ NonceAt(chain, r.height - 1) < r.item
                                                 /\ r.item <= chain[r.height].nonce
    BY <1>2, <1>4 DEF Lifecycle
  <2>2. r \in records \/ r = a
    BY <1>2
  <2> QED BY <1>1, <2>1, <2>2 DEF Lifecycle, Due
<1>16. Held'
  BY <1>2
<1> QED BY <1>9, <1>10, <1>11, <1>12, <1>13, <1>14, <1>15, <1>16 DEF WatcherInv

-----------------------------------------------------------------------------
(* The steps of a run.                                                      *)
LEMMA Types ==
  ASSUME WatcherInv
  PROVE  /\ chain \in Seq(Block) /\ Len(chain) \in Nat /\ branch \in Nat /\ lock \in BOOLEAN
         /\ cursor \in 0..Len(chain) /\ latest \in 0..Len(chain) /\ start \in 1..(Len(chain) + 1)
         /\ Confirmations \in Nat \ {0} /\ phase \in Phases
         /\ records \subseteq Record /\ derivable \subseteq Record /\ fresh \subseteq Record
         /\ todo \subseteq Log /\ receipts \subseteq Log
         /\ subject \in Record /\ evidence \in Evidence
         /\ outbox \in Seq(Record) /\ \A i \in DOMAIN outbox : outbox[i] \in records
  BY WatcherAssumption DEF WatcherInv, Sighted, WatcherTypeOK

LEMMA NothingIsARecord == NoRecord \in Record /\ NoEvidence \in Evidence
<1>1. NoRecord \in Record
  BY DEF NoRecord, Record
<1>2. NoCall \in Log
  BY DEF NoCall, Log, TxKinds
<1>3. NoEvidence \in Evidence
  <2>1. FALSE \in BOOLEAN
    BY Zenon
  <2> QED BY <1>2, <2>1 DEF NoEvidence, Evidence
<1> QED BY <1>1, <1>3

(* No record is being looked at after the step.                             *)
LEMMA HandsAreFree ==
  ASSUME WatcherInv, phase' \notin Looking,
         LetGo \/ (phase \notin Looking /\ UNCHANGED <<subject, ahead, evidence>>)
  PROVE  QuietHands
<1>1. subject' \in Record /\ evidence' \in Evidence
  BY Types, NothingIsARecord DEF LetGo
<1>2. ahead' = {}
  BY DEF LetGo, WatcherInv, Held
<1>3. phase' # "key"
  BY DEF Looking
<1>4. Held'
  BY <1>2, <1>3 DEF Held
<1> QED BY <1>1, <1>4 DEF QuietHands

LEMMA SameLogs ==
  ASSUME WatcherInv, todo' \subseteq todo, receipts' \subseteq receipts,
         \/ latest' = latest
         \/ todo' = {} /\ receipts' = {}
         \/ todo' = {} /\ latest' = Len(chain)
  PROVE  QuietLogs
<1>1. Sighted /\ Deep /\ Final /\ Told
  BY DEF WatcherInv
<1>2. Len(chain) \in Nat /\ latest \in 0..Len(chain) /\ Confirmations \in Nat \ {0} /\ receipts \subseteq Log
  BY Types
<1>3. ASSUME NEW log \in todo'
      PROVE  /\ Placed(log) /\ log.kind \in LogKinds
             /\ deepest < Confirmations /\ Confirmed(log.height)' => Canonical(log)
             /\ \A r \in sent \ records : AlertOf(log) # r
  <2>1. log \in todo /\ latest' = latest
    BY <1>3
  <2> QED BY <1>1, <2>1 DEF Sighted, Final, Told, Confirmed
<1>4. ASSUME NEW c \in receipts'
      PROVE  /\ Placed(c) /\ c.height + Confirmations <= latest' + 1
             /\ Canonical(c) => c.tx \in DOMAIN chain[c.height].txs /\ chain[c.height].txs[c.tx] = c.kind
  <2>1. c \in receipts /\ (latest' = latest \/ latest' = Len(chain))
    BY <1>4
  <2>2. c \in Log
    BY <1>2, <2>1
  <2>3. c.height \in Nat
    BY <2>2 DEF Log
  <2>4. c.height + Confirmations <= latest + 1
    BY <1>1, <2>1 DEF Deep
  <2>5. c.height + Confirmations <= latest' + 1
    BY <1>2, <2>1, <2>3, <2>4
  <2> QED BY <1>1, <2>1, <2>5 DEF Sighted
<1> QED BY <1>3, <1>4 DEF QuietLogs

(* How far the logs have been passed, by phase.                             *)
LEMMA PassedSoFar ==
  ASSUME WatcherInv, deepest <= Confirmations
  PROVE  /\ \A log \in Reportable(cursor - 1) : Passed(log)
         /\ phase \in {"reconcile", "fetch"} => \A log \in Reportable(start - 1) : Passed(log)
         /\ phase \in {"logs", "derive"} \cup Looking =>
              \A log \in Reportable(latest - Confirmations) : Passed(log) \/ log \in todo
  BY DEF WatcherInv, Covered

LEMMA CursorIsDeep ==
  ASSUME WatcherInv, NEW h \in {cursor, start}
  PROVE  h <= 1 \/ h + Confirmations <= Len(chain) + 1
  BY DEF WatcherInv, Deep

LEMMA NothingBelow ==
  ASSUME WatcherInv, NEW to \in Int, to <= 0
  PROVE  Reportable(to) = {}
<1>1. ASSUME NEW x \in Reportable(to) PROVE FALSE
  <2>1. chain \in Seq(Block) /\ Len(chain) \in Nat /\ to <= Len(chain)
    BY Types
  <2>2. x.height \in 1..to
    BY <2>1, ReportableOnChain
  <2> QED BY <2>2
<1> QED BY <1>1

LEMMA BeginHolds ==
  ASSUME WatcherInv, Begin
  PROVE  WatcherInv'
<1>1. /\ phase = "idle" /\ lock' = TRUE /\ latest' = Len(chain) /\ start' = Later(cursor, 1)
      /\ phase' = "reconcile"
      /\ UNCHANGED <<environment, cursor, records, outbox, todo, receipts, derivable, fresh,
                     subject, ahead, evidence, sent, unread>>
  BY DEF Begin, Enter, ledger, looking, history
<1>2. todo = {} /\ fresh = {}
  BY <1>1 DEF WatcherInv, InHand
<1>3. (start' = cursor /\ cursor > 1) \/ start' = 1
  BY <1>1, Types DEF Later
<1>4. Quiet
  <2>1. lock' \in BOOLEAN
    BY <1>1, Zenon
  <2>2. latest' \in 0..Len(chain) /\ start' \in 1..(Len(chain) + 1)
    BY <1>1, <1>3, Types
  <2> QED BY <1>1, <1>2, <2>1, <2>2, Types DEF Quiet, Phases
<1>5. QuietLogs
  BY <1>1, <1>2, SameLogs
<1>6. QuietCover
  <2>1. start' <= 1 \/ start' + Confirmations <= Len(chain) + 1
    BY <1>3, CursorIsDeep
  <2>2. ASSUME deepest <= Confirmations, NEW log \in Reportable(start' - 1) PROVE Passed(log)
    <3>1. CASE start' = 1
      BY <2>2, <3>1, NothingBelow
    <3>2. CASE start' = cursor
      BY <2>2, <3>2, PassedSoFar
    <3> QED BY <1>3, <3>1, <3>2
  <2> QED BY <1>1, <2>1, <2>2 DEF QuietCover, Looking
<1>9. QuietHands
  BY <1>1, HandsAreFree DEF Looking
<1> QED BY <1>4, <1>5, <1>6, <1>9, QuietHolds

LEMMA FetchLogsHolds ==
  ASSUME WatcherInv, FetchLogs
  PROVE  WatcherInv'
<1>1. /\ phase = "fetch" /\ phase' = "logs" /\ todo' = Found(LogKinds, start, latest)
      /\ UNCHANGED <<environment, lock, cursor, records, outbox, latest, start, receipts, derivable,
                     fresh, subject, ahead, evidence, sent, unread>>
  BY DEF FetchLogs, Enter, ledger, looking, history
<1>2. /\ chain \in Seq(Block) /\ LogKinds \in SUBSET TxKinds /\ start \in Nat \ {0}
      /\ latest \in Int /\ latest <= Len(chain) /\ Len(chain) \in Nat /\ Confirmations \in Nat \ {0}
  BY Types DEF LogKinds, TxKinds
<1>3. ASSUME NEW log \in todo'
      PROVE  log \in Log /\ Placed(log) /\ log.kind \in LogKinds /\ Canonical(log)
  <2>1. /\ log \in Log /\ log.kind \in LogKinds /\ log.height \in 1..Len(chain) /\ Canonical(log)
    BY <1>1, <1>2, FoundOnChain
  <2>2. chain[log.height].branch <= branch
    BY <2>1 DEF WatcherInv, Sighted
  <2> QED BY <2>1, <2>2 DEF Placed, Canonical
<1>4. Quiet
  BY <1>1, <1>3, Types DEF Quiet, Phases
<1>5. QuietLogs
  <2>1. ASSUME NEW log \in todo', NEW r \in sent \ records PROVE AlertOf(log) # r
    <3>1. Canonical(log) /\ ~Canonical(r)
      BY <1>3, <2>1 DEF WatcherInv, Told
    <3>2. AlertOf(log).height = log.height /\ AlertOf(log).branch = log.branch
      BY DEF AlertOf
    <3> QED BY <3>1, <3>2 DEF Canonical
  <2>2. \A c \in receipts' :
          /\ Placed(c) /\ c.height + Confirmations <= latest' + 1
          /\ Canonical(c) => c.tx \in DOMAIN chain[c.height].txs /\ chain[c.height].txs[c.tx] = c.kind
    BY <1>1 DEF WatcherInv, Sighted, Deep
  <2> QED BY <1>3, <2>1, <2>2 DEF QuietLogs
<1>6. QuietCover
  <2>1. start' <= 1 \/ start' + Confirmations <= Len(chain) + 1
    BY <1>1, CursorIsDeep
  <2>2. ASSUME deepest <= Confirmations, NEW log \in Reportable(latest - Confirmations)
        PROVE  Passed(log) \/ log \in todo'
    <3>1. /\ log \in Log /\ log.height \in 1..(latest - Confirmations)
          /\ \A other \in Int : log.height <= other => log \in Reportable(other)
          /\ \A from \in Nat, last \in Int :
               from <= log.height /\ log.height <= last => log \in Found(LogKinds, from, last)
      <4>1. latest - Confirmations \in Int /\ latest - Confirmations <= Len(chain)
        BY <1>2
      <4> QED BY <1>2, <2>2, <4>1, ReportableOnChain
    <3>2. CASE start <= log.height
      BY <1>1, <1>2, <3>1, <3>2
    <3>3. CASE ~(start <= log.height)
      <4>1. log \in Reportable(start - 1)
        BY <1>2, <3>1, <3>3
      <4> QED BY <1>1, <2>2, <4>1, PassedSoFar
    <3> QED BY <3>2, <3>3
  <2> QED BY <1>1, <2>1, <2>2 DEF QuietCover, Looking
<1>9. QuietHands
  BY <1>1, HandsAreFree DEF Looking
<1> QED BY <1>4, <1>5, <1>6, <1>9, QuietHolds

LEMMA ReadReceiptsHolds ==
  ASSUME WatcherInv, ReadReceipts
  PROVE  WatcherInv'
<1>1. /\ phase = "logs" /\ phase' = "derive" /\ todo = {} /\ derivable' \subseteq records
      /\ receipts' = {c \in Found(CallKinds, 1, latest) : Confirmed(c.height)}
      /\ UNCHANGED <<environment, lock, cursor, records, outbox, latest, start, todo, fresh,
                     subject, ahead, evidence, sent, unread>>
  BY DEF ReadReceipts, Enter, ledger, looking, history
<1>2. /\ chain \in Seq(Block) /\ CallKinds \in SUBSET TxKinds /\ latest \in Int /\ latest <= Len(chain)
      /\ Len(chain) \in Nat /\ Confirmations \in Nat \ {0}
  BY Types DEF CallKinds, TxKinds
<1>3. ASSUME NEW c \in receipts'
      PROVE  /\ c \in Log /\ Placed(c) /\ c.height + Confirmations <= latest + 1
             /\ c.tx \in DOMAIN chain[c.height].txs /\ chain[c.height].txs[c.tx] = c.kind
  <2>1. c \in Found(CallKinds, 1, latest) /\ Confirmed(c.height)
    BY <1>1
  <2>2. /\ c \in Log /\ c.height \in 1..Len(chain) /\ Canonical(c)
        /\ c.tx \in DOMAIN chain[c.height].txs /\ chain[c.height].txs[c.tx] = c.kind
    BY <1>2, <2>1, FoundOnChain
  <2>3. chain[c.height].branch <= branch
    BY <2>2 DEF WatcherInv, Sighted
  <2>4. c.height + Confirmations <= latest + 1
    BY <1>2, <2>1, <2>2 DEF Confirmed
  <2> QED BY <2>2, <2>3, <2>4 DEF Placed, Canonical
<1>4. Quiet
  BY <1>1, <1>3, Types DEF Quiet, Phases
<1>5. QuietLogs
  BY <1>1, <1>3 DEF QuietLogs
<1>6. QuietCover
  <2>1. start' <= 1 \/ start' + Confirmations <= Len(chain) + 1
    BY <1>1, CursorIsDeep
  <2> QED BY <1>1, <2>1, PassedSoFar DEF QuietCover
<1>9. QuietHands
  BY <1>1, HandsAreFree DEF Looking
<1> QED BY <1>4, <1>5, <1>6, <1>9, QuietHolds

LEMMA AnnounceHolds ==
  ASSUME WatcherInv, Announce
  PROVE  WatcherInv'
<1>1. /\ phase = "derive" /\ phase' = "notify"
      /\ UNCHANGED <<environment, lock, cursor, records, outbox, latest, start, todo, receipts,
                     derivable, fresh, subject, ahead, evidence, sent, unread>>
  BY DEF Announce, Enter, ledger, run, looking, history
<1>2. todo = {}
  BY <1>1 DEF WatcherInv, InHand
<1>3. Quiet
  BY <1>1, <1>2, Types DEF Quiet, Phases
<1>4. QuietLogs
  BY <1>1, SameLogs
<1>5. QuietCover
  BY <1>1, CursorIsDeep DEF QuietCover, Looking
<1>9. QuietHands
  BY <1>1, HandsAreFree DEF Looking
<1> QED BY <1>3, <1>4, <1>5, <1>9, QuietHolds

(* The run ends, or dies.                                                   *)
LEMMA StopHolds ==
  ASSUME WatcherInv, End \/ Crash
  PROVE  WatcherInv'
<1>1. /\ phase' = "idle" /\ lock' \in BOOLEAN
      /\ latest' = 0 /\ start' = 1
      /\ todo' = {} /\ receipts' = {} /\ derivable' = {} /\ fresh' = {} /\ LetGo
      /\ UNCHANGED <<environment, cursor, records, outbox, sent, unread>>
  BY Types DEF End, Crash, Enter, Forget, ledger, history
<1>2. Quiet
  <2>1. latest' \in 0..Len(chain) /\ start' \in 1..(Len(chain) + 1)
    BY <1>1, Types
  <2> QED BY <1>1, <2>1, Types DEF Quiet, Phases
<1>3. QuietLogs
  BY <1>1 DEF QuietLogs
<1>4. QuietCover
  BY <1>1 DEF QuietCover, Looking
<1>9. QuietHands
  BY <1>1, HandsAreFree DEF Looking
<1> QED BY <1>2, <1>3, <1>4, <1>9, QuietHolds

LEMMA UnlockHolds ==
  ASSUME WatcherInv, Unlock
  PROVE  WatcherInv'
<1>1. /\ phase = "idle" /\ lock' = FALSE
      /\ UNCHANGED <<environment, cursor, records, outbox, phase, latest, start, todo, receipts,
                     derivable, fresh,
                     subject, ahead, evidence, sent, unread>>
  BY DEF Unlock, ledger, run, looking, history
<1>2. todo = {} /\ fresh = {}
  BY <1>1 DEF WatcherInv, InHand
<1>3. Quiet
  <2>1. lock' \in BOOLEAN
    BY <1>1, Zenon
  <2>2. latest' \in 0..Len(chain) /\ start' \in 1..(Len(chain) + 1) /\ phase' \in Phases
    BY <1>1, Types
  <2> QED BY <1>1, <1>2, <2>1, <2>2, Types DEF Quiet
<1>4. QuietLogs
  BY <1>1, SameLogs
<1>5. QuietCover
  BY <1>1, CursorIsDeep DEF QuietCover, Looking
<1>9. QuietHands
  BY <1>1, HandsAreFree DEF Looking
<1> QED BY <1>3, <1>4, <1>5, <1>9, QuietHolds

(* What is left of the logs when the next one is processed.                 *)
LEMMA NextLog ==
  ASSUME WatcherInv, NEW log \in todo, Processed(log)
  PROVE  /\ phase = "logs" /\ todo' = todo \ {log}
         /\ UNCHANGED <<environment, lock, phase, latest, start, receipts, derivable,
                        subject, ahead, evidence, sent>>
         /\ log \in Log /\ log.height \in 1..Len(chain) /\ log.kind \in LogKinds /\ Placed(log)
         /\ \A other \in todo : log.height <= other.height
<1>1. /\ phase = "logs" /\ todo' = todo \ {log} /\ \A other \in todo : Earlier(log, other)
      /\ UNCHANGED <<environment, lock, phase, latest, start, receipts, derivable,
                        subject, ahead, evidence, sent>>
  BY DEF Processed, IsNext, looking
<1>2. log \in Log /\ Placed(log) /\ log.kind \in LogKinds /\ todo \subseteq Log
  BY DEF WatcherInv, Sighted
<1>3. ASSUME NEW other \in todo PROVE log.height <= other.height
  <2>1. other \in Log /\ Earlier(log, other)
    BY <1>1, <1>2
  <2>2. other.height \in Nat /\ log.height \in Nat
    BY <1>2, <2>1 DEF Log
  <2> QED BY <2>1, <2>2 DEF Earlier
<1> QED BY <1>1, <1>2, <1>3 DEF Placed

(* Leaving a log, once it has been passed or was not to be reported.        *)
LEMMA LeaveLog ==
  ASSUME WatcherInv, NEW log \in todo, Processed(log),
         UNCHANGED <<cursor, records, outbox, fresh>>, unread \subseteq unread',
         deepest <= Confirmations /\ log \in Reportable(latest - Confirmations)
           => Passed(log) \/ log \in unread'
  PROVE  WatcherInv'
<1>1. /\ phase = "logs" /\ phase' = "logs" /\ todo' = todo \ {log}
      /\ UNCHANGED <<environment, lock, latest, start, receipts, derivable, subject, ahead, evidence, sent>>
  BY NextLog
<1>2. Quiet
  BY <1>1, Types DEF Quiet
<1>3. QuietLogs
  BY <1>1, SameLogs
<1>4. QuietCover
  <2>1. start' <= 1 \/ start' + Confirmations <= Len(chain) + 1
    BY <1>1, CursorIsDeep
  <2>2. ASSUME deepest <= Confirmations, NEW x \in Reportable(latest - Confirmations)
        PROVE  Passed(x) \/ x \in unread' \/ x \in todo'
    BY <1>1, <2>2, PassedSoFar
  <2> QED BY <1>1, <2>1, <2>2 DEF QuietCover
<1>9. QuietHands
  BY <1>1, HandsAreFree DEF Looking
<1> QED BY <1>2, <1>3, <1>4, <1>9, QuietHolds

LEMMA RecordLogHolds ==
  ASSUME WatcherInv, NEW log \in todo, RecordLog(log)
  PROVE  WatcherInv'
<1> DEFINE a == AlertOf(log)
<1>1. /\ Processed(log) /\ Confirmed(log.height) /\ Alertable(log) /\ Accept(a) /\ unread' = unread
  BY DEF RecordLog
<1>2. /\ phase = "logs" /\ todo' = todo \ {log}
      /\ UNCHANGED <<environment, lock, phase, latest, start, receipts, derivable,
                     subject, ahead, evidence, sent>>
      /\ log \in Log /\ log.height \in 1..Len(chain) /\ log.kind \in LogKinds /\ Placed(log)
      /\ \A other \in todo : log.height <= other.height
  BY <1>1, NextLog
<1>3. CASE Recorded(a)
  <2>1. UNCHANGED <<cursor, records, outbox, fresh>>
    BY <1>1, <1>3 DEF Accept, ledger
  <2>2. Passed(log)
    BY <1>3 DEF Passed
  <2> QED BY <1>1, <2>1, <2>2, LeaveLog
<1>4. CASE ~Recorded(a)
  <2>1. /\ a.height = log.height /\ a.branch = log.branch /\ a.kind = log.kind
        /\ a = [height |-> log.height, branch |-> log.branch, seen |-> log.branch, tx |-> log.tx,
                index |-> log.tx, item |-> log.item, kind |-> log.kind]
        /\ a.seen = a.branch
    BY DEF AlertOf
  <2>2. log.kind \in {"stepUp", "queued", "cancelled"}
    BY <1>1, <1>2 DEF LogKinds, Alertable
  <2>3. a \in Record
    BY <1>2, <2>1, <2>2 DEF Log, Record
  <2> HIDE DEF a
  <2>12. QuietHands
    BY <1>2, HandsAreFree DEF Looking
  <2>4. New(a)
    BY <1>1, <1>2, <1>4, <2>12 DEF Accept, New, history
  <2>5. a.height + Confirmations <= latest + 1
    BY <1>1, <1>2, <2>1, Types DEF Confirmed
  <2>6. a \notin records
    BY <1>4 DEF Recorded
  <2>7. a \notin sent
    BY <2>6 DEF WatcherInv, Told, a
  <2>8. deepest < Confirmations => Canonical(a)
    BY <1>1, <2>1 DEF WatcherInv, Final, Canonical
  <2>9. ASSUME deepest <= Confirmations, NEW x \in Reportable(a.height - 1) PROVE Passed(x)
    <3>1. /\ chain \in Seq(Block) /\ Len(chain) \in Nat /\ latest \in 0..Len(chain)
          /\ Confirmations \in Nat \ {0} /\ a.height \in 1..Len(chain)
      BY <1>2, <2>1, Types
    <3>2. a.height - 1 \in Int /\ a.height - 1 <= Len(chain)
          /\ latest - Confirmations \in Int /\ a.height - 1 <= latest - Confirmations
      BY <2>5, <3>1
    <3>3. x.height \in 1..(a.height - 1) /\ \A other \in Int : x.height <= other => x \in Reportable(other)
      BY <2>9, <3>1, <3>2, ReportableOnChain
    <3>4. x \in Reportable(latest - Confirmations)
      BY <3>1, <3>2, <3>3
    <3>5. Passed(x) \/ x \in todo
      BY <1>2, <2>9, <3>4, PassedSoFar
    <3>6. x \notin todo
      BY <1>2, <2>1, <3>1, <3>3
    <3> QED BY <3>5, <3>6
  <2>10. ASSUME deepest <= Confirmations, NEW x \in Reportable(latest - Confirmations)
         PROVE  Passed(x) \/ x \in todo' \/ AlertOf(x) = a
    BY <1>2, <2>10, PassedSoFar DEF a
  <2>11. Due(a)
    BY <1>2, <2>1, <2>2, <2>3, <2>5, <2>7, <2>8, <2>9, <2>10 DEF Due, Placed
  <2> QED BY <2>4, <2>11, NewHolds
<1> QED BY <1>3, <1>4

LEMMA PassOverLogHolds ==
  ASSUME WatcherInv, NEW log \in todo, PassOverLog(log)
  PROVE  WatcherInv'
<1>1. /\ Processed(log) /\ UNCHANGED <<cursor, records, outbox, fresh, unread>>
      /\ ~Confirmed(log.height) \/ ~Alertable(log) \/ ~Canonical(log) \/ Superseded(log)
  BY DEF PassOverLog, ledger
<1>2. ASSUME log \in Reportable(latest - Confirmations) PROVE FALSE
  <2>1. /\ chain \in Seq(Block) /\ Len(chain) \in Nat /\ latest \in 0..Len(chain)
        /\ Confirmations \in Nat \ {0}
    BY Types
  <2>2. latest - Confirmations \in Int /\ latest - Confirmations <= Len(chain)
    BY <2>1
  <2>3. /\ log.height \in 1..(latest - Confirmations)
        /\ Canonical(log) /\ Alertable(log) /\ ~Superseded(log)
    BY <1>2, <2>1, <2>2, ReportableOnChain
  <2>4. Confirmed(log.height)
    BY <2>1, <2>3 DEF Confirmed
  <2> QED BY <1>1, <2>3, <2>4
<1> QED BY <1>1, <1>2, LeaveLog

LEMMA FailToReadLogHolds ==
  ASSUME WatcherInv, NEW log \in todo, FailToReadLog(log)
  PROVE  WatcherInv'
<1>1. Processed(log) /\ UNCHANGED <<cursor, records, outbox, fresh>> /\ unread' = unread \cup {log}
  BY DEF FailToReadLog, ledger
<1> QED BY <1>1, LeaveLog

(* Looking at a record, as long as nothing is recorded.                     *)
LEMMA LookHolds ==
  ASSUME WatcherInv, phase \in {"derive"} \cup Looking, phase' \in {"derive"} \cup Looking,
         UNCHANGED <<environment, lock, cursor, records, outbox, latest, start, todo, receipts,
                     fresh, sent, unread>>,
         derivable' \subseteq derivable, QuietHands
  PROVE  WatcherInv'
<1>1. phase \notin {"mark", "logs"} /\ phase' \in Phases \ {"mark", "logs", "idle", "reconcile", "fetch"}
  BY DEF Looking, Phases
<1>2. todo = {}
  BY <1>1 DEF WatcherInv, InHand
<1>3. Quiet
  BY <1>1, <1>2, Types DEF Quiet
<1>4. QuietLogs
  BY SameLogs
<1>5. QuietCover
  <2>1. start' <= 1 \/ start' + Confirmations <= Len(chain) + 1
    BY CursorIsDeep
  <2> QED BY <1>1, <2>1, PassedSoFar DEF QuietCover
<1> QED BY <1>3, <1>4, <1>5, QuietHolds

(* What is known of the call in hand.                                       *)
LEMMA InHandNow ==
  ASSUME WatcherInv, phase \in Looking \ {"canonical"}
  PROVE  LET c == evidence.call
         IN  /\ c \in receipts /\ c \in Log /\ c.height \in 1..Len(chain) /\ Placed(c)
             /\ c.height + Confirmations <= latest + 1
             /\ NonceAt(chain, c.height - 1) \in Nat /\ NonceAt(chain, c.height) \in Nat
             /\ subject.item \in Nat
             /\ evidence = [call |-> c, late |-> evidence.late, before |-> evidence.before,
                            after |-> evidence.after]
             /\ evidence.late \in BOOLEAN /\ evidence.before \in Nat /\ evidence.after \in Nat
<1> DEFINE c == evidence.call
<1>1. c \in receipts
  BY DEF WatcherInv, Held
<1>2. c \in Log /\ Placed(c) /\ c.height + Confirmations <= latest + 1
  BY <1>1, Types DEF WatcherInv, Sighted, Deep
<1>3. c.height \in 1..Len(chain)
  BY <1>2 DEF Placed
<1>4. c.height - 1 \in 0..Len(chain) /\ c.height \in 0..Len(chain) /\ chain \in Seq(Block)
  BY <1>3, Types
<1>5. NonceAt(chain, c.height - 1) \in Nat /\ NonceAt(chain, c.height) \in Nat
  BY <1>4, BlockNumbers
<1>6. subject.item \in Nat
  BY Types DEF Record
<1>7. evidence \in Evidence
  BY Types
<1>8. evidence.late \in BOOLEAN
  BY <1>7, Zenon DEF Evidence
<1>9. /\ evidence = [call |-> c, late |-> evidence.late, before |-> evidence.before,
                     after |-> evidence.after]
      /\ evidence.before \in Nat /\ evidence.after \in Nat
  BY <1>7 DEF Evidence
<1> QED BY <1>1, <1>2, <1>3, <1>5, <1>6, <1>8, <1>9

LEMMA TakeRecordHolds ==
  ASSUME WatcherInv, NEW r \in derivable, TakeRecord(r)
  PROVE  WatcherInv'
<1>1. /\ phase = "derive" /\ phase' = "canonical" /\ derivable' \subseteq derivable
      /\ subject' = r /\ ahead' \subseteq receipts /\ evidence' = evidence
      /\ UNCHANGED <<environment, lock, cursor, records, outbox, latest, start, todo, receipts,
                     fresh, sent, unread>>
  BY DEF TakeRecord, Enter, ledger, history
<1>2. phase' \in Looking
  BY <1>1 DEF Looking
<1>3. Held'
  BY <1>1, <1>2 DEF Held
<1>4. QuietHands
  BY <1>1, <1>3, Types DEF QuietHands
<1> QED BY <1>1, <1>2, <1>4, LookHolds

LEMMA LateIsBoolean ==
  ASSUME NEW h, NEW late \in LateAt(h)
  PROVE  late \in BOOLEAN
<1>1. CASE NonceAt(chain, h - 1) < subject.item
  <2>1. late = (subject.item \in chain[h].lapsed)
    BY <1>1, Zenon DEF LateAt
  <2>2. (subject.item \in chain[h].lapsed) \in BOOLEAN
    OBVIOUS
  <2> QED BY <2>1, <2>2
<1>2. CASE ~(NonceAt(chain, h - 1) < subject.item)
  BY <1>2, Zenon DEF LateAt
<1> QED BY <1>1, <1>2

LEMMA CheckCanonicalHolds ==
  ASSUME WatcherInv, NEW c \in ahead, CheckCanonical(c)
  PROVE  WatcherInv'
<1>1. /\ phase = "canonical" /\ phase' = "before" /\ Canonical(c)
      /\ subject' = subject /\ ahead' \subseteq ahead /\ derivable' = derivable
      /\ UNCHANGED <<environment, lock, cursor, records, outbox, latest, start, todo, receipts,
                     fresh, sent, unread>>
      /\ chain' = chain /\ deepest' = deepest
  BY DEF CheckCanonical, Looked, Enter, ledger, history, environment
<1>2. PICK late \in LateAt(c.height) :
        evidence' = [call |-> c, late |-> late, before |-> 0, after |-> 0]
  BY DEF CheckCanonical
<1>3. /\ evidence'.call = c /\ evidence'.late = late
      /\ evidence'.before = 0 /\ evidence'.after = 0
  BY <1>2
<1>4. ahead \subseteq receipts /\ c \in receipts /\ c \in Log
  BY Types DEF WatcherInv, Held
<1>5. late \in BOOLEAN
  BY <1>2, LateIsBoolean, Zenon
<1>6. NonceAt(chain, c.height - 1) < subject.item /\ late => subject.item \in chain[c.height].lapsed
  BY <1>2 DEF LateAt
<1>7. Held'
  <2>1. phase' \in Looking /\ phase' # "key" /\ phase' \notin {"after", "queue", "key"}
    BY <1>1 DEF Looking
  <2>2. evidence'.call \in receipts' /\ Canonical(evidence.call)'
    BY <1>1, <1>3, <1>4 DEF Canonical
  <2>3. /\ evidence'.late /\ NonceAt(chain', evidence'.call.height - 1) < subject'.item
            => subject'.item \in chain'[evidence'.call.height].lapsed
    BY <1>1, <1>3, <1>6
  <2> QED BY <1>1, <1>4, <2>1, <2>2, <2>3 DEF Held
<1>8. evidence' \in Evidence
  BY <1>2, <1>4, <1>5 DEF Evidence
<1>9. QuietHands
  BY <1>1, <1>7, <1>8, Types DEF QuietHands
<1>10. phase \in Looking /\ phase' \in Looking
  BY <1>1 DEF Looking
<1> QED BY <1>1, <1>9, <1>10, LookHolds

LEMMA PassOverCallHolds ==
  ASSUME WatcherInv, NEW c \in ahead, PassOverCall(c)
  PROVE  WatcherInv'
<1>1. /\ phase = "canonical" /\ phase' = phase
      /\ UNCHANGED <<subject, derivable, evidence>> /\ ahead' \subseteq ahead
      /\ UNCHANGED <<environment, lock, cursor, records, outbox, latest, start, todo, receipts,
                     fresh, sent, unread>>
  BY DEF PassOverCall, Looked, ledger, history
<1>2. phase \in Looking
  BY <1>1 DEF Looking
<1>3. Held'
  BY <1>1, <1>2 DEF WatcherInv, Held
<1>4. QuietHands
  BY <1>1, <1>3, Types DEF QuietHands
<1> QED BY <1>1, <1>2, <1>4, LookHolds

(* The next read about the call in hand, of the nonces and of the queue.    *)
LEMMA NextReadHolds ==
  ASSUME WatcherInv, phase \in {"before", "after", "queue"}, Looked, ahead' = ahead,
         evidence' \in Evidence, evidence'.call = evidence.call, evidence'.late = evidence.late,
         \/ /\ phase = "before" /\ phase' = "after"
            /\ evidence'.before = NonceAt(chain, evidence.call.height - 1)
         \/ /\ phase = "after" /\ phase' = "queue"
            /\ evidence'.before = evidence.before
            /\ evidence'.after = NonceAt(chain, evidence.call.height)
         \/ /\ phase = "queue" /\ phase' = "key" /\ Outcome # "none" /\ evidence' = evidence
  PROVE  WatcherInv'
<1>1. /\ subject' = subject /\ derivable' = derivable
      /\ UNCHANGED <<environment, lock, cursor, records, outbox, latest, start, todo, receipts,
                     fresh, sent, unread>>
      /\ chain' = chain /\ deepest' = deepest
  BY DEF Looked, ledger, history, environment
<1>2. /\ phase \in Looking \ {"canonical"} /\ phase' \in Looking \ {"canonical"}
  BY DEF Looking
<1>3. Held'
  <2>1. phase' = "key" => Outcome' # "none"
    BY <1>1 DEF Outcome
  <2>2. ahead' \subseteq receipts'
    BY <1>1 DEF WatcherInv, Held
  <2> DEFINE c == evidence.call
             h == c.height
  <2>3. c \in receipts /\ (deepest < Confirmations => Canonical(c)) /\ (Canonical(c)' <=> Canonical(c))
    <3>1. c' = c
      BY <1>1
    <3> QED BY <1>1, <1>2, <3>1 DEF WatcherInv, Held, Canonical
  <2>4. ASSUME Canonical(c)
        PROVE  /\ evidence.late /\ NonceAt(chain, h - 1) < subject.item
                    => subject.item \in chain[h].lapsed
               /\ phase' \in {"after", "queue", "key"} => evidence'.before = NonceAt(chain, h - 1)
               /\ phase' \in {"queue", "key"} => evidence'.after = NonceAt(chain, h)
    BY <1>2, <2>4 DEF WatcherInv, Held
  <2>5. evidence'.call = c /\ evidence'.call.height = h /\ evidence'.late = evidence.late
    OBVIOUS
  <2>6. evidence'.call \in receipts' /\ (deepest' < Confirmations => Canonical(evidence.call)')
    BY <1>1, <2>3, <2>5
  <2>7. Canonical(evidence.call)' =>
          /\ evidence'.late /\ NonceAt(chain', evidence'.call.height - 1) < subject'.item
               => subject'.item \in chain'[evidence'.call.height].lapsed
          /\ phase' \in {"after", "queue", "key"} => evidence'.before = NonceAt(chain', evidence'.call.height - 1)
          /\ phase' \in {"queue", "key"} => evidence'.after = NonceAt(chain', evidence'.call.height)
    BY <1>1, <2>3, <2>4, <2>5
  <2> QED BY <1>2, <2>1, <2>2, <2>6, <2>7 DEF Held
<1>4. QuietHands
  BY <1>1, <1>3, Types DEF QuietHands
<1> QED BY <1>1, <1>2, <1>4, LookHolds

LEMMA ReadBeforeHolds ==
  ASSUME WatcherInv, ReadBefore
  PROVE  WatcherInv'
<1>1. /\ phase = "before" /\ phase' = "after" /\ Looked /\ ahead' = ahead
      /\ evidence' = [evidence EXCEPT !.before = NonceAt(chain, evidence.call.height - 1)]
  BY DEF ReadBefore, Enter
<1>2. phase \in Looking \ {"canonical"}
  BY <1>1 DEF Looking
<1>3. evidence \in Evidence /\ NonceAt(chain, evidence.call.height - 1) \in Nat
  BY <1>2, InHandNow, Types
<1>4. /\ evidence' \in Evidence /\ evidence'.call = evidence.call /\ evidence'.late = evidence.late
      /\ evidence'.before = NonceAt(chain, evidence.call.height - 1)
  BY <1>1, <1>3 DEF Evidence
<1> QED BY <1>1, <1>4, NextReadHolds

LEMMA ReadAfterHolds ==
  ASSUME WatcherInv, ReadAfter
  PROVE  WatcherInv'
<1>1. /\ phase = "after" /\ phase' = "queue" /\ Looked /\ ahead' = ahead
      /\ evidence' = [evidence EXCEPT !.after = NonceAt(chain, evidence.call.height)]
  BY DEF ReadAfter, Enter
<1>2. phase \in Looking \ {"canonical"}
  BY <1>1 DEF Looking
<1>3. evidence \in Evidence /\ NonceAt(chain, evidence.call.height) \in Nat
  BY <1>2, InHandNow, Types
<1>4. /\ evidence' \in Evidence /\ evidence'.call = evidence.call /\ evidence'.late = evidence.late
      /\ evidence'.before = evidence.before
      /\ evidence'.after = NonceAt(chain, evidence.call.height)
  BY <1>1, <1>3 DEF Evidence
<1> QED BY <1>1, <1>4, NextReadHolds

LEMMA DecideHolds ==
  ASSUME WatcherInv, Decide
  PROVE  WatcherInv'
<1>1. /\ phase = "queue" /\ phase' = "key" /\ Looked /\ ahead' = ahead
      /\ evidence' = evidence /\ Outcome # "none"
  BY DEF Decide, Enter
<1>2. evidence' \in Evidence
  BY <1>1, Types
<1> QED BY <1>1, <1>2, NextReadHolds

LEMMA LeaveCallHolds ==
  ASSUME WatcherInv, LeaveCall
  PROVE  WatcherInv'
<1>1. /\ phase = "queue" /\ phase' = "canonical" /\ evidence' = NoEvidence /\ ahead' = ahead
      /\ UNCHANGED <<subject, derivable>>
      /\ UNCHANGED <<environment, lock, cursor, records, outbox, latest, start, todo, receipts,
                     fresh, sent, unread>>
  BY DEF LeaveCall, Looked, Enter, ledger, history
<1>2. phase \in Looking /\ phase' \in Looking
  BY <1>1 DEF Looking
<1>3. Held'
  BY <1>1, <1>2 DEF WatcherInv, Held
<1>4. QuietHands
  BY <1>1, <1>3, Types, NothingIsARecord DEF QuietHands
<1> QED BY <1>1, <1>2, <1>4, LookHolds

(* What the call in hand made of the item, as long as its block is canonical. *)
LEMMA OutcomeIsTrue ==
  ASSUME WatcherInv, phase = "key", Canonical(evidence.call)
  PROVE  LET h == evidence.call.height
         IN  /\ Outcome = "executed" => subject.item \in chain[h].executed
             /\ Outcome = "skipped" => /\ subject.item \in chain[h].lapsed
                                       /\ NonceAt(chain, h - 1) < subject.item
                                       /\ subject.item <= chain[h].nonce
<1> DEFINE c == evidence.call
           h == c.height
<1>1. phase \in Looking \ {"canonical"} /\ phase \in {"queue", "key"} /\ phase \in {"after", "queue", "key"}
  BY DEF Looking
<1>2. /\ c \in receipts /\ h \in 1..Len(chain) /\ subject.item \in Nat
      /\ NonceAt(chain, h - 1) \in Nat /\ NonceAt(chain, h) \in Nat
  BY <1>1, InHandNow
<1>3. /\ evidence.late /\ NonceAt(chain, h - 1) < subject.item => subject.item \in chain[h].lapsed
      /\ evidence.before = NonceAt(chain, h - 1) /\ evidence.after = NonceAt(chain, h)
  BY <1>1 DEF WatcherInv, Held
<1>4. NonceAt(chain, h) = chain[h].nonce
  BY <1>2 DEF NonceAt
<1>5. c.tx \in DOMAIN chain[h].txs /\ chain[h].txs[c.tx] = c.kind /\ BlockFits(chain, h)
  BY <1>2 DEF WatcherInv, Sighted
<1>6. ASSUME Outcome = "executed" PROVE subject.item \in chain[h].executed
  <2>1. c.kind = "executed" /\ NonceAt(chain, h - 1) = subject.item - 1 /\ NonceAt(chain, h) = subject.item
    BY <1>3, <1>6 DEF Outcome
  <2>2. chain[h].nonce = NonceAt(chain, h - 1) + 1
    BY <1>2, <1>4, <2>1
  <2>3. chain[h].nonce \in chain[h].executed
    BY <1>5, <2>1, <2>2 DEF BlockFits
  <2> QED BY <1>4, <2>1, <2>3
<1>7. ASSUME Outcome = "skipped"
      PROVE  /\ subject.item \in chain[h].lapsed
             /\ NonceAt(chain, h - 1) < subject.item
             /\ subject.item <= chain[h].nonce
  <2>1. evidence.before < subject.item /\ subject.item <= evidence.after /\ evidence.late
    BY <1>7 DEF Outcome
  <2> QED BY <1>3, <1>4, <2>1
<1> QED BY <1>6, <1>7

LEMMA StoreDerivedHolds ==
  ASSUME WatcherInv, StoreDerived
  PROVE  WatcherInv'
<1> DEFINE a == DerivedAlert
           c == evidence.call
<1>1. /\ phase = "key" /\ phase' = "derive" /\ Accept(a) /\ LetGo
      /\ UNCHANGED <<environment, lock, latest, start, todo, receipts, derivable, sent, unread>>
  BY DEF StoreDerived, DropSubject, Enter, history
<1>2. phase \in Looking \ {"canonical"} /\ phase' \notin Looking
  BY <1>1 DEF Looking
<1>3. QuietHands
  BY <1>1, <1>2, HandsAreFree
<1>4. CASE Recorded(a)
  <2>1. UNCHANGED <<cursor, records, outbox, fresh>>
    BY <1>1, <1>4 DEF Accept, ledger
  <2> QED BY <1>1, <1>2, <1>3, <2>1, LookHolds
<1>5. CASE ~Recorded(a)
  <2>1. /\ c \in receipts /\ c \in Log /\ c.height \in 1..Len(chain)
        /\ c.height + Confirmations <= latest + 1 /\ subject.item \in Nat
    BY <1>2, InHandNow
  <2>2. chain[c.height] \in Block /\ chain[c.height].branch <= branch
    BY <2>1, Types DEF WatcherInv, Sighted
  <2>3. /\ c.height \in Nat /\ c.branch \in Nat /\ c.tx \in Nat /\ chain[c.height].branch \in Nat
    BY <2>1, <2>2 DEF Log, Block
  <2>4. Outcome \in {"executed", "skipped"}
    <3>1. Outcome # "none"
      BY <1>1 DEF WatcherInv, Held
    <3> QED BY <3>1 DEF Outcome
  <2>5. /\ a.height = c.height /\ a.branch = chain[c.height].branch /\ a.seen = c.branch
        /\ a.item = subject.item /\ a.kind = Outcome
        /\ a = [height |-> c.height, branch |-> chain[c.height].branch, seen |-> c.branch,
                tx |-> c.tx, index |-> 0, item |-> subject.item, kind |-> Outcome]
    BY DEF DerivedAlert
  <2> HIDE DEF a, c
  <2>6. a \in Record
    BY <2>1, <2>3, <2>4, <2>5 DEF Record
  <2>7. New(a)
    BY <1>1, <1>3, <1>5 DEF Accept, New, history
  <2>8. Canonical(a) /\ Placed(a)
    BY <2>1, <2>2, <2>5 DEF Canonical, Placed
  <2>9. a \notin sent
    <3>1. a \notin records
      BY <1>5 DEF Recorded
    <3> QED BY <2>8, <3>1 DEF WatcherInv, Told
  <2>10. deepest < Confirmations => a.seen = a.branch
    <3>1. deepest < Confirmations => Canonical(c)
      BY <1>2 DEF WatcherInv, Held, c
    <3> QED BY <2>5, <3>1 DEF Canonical
  <2>11. a.seen = a.branch =>
           /\ a.kind = "executed" => a.item \in chain[a.height].executed
           /\ a.kind = "skipped" => /\ a.item \in chain[a.height].lapsed
                                    /\ NonceAt(chain, a.height - 1) < a.item
                                    /\ a.item <= chain[a.height].nonce
    <3>1. SUFFICES ASSUME a.seen = a.branch
                   PROVE  /\ a.kind = "executed" => a.item \in chain[a.height].executed
                          /\ a.kind = "skipped" => /\ a.item \in chain[a.height].lapsed
                                                   /\ NonceAt(chain, a.height - 1) < a.item
                                                   /\ a.item <= chain[a.height].nonce
      OBVIOUS
    <3>2. Canonical(evidence.call)
      BY <2>5, <3>1 DEF Canonical, c
    <3>3. LET h == c.height
          IN  /\ Outcome = "executed" => subject.item \in chain[h].executed
              /\ Outcome = "skipped" => /\ subject.item \in chain[h].lapsed
                                        /\ NonceAt(chain, h - 1) < subject.item
                                        /\ subject.item <= chain[h].nonce
      BY <1>1, <3>2, OutcomeIsTrue DEF c
    <3> QED BY <2>5, <3>3
  <2>12. todo = {} /\ todo' = {}
    BY <1>1 DEF WatcherInv, InHand
  <2>13. ASSUME deepest <= Confirmations
         PROVE  \A x \in Reportable(latest - Confirmations) : Passed(x)
    BY <1>2, <2>12, <2>13, PassedSoFar
  <2>14. ASSUME deepest <= Confirmations, NEW x \in Reportable(a.height - 1) PROVE Passed(x)
    <3>1. /\ chain \in Seq(Block) /\ Len(chain) \in Nat /\ latest \in 0..Len(chain)
          /\ Confirmations \in Nat \ {0} /\ a.height \in 1..Len(chain)
          /\ a.height + Confirmations <= latest + 1
      BY <2>1, <2>5, Types
    <3>2. a.height - 1 \in Int /\ a.height - 1 <= Len(chain)
          /\ latest - Confirmations \in Int /\ a.height - 1 <= latest - Confirmations
      BY <3>1
    <3>3. x.height \in 1..(a.height - 1) /\ \A other \in Int : x.height <= other => x \in Reportable(other)
      BY <2>14, <3>1, <3>2, ReportableOnChain
    <3>4. x \in Reportable(latest - Confirmations)
      BY <3>1, <3>2, <3>3
    <3> QED BY <2>13, <2>14, <3>4
  <2>15. a.height + Confirmations <= latest + 1
    BY <2>1, <2>5
  <2>16. Due(a)
    BY <2>6, <2>8, <2>9, <2>10, <2>11, <2>13, <2>14, <2>15 DEF Due
  <2> QED BY <2>7, <2>16, NewHolds
<1> QED BY <1>4, <1>5

LEMMA PassOverRecordHolds ==
  ASSUME WatcherInv, PassOverRecord
  PROVE  WatcherInv'
<1>1. /\ phase \in Looking /\ phase' = "derive" /\ LetGo
      /\ UNCHANGED <<environment, lock, cursor, records, outbox, latest, start, todo, receipts,
                     derivable, fresh, sent, unread>>
  BY DEF PassOverRecord, DropSubject, Enter, ledger, history, Looking
<1>2. phase' \notin Looking
  BY <1>1 DEF Looking
<1>3. QuietHands
  BY <1>1, <1>2, HandsAreFree
<1> QED BY <1>1, <1>3, LookHolds

LEMMA LookAtRecordHolds ==
  ASSUME WatcherInv, LookAtRecord
  PROVE  WatcherInv' /\ phase # "notify"
<1>1. CASE \E r \in derivable : TakeRecord(r)
  <2>1. PICK r \in derivable : TakeRecord(r)
    BY <1>1
  <2>2. phase = "derive"
    BY <2>1 DEF TakeRecord
  <2> QED BY <2>1, <2>2, TakeRecordHolds
<1>2. CASE \E c \in ahead : CheckCanonical(c) \/ PassOverCall(c)
  <2>1. PICK c \in ahead : CheckCanonical(c) \/ PassOverCall(c)
    BY <1>2
  <2>2. phase = "canonical"
    BY <2>1 DEF CheckCanonical, PassOverCall
  <2> QED BY <2>1, <2>2, CheckCanonicalHolds, PassOverCallHolds
<1>3. CASE ReadBefore
  BY <1>3, ReadBeforeHolds DEF ReadBefore
<1>4. CASE ReadAfter
  BY <1>4, ReadAfterHolds DEF ReadAfter
<1>5. CASE Decide
  BY <1>5, DecideHolds DEF Decide
<1>6. CASE LeaveCall
  BY <1>6, LeaveCallHolds DEF LeaveCall
<1>7. CASE StoreDerived
  BY <1>7, StoreDerivedHolds DEF StoreDerived
<1>8. CASE PassOverRecord
  BY <1>8, PassOverRecordHolds DEF PassOverRecord, Looking
<1> QED BY <1>1, <1>2, <1>3, <1>4, <1>5, <1>6, <1>7, <1>8 DEF LookAtRecord

(* What the ledger keeps when it drops the orphans.                         *)
LEMMA DropKeeps ==
  ASSUME WatcherInv, Reconcile
  PROVE  /\ records' \subseteq records
         /\ \A r \in records : r \in records' <=> Canonical(r)
         /\ cursor' \in 0..cursor
         /\ \A r \in records' : r.height <= cursor'
         /\ cursor' <= 1 \/ cursor' + Confirmations <= Len(chain) + 1
         /\ outbox' \in Seq(Record)
         /\ \A i \in DOMAIN outbox' : outbox'[i] \in records'
         /\ \A i, j \in DOMAIN outbox' : outbox'[i] = outbox'[j] => i = j
<1> DEFINE orphans == {r \in records : ~Canonical(r)}
           left == records \ orphans
           heights == {r.height : r \in left}
<1>1. /\ records' = left /\ outbox' = Without(outbox, orphans)
      /\ cursor' = IF orphans = {} THEN cursor ELSE LastHeight(left)
  BY DEF Reconcile, Drop
<1>2. /\ Sighted /\ Deep /\ Told
      /\ records \subseteq Record /\ cursor \in 0..Len(chain) /\ Len(chain) \in Nat /\ cursor \in Nat
      /\ outbox \in Seq(Record) /\ \A i \in DOMAIN outbox : outbox[i] \in records
  BY Types DEF WatcherInv
<1>3. records' \subseteq records /\ \A r \in records : r \in records' <=> Canonical(r)
  BY <1>1
<1>4. \A r \in records : r.height \in Nat /\ r.height <= cursor /\ r.height + Confirmations <= Len(chain) + 1
  <2>1. \A r \in records : r.height \in Nat
    BY <1>2 DEF Record
  <2> QED BY <1>2, <2>1 DEF Deep
<1>5. /\ cursor' \in 0..cursor
      /\ \A r \in records' : r.height <= cursor'
      /\ cursor' <= 1 \/ cursor' + Confirmations <= Len(chain) + 1
  <2>1. CASE orphans = {}
    <3>1. cursor' = cursor /\ cursor \in 0..cursor
      BY <1>1, <1>2, <2>1
    <3>2. cursor <= 1 \/ cursor + Confirmations <= Len(chain) + 1
      BY CursorIsDeep
    <3> QED BY <1>3, <1>4, <3>1, <3>2
  <2>2. CASE orphans # {} /\ left = {}
    <3>1. cursor' = 0 /\ records' = {}
      BY <1>1, <2>2 DEF LastHeight
    <3> QED BY <1>2, <3>1
  <2>3. CASE orphans # {} /\ left # {}
    <3>1. cursor' = Max(heights)
      BY <1>1, <2>3 DEF LastHeight
    <3>2. heights \in SUBSET Nat /\ heights # {} /\ \A n \in heights : n <= cursor
      BY <1>4, <2>3
    <3>3. cursor' \in heights /\ \A n \in heights : n <= cursor'
      <4> HIDE DEF heights
      <4> QED BY <1>2, <3>1, <3>2, GreatestOf
    <3>4. PICK r \in left : cursor' = r.height
      BY <3>3
    <3>5. cursor' \in 0..cursor /\ cursor' + Confirmations <= Len(chain) + 1
      BY <1>2, <1>4, <3>4
    <3>6. \A x \in records' : x.height \in heights
      BY <1>1
    <3> QED BY <3>3, <3>5, <3>6
  <2> QED BY <2>1, <2>2, <2>3
<1>6. /\ outbox' \in Seq(Record)
      /\ \A i \in DOMAIN outbox' : outbox'[i] \notin orphans /\ \E j \in DOMAIN outbox : outbox'[i] = outbox[j]
      /\ \A i, j \in DOMAIN outbox' : outbox'[i] = outbox'[j] => i = j
  <2>1. \A i, j \in DOMAIN outbox : outbox[i] = outbox[j] => i = j
    BY <1>2 DEF Told
  <2> HIDE DEF orphans
  <2>2. /\ Without(outbox, orphans) \in Seq(Record)
        /\ \A i \in DOMAIN Without(outbox, orphans) :
             /\ Without(outbox, orphans)[i] \notin orphans
             /\ \E j \in DOMAIN outbox : Without(outbox, orphans)[i] = outbox[j]
        /\ \A i, j \in DOMAIN Without(outbox, orphans) :
             Without(outbox, orphans)[i] = Without(outbox, orphans)[j] => i = j
    BY <1>2, <2>1, WithoutKeeps
  <2> QED BY <1>1, <2>2
<1>7. \A i \in DOMAIN outbox' : outbox'[i] \in records'
  BY <1>1, <1>2, <1>6
<1> QED BY <1>3, <1>5, <1>6, <1>7

LEMMA ReconcileHolds ==
  ASSUME WatcherInv, Reconcile
  PROVE  WatcherInv'
<1>1. Sighted /\ Deep /\ InHand /\ Covered /\ Final /\ Held /\ Told /\ Lifecycle
  BY DEF WatcherInv
<1>2. /\ phase = "reconcile" /\ phase' = "fetch" /\ UNCHANGED environment
      /\ chain' = chain /\ branch' = branch /\ deepest' = deepest
      /\ UNCHANGED <<lock, latest, start, todo, receipts, derivable, fresh, subject, ahead, evidence,
                     sent, unread>>
      /\ todo = {} /\ fresh = {}
  BY <1>1 DEF Reconcile, Enter, environment, run, looking, history, InHand
<1>3. /\ chain \in Seq(Block) /\ Len(chain) \in Nat /\ cursor \in 0..Len(chain)
      /\ latest \in 0..Len(chain) /\ start \in 1..(Len(chain) + 1)
      /\ Confirmations \in Nat \ {0} /\ records \subseteq Record
  BY Types
<1>4. /\ \A x : Canonical(x)' <=> Canonical(x)
      /\ \A x : Placed(x)' <=> Placed(x)
      /\ \A to \in Int : to <= Len(chain) => \A x \in Reportable(to)' : x \in Reportable(to)
  BY <1>2, <1>3, ChainIsStill
<1>5. /\ records' \subseteq records
      /\ \A r \in records : r \in records' <=> Canonical(r)
      /\ cursor' \in 0..cursor
      /\ \A r \in records' : r.height <= cursor'
      /\ cursor' <= 1 \/ cursor' + Confirmations <= Len(chain) + 1
      /\ outbox' \in Seq(Record)
      /\ \A i \in DOMAIN outbox' : outbox'[i] \in records'
      /\ \A i, j \in DOMAIN outbox' : outbox'[i] = outbox'[j] => i = j
  BY DropKeeps
<1>6. cursor' \in 0..Len(chain) /\ cursor' \in Int
  BY <1>3, <1>5
<1>7. Sighted'
  <2>1. WatcherTypeOK'
    <3>1. phase' \in Phases
      BY <1>2 DEF Phases
    <3> QED BY <1>1, <1>2, <1>5, <1>6, <3>1 DEF Sighted, WatcherTypeOK
  <2>2. (outbox \in Seq(Record) /\ todo \subseteq Log /\ receipts \subseteq Log)'
    BY <1>1, <1>2, <1>5 DEF Sighted
  <2>3. \A x \in records' \cup sent' \cup todo' \cup receipts' : Placed(x)'
    BY <1>1, <1>2, <1>4, <1>5 DEF Sighted
  <2>4. /\ \A h \in DOMAIN chain' : BlockFits(chain', h) /\ chain'[h].branch <= branch'
        /\ \A log \in todo' : log.kind \in LogKinds
    BY <1>1, <1>2 DEF Sighted
  <2>5. \A c \in receipts' :
          Canonical(c)' => c.tx \in DOMAIN chain'[c.height].txs /\ chain'[c.height].txs[c.tx] = c.kind
    BY <1>1, <1>2, <1>4 DEF Sighted
  <2> QED BY <2>1, <2>2, <2>3, <2>4, <2>5 DEF Sighted
<1>8. Deep'
  <2>1. \A h \in {cursor', start'} : h <= 1 \/ h + Confirmations <= Len(chain') + 1
    BY <1>1, <1>2, <1>5 DEF Deep
  <2>2. /\ \A r \in records' \cup sent' : r.height + Confirmations <= Len(chain') + 1
        /\ \A c \in receipts' : c.height + Confirmations <= latest' + 1
    BY <1>1, <1>2, <1>5 DEF Deep
  <2> QED BY <1>5, <2>1, <2>2 DEF Deep
<1>9. InHand'
  BY <1>2 DEF InHand
<1>10. Covered'
  <2>1. SUFFICES ASSUME deepest <= Confirmations
                 PROVE  /\ \A log \in Reportable(cursor - 1)' : Passed(log)'
                        /\ \A log \in Reportable(start - 1)' : Passed(log)'
    <3>1. phase' \notin {"logs", "derive"} \cup Looking
      BY <1>2 DEF Looking
    <3> QED BY <1>2, <3>1 DEF Covered
  <2>2. ASSUME NEW log, Canonical(log), Passed(log) PROVE Passed(log)'
    <3>1. CASE log \in unread
      BY <1>2, <3>1 DEF Passed
    <3>2. CASE Recorded(AlertOf(log))
      <4>1. PICK s \in records : Id(s) = Id(AlertOf(log))
        BY <3>2 DEF Recorded
      <4>2. s.height = log.height /\ s.branch = log.branch
        BY <4>1 DEF Id, AlertOf
      <4>3. s \in records'
        BY <1>5, <2>2, <4>2 DEF Canonical
      <4> QED BY <4>1, <4>3 DEF Passed, Recorded
    <3> QED BY <2>2, <3>1, <3>2 DEF Passed
  <2>3. ASSUME NEW to \in Int, to < Len(chain) + 1, \A log \in Reportable(to) : Passed(log),
               NEW below \in Int, below <= to, NEW log \in Reportable(below)
        PROVE  Passed(log)'
    <3>1. /\ log.height \in 1..below /\ Canonical(log)
          /\ \A other \in Int : log.height <= other => log \in Reportable(other)
      <4>1. below <= Len(chain)
        BY <1>3, <2>3
      <4> QED BY <1>3, <2>3, <4>1, ReportableOnChain
    <3>2. log \in Reportable(to)
      BY <2>3, <3>1
    <3> QED BY <2>2, <2>3, <3>1, <3>2
  <2>4. /\ \A log \in Reportable(cursor - 1) : Passed(log)
        /\ \A log \in Reportable(start - 1) : Passed(log)
    BY <1>2, <2>1, PassedSoFar
  <2>5. ASSUME NEW log \in Reportable(cursor - 1)' PROVE Passed(log)'
    <3>3. /\ cursor \in Int /\ cursor <= Len(chain) /\ Len(chain) \in Int
          /\ cursor' \in Int /\ cursor' <= cursor
      BY <1>3, <1>5, <1>6
    <3>1. cursor' - 1 \in Int /\ cursor' - 1 <= Len(chain) /\ cursor' - 1 <= cursor - 1
          /\ cursor - 1 \in Int /\ cursor - 1 < Len(chain) + 1
      <4>1. \A m, n, l \in Int : m <= n /\ n <= l =>
              m - 1 \in Int /\ m - 1 <= l /\ m - 1 <= n - 1 /\ n - 1 \in Int /\ n - 1 < l + 1
        OBVIOUS
      <4> QED BY <3>3, <4>1
    <3>2. log \in Reportable(cursor' - 1)
      BY <1>4, <3>1
    <3> QED BY <2>3, <2>4, <3>1, <3>2
  <2>6. ASSUME NEW log \in Reportable(start - 1)' PROVE Passed(log)'
    <3>1. start - 1 \in Int /\ start - 1 <= Len(chain) /\ start - 1 < Len(chain) + 1 /\ start' = start
      BY <1>2, <1>3
    <3>2. log \in Reportable(start - 1)
      BY <1>4, <3>1
    <3> QED BY <2>3, <2>4, <3>1, <3>2
  <2> QED BY <2>5, <2>6
<1>11. Final'
  BY <1>1, <1>2, <1>4, <1>5 DEF Final
<1>12. Told'
  <2>1. \A r \in sent' \ records' : ~Canonical(r)' /\ \A log \in todo' : AlertOf(log) # r
    BY <1>1, <1>2, <1>4, <1>5 DEF Told
  <2> QED BY <1>2, <1>5, <2>1 DEF Told
<1>13. Lifecycle'
  BY <1>1, <1>2, <1>4, <1>5 DEF Lifecycle
<1>14. Held'
  <2>1. phase \notin Looking /\ phase' \notin Looking
    BY <1>2 DEF Looking
  <2> QED BY <1>2, <2>1, HandsAreFree DEF QuietHands
<1> QED BY <1>7, <1>8, <1>9, <1>10, <1>11, <1>12, <1>13, <1>14 DEF WatcherInv

(* Announcing touches the outbox and what was sent, and nothing else.       *)
LEMMA TellingHolds ==
  ASSUME WatcherInv, UNCHANGED <<environment, lock, cursor, records, run, unread>>,
         phase' \in {"notify", "mark"}, sent' \subseteq sent \cup records,
         outbox' \in Seq(Record), \A i \in DOMAIN outbox' : outbox'[i] \in records,
         \A i, j \in DOMAIN outbox' : outbox'[i] = outbox'[j] => i = j,
         \A i \in DOMAIN outbox' :
           outbox'[i] \in sent' /\ outbox'[i] \in fresh => phase' = "mark" /\ i = 1,
         phase' = "mark" => outbox' # <<>>, phase \in {"notify", "mark"}
  PROVE  WatcherInv'
<1>1. Sighted /\ Deep /\ InHand /\ Covered /\ Final /\ Held /\ Told /\ Lifecycle
  BY DEF WatcherInv
<1>2. /\ UNCHANGED environment /\ chain' = chain /\ branch' = branch /\ deepest' = deepest
      /\ cursor' = cursor /\ records' = records
      /\ UNCHANGED <<lock, latest, start, todo, receipts, derivable, fresh, subject, ahead, evidence,
                     unread>>
  BY DEF environment, run, looking
<1>3. /\ chain \in Seq(Block) /\ Len(chain) \in Nat /\ cursor \in 0..Len(chain) /\ records \subseteq Record
  BY Types
<1>4. /\ \A x : Canonical(x)' <=> Canonical(x)
      /\ \A x : Placed(x)' <=> Placed(x)
      /\ \A to \in Int : to <= Len(chain) => \A x \in Reportable(to)' : x \in Reportable(to)
  BY <1>2, <1>3, ChainIsStill
<1>5. todo = {}
  BY <1>1 DEF InHand
<1>6. Sighted'
  <2>1. WatcherTypeOK'
    <3>1. phase' \in Phases /\ sent' \subseteq Record
      BY <1>1 DEF Phases, Sighted, WatcherTypeOK
    <3> QED BY <1>1, <1>2, <3>1 DEF Sighted, WatcherTypeOK
  <2>2. (outbox \in Seq(Record) /\ todo \subseteq Log /\ receipts \subseteq Log)'
    BY <1>1, <1>2 DEF Sighted
  <2>3. \A x \in records' \cup sent' \cup todo' \cup receipts' : Placed(x)'
    BY <1>1, <1>2, <1>4 DEF Sighted
  <2>4. /\ \A h \in DOMAIN chain' : BlockFits(chain', h) /\ chain'[h].branch <= branch'
        /\ \A log \in todo' : log.kind \in LogKinds
    BY <1>1, <1>2 DEF Sighted
  <2>5. \A c \in receipts' :
          Canonical(c)' => c.tx \in DOMAIN chain'[c.height].txs /\ chain'[c.height].txs[c.tx] = c.kind
    BY <1>1, <1>2, <1>4 DEF Sighted
  <2> QED BY <2>1, <2>2, <2>3, <2>4, <2>5 DEF Sighted
<1>7. Deep'
  BY <1>1, <1>2 DEF Deep
<1>8. InHand'
  BY <1>2, <1>5 DEF InHand
<1>9. Covered'
  <2>1. SUFFICES ASSUME deepest <= Confirmations, NEW log \in Reportable(cursor - 1)' PROVE Passed(log)'
    <3>1. phase' \notin {"reconcile", "fetch"} /\ phase' \notin {"logs", "derive"} \cup Looking
      BY DEF Looking
    <3> QED BY <1>2, <3>1 DEF Covered
  <2>2. cursor - 1 \in Int /\ cursor - 1 <= Len(chain) /\ cursor' = cursor
    BY <1>2, <1>3
  <2>3. log \in Reportable(cursor - 1)
    BY <1>4, <2>1, <2>2
  <2>4. Passed(log)
    BY <2>1, <2>3, PassedSoFar
  <2> QED BY <1>2, <2>4 DEF Passed, Recorded
<1>10. Final'
  BY <1>1, <1>2, <1>4, <1>5 DEF Final
<1>11. Told'
  <2>1. \A r \in sent' \ records' : ~Canonical(r)' /\ \A log \in todo' : AlertOf(log) # r
    BY <1>1, <1>2, <1>4, <1>5 DEF Told
  <2> QED BY <1>2, <2>1 DEF Told
<1>12. Lifecycle'
  BY <1>1, <1>2, <1>4 DEF Lifecycle
<1>13. Held'
  <2>1. phase \notin Looking /\ phase' \notin Looking
    BY DEF Looking
  <2> QED BY <1>2, <2>1, HandsAreFree DEF QuietHands
<1> QED BY <1>6, <1>7, <1>8, <1>9, <1>10, <1>11, <1>12, <1>13 DEF WatcherInv

LEMMA NotifyHolds ==
  ASSUME WatcherInv, Notify
  PROVE  WatcherInv' /\ Head(outbox) \notin sent
<1>1. /\ phase = "notify" /\ phase' = "mark" /\ outbox # <<>> /\ Head(outbox) \in fresh
      /\ sent' = sent \cup {Head(outbox)} /\ outbox' = outbox
      /\ UNCHANGED <<environment, lock, cursor, records, run, unread>>
  BY DEF Notify, Deliverable, Enter, ledger
<1>2. outbox \in Seq(Record) /\ \A i \in DOMAIN outbox : outbox[i] \in records
  BY Types
<1>3. Head(outbox) = outbox[1] /\ 1 \in DOMAIN outbox
  BY <1>1, <1>2
<1>4. /\ \A i, j \in DOMAIN outbox : outbox[i] = outbox[j] => i = j
      /\ \A i \in DOMAIN outbox : ~(outbox[i] \in sent /\ outbox[i] \in fresh)
  BY <1>1 DEF WatcherInv, Told
<1>5. \A i \in DOMAIN outbox' : outbox'[i] \in sent' /\ outbox'[i] \in fresh => i = 1
  BY <1>1, <1>3, <1>4
<1>6. WatcherInv'
  BY <1>1, <1>2, <1>3, <1>4, <1>5, TellingHolds
<1> QED BY <1>1, <1>3, <1>4, <1>6

LEMMA MarkDeliveredHolds ==
  ASSUME WatcherInv, MarkDelivered
  PROVE  WatcherInv'
<1>1. /\ phase = "mark" /\ phase' = "notify" /\ outbox' = Tail(outbox) /\ sent' = sent
      /\ UNCHANGED <<environment, lock, cursor, records, run, unread>>
  BY DEF MarkDelivered, Enter, history
<1>2. outbox \in Seq(Record) /\ \A i \in DOMAIN outbox : outbox[i] \in records
  BY Types
<1>3. /\ outbox # <<>>
      /\ \A i, j \in DOMAIN outbox : outbox[i] = outbox[j] => i = j
      /\ \A i \in DOMAIN outbox : outbox[i] \in sent /\ outbox[i] \in fresh => i = 1
  BY <1>1 DEF WatcherInv, Told
<1>4. outbox' \in Seq(Record)
  BY <1>1, <1>2, <1>3
<1>5. \A i \in DOMAIN outbox' : i \in Nat \ {0} /\ i + 1 \in DOMAIN outbox /\ outbox'[i] = outbox[i + 1]
  <2>1. Len(outbox') = Len(outbox) - 1 /\ \A i \in 1..Len(outbox') : outbox'[i] = outbox[i + 1]
    BY <1>1, <1>2, <1>3, HeadTailProperties
  <2>2. DOMAIN outbox' = 1..Len(outbox') /\ DOMAIN outbox = 1..Len(outbox) /\ Len(outbox) \in Nat
    BY <1>2, <1>4
  <2> QED BY <2>1, <2>2
<1>6. /\ \A i \in DOMAIN outbox' : outbox'[i] \in records
      /\ \A i, j \in DOMAIN outbox' : outbox'[i] = outbox'[j] => i = j
  BY <1>2, <1>3, <1>5
<1>7. \A i \in DOMAIN outbox' : ~(outbox'[i] \in sent' /\ outbox'[i] \in fresh)
  BY <1>1, <1>3, <1>5
<1> QED BY <1>1, <1>4, <1>6, <1>7, TellingHolds

-----------------------------------------------------------------------------
LEMMA InitHolds ==
  ASSUME Init
  PROVE  WatcherInv
<1>1. /\ chain = <<>> /\ branch = 0 /\ deepest = 0 /\ lock = FALSE
      /\ cursor = 0 /\ records = {} /\ outbox = <<>> /\ phase = "idle" /\ latest = 0 /\ start = 1
      /\ todo = {} /\ receipts = {} /\ derivable = {} /\ fresh = {} /\ sent = {} /\ unread = {}
      /\ subject = NoRecord /\ ahead = {} /\ evidence = NoEvidence
  BY DEF Init
<1>2. chain \in Seq(Block) /\ Len(chain) = 0 /\ DOMAIN chain = {} /\ DOMAIN outbox = {} /\ outbox \in Seq(Record)
  BY <1>1
<1>3. Confirmations \in Nat \ {0} /\ deepest \in 0..MaxDepth
  BY <1>1, WatcherAssumption
<1>4. lock \in BOOLEAN
  BY <1>1, Zenon
<1>5. WatcherTypeOK
  BY <1>1, <1>2, <1>3, <1>4, NothingIsARecord DEF WatcherTypeOK, Phases
<1>6. Sighted
  BY <1>1, <1>2, <1>5 DEF Sighted
<1>7. Deep
  BY <1>1, <1>2 DEF Deep
<1>8. Covered
  <2>1. ASSUME NEW x \in Reportable(cursor - 1) PROVE FALSE
    <3>1. cursor - 1 \in Int /\ cursor - 1 <= Len(chain)
      BY <1>1, <1>2
    <3>2. x.height \in 1..(cursor - 1)
      BY <1>2, <3>1, ReportableOnChain
    <3> QED BY <1>1, <3>2
  <2>2. phase \notin {"reconcile", "fetch"} /\ phase \notin {"logs", "derive"} \cup Looking
    BY <1>1 DEF Looking
  <2> QED BY <2>1, <2>2 DEF Covered
<1>10. Held
  <2>1. phase \notin Looking /\ phase # "key"
    BY <1>1 DEF Looking
  <2> QED BY <1>1, <2>1 DEF Held
<1>9. InHand /\ Final /\ Told /\ Lifecycle
  BY <1>1, <1>2 DEF InHand, Final, Told, Lifecycle
<1> QED BY <1>6, <1>7, <1>8, <1>9, <1>10 DEF WatcherInv

LEMMA StutterHolds ==
  ASSUME WatcherInv, UNCHANGED vars
  PROVE  WatcherInv' /\ phase' = phase
<1>1. /\ UNCHANGED <<environment, lock, cursor, records, outbox, phase, latest, start, todo, receipts,
                     derivable, fresh, subject, ahead, evidence, sent, unread>>
      /\ chain' = chain /\ branch' = branch /\ deepest' = deepest
  BY DEF vars, environment, ledger, run, looking, history
<1>2. chain \in Seq(Block) /\ Len(chain) \in Nat /\ cursor \in 0..Len(chain) /\ latest \in 0..Len(chain)
      /\ start \in 1..(Len(chain) + 1) /\ Confirmations \in Nat \ {0}
  BY Types
<1>3. /\ \A x : Canonical(x)' <=> Canonical(x)
      /\ \A x : Placed(x)' <=> Placed(x)
      /\ \A to \in Int : to <= Len(chain) => \A x \in Reportable(to)' : x \in Reportable(to)
  BY <1>1, <1>2, ChainIsStill
<1>4. (Sighted /\ Deep /\ InHand /\ Final /\ Told /\ Lifecycle)'
  BY <1>1, <1>3 DEF WatcherInv, Sighted, WatcherTypeOK, Deep, InHand, Final, Confirmed, Told, Lifecycle
<1>6. Held'
  BY <1>1, <1>3 DEF WatcherInv, Held, Outcome
<1>5. Covered'
  <2>1. /\ cursor - 1 \in Int /\ cursor - 1 <= Len(chain)
        /\ start - 1 \in Int /\ start - 1 <= Len(chain)
        /\ latest - Confirmations \in Int /\ latest - Confirmations <= Len(chain)
    BY <1>2
  <2>2. /\ Reportable(cursor - 1)' \subseteq Reportable(cursor - 1)
        /\ Reportable(start - 1)' \subseteq Reportable(start - 1)
        /\ Reportable(latest - Confirmations)' \subseteq Reportable(latest - Confirmations)
    <3>1. \A to \in {cursor - 1, start - 1, latest - Confirmations} :
            \A x \in Reportable(to)' : x \in Reportable(to)
      BY <1>3, <2>1
    <3>2. cursor' = cursor /\ start' = start /\ latest' = latest
      BY <1>1
    <3> QED BY <3>1, <3>2
  <2>3. \A log : Passed(log)' <=> Passed(log)
    BY <1>1 DEF Passed, Recorded
  <2> QED BY <1>1, <2>2, <2>3 DEF WatcherInv, Covered
<1> QED BY <1>1, <1>4, <1>5, <1>6 DEF WatcherInv

LEMMA RunStepHolds ==
  ASSUME WatcherInv, RunStep
  PROVE  WatcherInv' /\ (phase = "notify" /\ phase' = "mark" => Head(outbox) \notin sent)
<1>1. CASE Begin
  BY <1>1, BeginHolds DEF Begin
<1>2. CASE Reconcile
  BY <1>2, ReconcileHolds DEF Reconcile
<1>3. CASE FetchLogs
  BY <1>3, FetchLogsHolds DEF FetchLogs
<1>4. CASE ProcessLog
  <2>1. PICK log \in todo : RecordLog(log) \/ PassOverLog(log) \/ FailToReadLog(log)
    BY <1>4 DEF ProcessLog
  <2>2. phase = "logs"
    BY <2>1 DEF RecordLog, PassOverLog, FailToReadLog, Processed
  <2> QED BY <2>1, <2>2, RecordLogHolds, PassOverLogHolds, FailToReadLogHolds
<1>5. CASE ReadReceipts
  BY <1>5, ReadReceiptsHolds DEF ReadReceipts
<1>6. CASE LookAtRecord
  BY <1>6, LookAtRecordHolds
<1>7. CASE Announce
  BY <1>7, AnnounceHolds DEF Announce
<1>8. CASE Notify
  BY <1>8, NotifyHolds
<1>9. CASE MarkDelivered
  BY <1>9, MarkDeliveredHolds DEF MarkDelivered
<1>10. CASE End
  BY <1>10, StopHolds DEF End, Enter
<1> QED BY <1>1, <1>2, <1>3, <1>4, <1>5, <1>6, <1>7, <1>8, <1>9, <1>10 DEF RunStep

LEMMA NextHolds ==
  ASSUME WatcherInv, [Next]_vars
  PROVE  WatcherInv' /\ (phase = "notify" /\ phase' = "mark" => Head(outbox) \notin sent)
<1>1. CASE ChainStep
  <2>1. phase' = phase
    BY <1>1, ChainStepKeeps DEF WatcherInv
  <2> QED BY <1>1, <2>1, ChainStepHolds
<1>2. CASE RunStep
  BY <1>2, RunStepHolds
<1>3. CASE Crash
  BY <1>3, StopHolds DEF Crash, Enter
<1>4. CASE Unlock
  BY <1>4, UnlockHolds DEF Unlock
<1>5. CASE UNCHANGED vars
  BY <1>5, StutterHolds
<1> QED BY <1>1, <1>2, <1>3, <1>4, <1>5 DEF Next

(* The inductive invariant: where the ledger, the run and the chain stand    *)
(* to each other after any step of a run, of the chain, or a crash.         *)
THEOREM WatcherInvariant == Spec => []WatcherInv
<1>1. Init => WatcherInv
  BY InitHolds
<1>2. WatcherInv /\ [Next]_vars => WatcherInv'
  BY NextHolds
<1> QED BY <1>1, <1>2, PTL DEF Spec

(* Types, and that what is still to be announced is on record: a record     *)
(* that reconcileCanonical drops is not announced any more.                 *)
THEOREM WatcherTypeCorrect == Spec => []WatcherTypeOK
<1>1. WatcherInv => WatcherTypeOK
  BY DEF WatcherInv, Sighted
<1> QED BY <1>1, WatcherInvariant, PTL

(* The cursor of the ledger file never passes a log that was neither         *)
(* recorded nor skipped as unreadable, whenever the process dies, as long    *)
(* as reorganisations are no deeper than the confirmed depth.               *)
THEOREM CursorNeverPasses == Spec => []CursorPassesNothing
<1>1. WatcherInv => CursorPassesNothing
  BY DEF WatcherInv, Covered, CursorPassesNothing, Passed
<1> QED BY <1>1, WatcherInvariant, PTL

(* No alert that was handed to the notifier ever names an orphaned block,    *)
(* as long as reorganisations stay below the confirmed depth.               *)
THEOREM AlertsStayFinal == Spec => []AlertsAreFinal
<1>1. WatcherInv => AlertsAreFinal
  BY DEF WatcherInv, Final, AlertsAreFinal
<1> QED BY <1>1, WatcherInvariant, PTL

(* What deriveDelayLifecycle records of a queued item is what the chain did  *)
(* with that item: executed in that very block; or past its deadline, and    *)
(* not executed in any block.  The reads it rests on are made one after the  *)
(* other: if the block it files the record under is not the one it saw the   *)
(* call in, nothing is claimed, but that it takes a reorganisation of the     *)
(* confirmed depth.                                                         *)
THEOREM LifecycleIsTold == Spec => []LifecycleIsTrue
<1>1. ASSUME WatcherInv PROVE LifecycleIsTrue
  <2>0. deepest < Confirmations => \A r \in records : r.seen = r.branch
    BY <1>1 DEF WatcherInv, Final
  <2>1. SUFFICES ASSUME NEW r \in records, Canonical(r), r.seen = r.branch, r.kind = "skipped",
                        NEW h \in DOMAIN chain, r.item \in chain[h].executed
                 PROVE  FALSE
    BY <1>1, <2>0 DEF WatcherInv, Lifecycle, LifecycleIsTrue
  <2>2. /\ r.item \in chain[r.height].lapsed
        /\ NonceAt(chain, r.height - 1) < r.item /\ r.item <= chain[r.height].nonce
    BY <1>1, <2>1 DEF WatcherInv, Lifecycle
  <2>3. chain \in Seq(Block) /\ Len(chain) \in Nat /\ r \in Record /\ h \in 1..Len(chain)
    BY <1>1, <2>1, Types
  <2>4. r.item \in Nat /\ r.height \in 1..Len(chain)
    BY <1>1, <2>1, <2>3 DEF Record, WatcherInv, Sighted, Placed
  <2>5. BlockFits(chain, h) /\ BlockFits(chain, r.height)
    BY <1>1, <2>3, <2>4 DEF WatcherInv, Sighted
  <2>6. NonceAt(chain, h - 1) < r.item /\ r.item <= chain[h].nonce /\ r.item \notin chain[h].lapsed
    BY <2>1, <2>5 DEF BlockFits
  <2>7. h - 1 \in 0..Len(chain) /\ h \in 0..Len(chain) /\ r.height - 1 \in 0..Len(chain) /\ r.height \in 0..Len(chain)
    BY <2>3, <2>4
  <2>8. /\ NonceAt(chain, h - 1) \in Nat /\ NonceAt(chain, h) \in Nat
        /\ NonceAt(chain, r.height - 1) \in Nat /\ NonceAt(chain, r.height) \in Nat
    BY <2>3, <2>7, BlockNumbers
  <2>9. NonceAt(chain, h) = chain[h].nonce /\ NonceAt(chain, r.height) = chain[r.height].nonce
    BY <2>3, <2>4 DEF NonceAt
  <2>10. CASE h = r.height
    BY <2>2, <2>6, <2>10
  <2>11. CASE h < r.height
    <3>1. h \in 1..(r.height - 1)
      BY <2>3, <2>4, <2>11
    <3>2. chain[h].nonce <= NonceAt(chain, r.height - 1)
      BY <2>5, <3>1 DEF BlockFits
    <3> QED BY <2>2, <2>4, <2>6, <2>8, <2>9, <3>2
  <2>12. CASE r.height < h
    <3>1. r.height \in 1..(h - 1)
      BY <2>3, <2>4, <2>12
    <3>2. chain[r.height].nonce <= NonceAt(chain, h - 1)
      BY <2>5, <3>1 DEF BlockFits
    <3> QED BY <2>2, <2>4, <2>6, <2>8, <2>9, <3>2
  <2> QED BY <2>3, <2>4, <2>10, <2>11, <2>12
<1> QED BY <1>1, WatcherInvariant, PTL

(* No alert is handed to the notifier twice, in one run or in two, wherever  *)
(* the process dies in between and however often its log is read again.     *)
THEOREM AnnouncedOnceOnly == Spec => AnnouncedOnce
<1>1. WatcherInv /\ [Next]_vars => [phase = "notify" /\ phase' = "mark" => Head(outbox) \notin sent]_vars
  BY NextHolds
<1> QED BY <1>1, WatcherInvariant, PTL DEF Spec, AnnouncedOnce

=============================================================================
