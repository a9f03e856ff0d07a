---------------------------- MODULE VaultProofs ----------------------------
(*****************************************************************************)
(* Facts about the policy windows and the Delay queue, and what they make of *)
(* the vault: type correctness and the daily limits, for any number of       *)
(* guards, tokens, recipients and signers, any amounts, policies and periods.*)
(*****************************************************************************)
EXTENDS LaneClassifier, TLAPS

-----------------------------------------------------------------------------
(* The policy windows, for any period and anchor.                            *)

(* The quotient and the remainder of a division by a positive period.        *)
LEMMA DivBounds ==
  ASSUME NEW x \in Int, NEW p \in Nat \ {0}
  PROVE  /\ x \div p \in Int
         /\ (x \div p) * p \in Int
         /\ (x \div p) * p <= x
         /\ x < (x \div p) * p + p
OBVIOUS

(* Multiplication by a period keeps the order.                               *)
LEMMA MulMono ==
  ASSUME NEW a \in Int, NEW b \in Int, NEW p \in Nat \ {0}, a <= b
  PROVE  a * p <= b * p
OBVIOUS

(* Time never leads back into an earlier policy window (_currentWindow).     *)
LEMMA CurrentWindowMonotone ==
  ASSUME NEW t \in Nat
  PROVE  CurrentWindow(t) <= CurrentWindow(t + 1)
<1> DEFINE p == PeriodSeconds
           q == (t - PeriodAnchor) \div p
           r == (t + 1 - PeriodAnchor) \div p
<1>1. q \in Int /\ r \in Int /\ q * p \in Int /\ r * p \in Int
  BY DivBounds, PeriodAssumption
<1>2. q * p <= t - PeriodAnchor /\ t + 1 - PeriodAnchor < r * p + p
  BY DivBounds, PeriodAssumption
<1>3. q <= r
  <2>1. SUFFICES ASSUME r + 1 <= q PROVE FALSE
    BY <1>1
  <2>2. (r + 1) * p <= q * p
    BY <1>1, <2>1, MulMono, PeriodAssumption
  <2>3. (r + 1) * p = r * p + p
    BY <1>1, PeriodAssumption
  <2> QED BY <1>1, <1>2, <2>2, <2>3, PeriodAssumption
<1>4. q * p <= r * p
  BY <1>1, <1>3, MulMono, PeriodAssumption
<1> QED BY <1>1, <1>4, PeriodAssumption DEF CurrentWindow

(* From the anchor on, a window start is a natural number.                   *)
LEMMA CurrentWindowNat ==
  ASSUME NEW t \in Nat, t >= PeriodAnchor
  PROVE  CurrentWindow(t) \in Nat
<1> DEFINE q == (t - PeriodAnchor) \div PeriodSeconds
<1>1. q \in Int /\ q * PeriodSeconds \in Int
  BY DivBounds, PeriodAssumption
<1>2. t - PeriodAnchor < q * PeriodSeconds + PeriodSeconds
  BY DivBounds, PeriodAssumption
<1>3. q >= 0
  <2>1. SUFFICES ASSUME q <= -1 PROVE FALSE
    BY <1>1
  <2>2. q * PeriodSeconds <= (-1) * PeriodSeconds
    BY <1>1, <2>1, MulMono, PeriodAssumption
  <2> QED BY <1>1, <1>2, <2>2, PeriodAssumption
<1>4. 0 * PeriodSeconds <= q * PeriodSeconds
  BY <1>1, <1>3, MulMono, PeriodAssumption
<1> QED BY <1>1, <1>4, PeriodAssumption DEF CurrentWindow

-----------------------------------------------------------------------------
(* The Delay queue, for any calls, cooldowns and expirations.                *)

(* Marking a range of items leaves a sequence of fates of the same length.   *)
LEMMA SettleType ==
  ASSUME DelayTypeOK, NEW from \in Int, NEW to \in Int, NEW f \in Fates
  PROVE  /\ Settle(from, to, f) \in Seq(Fates)
         /\ Len(Settle(from, to, f)) = Len(queue)
BY DEF DelayTypeOK, Settle

(* The empty queue of the deployment has its type.                           *)
LEMMA DelayInitType == DelayInit => DelayTypeOK
BY DelayAssumption DEF DelayInit, DelayTypeOK

(* Every operation of the queue keeps its type: execTransactionFromModule,   *)
LEMMA EnqueueType ==
  ASSUME DelayTypeOK, NEW call \in DelayedCalls, NEW t \in Nat, Enqueue(call, t)
  PROVE  DelayTypeOK'
BY DEF DelayTypeOK, Enqueue, Fates

(* ... setTxNonce,                                                           *)
LEMMA SetTxNonceType ==
  ASSUME DelayTypeOK, NEW n \in Nat, SetTxNonce(n)
  PROVE  DelayTypeOK'
<1>1. txNonce \in Int /\ "dropped" \in Fates
  BY DEF DelayTypeOK, Fates
<1>2. /\ Settle(txNonce + 1, n, "dropped") \in Seq(Fates)
      /\ Len(Settle(txNonce + 1, n, "dropped")) = Len(queue)
  BY <1>1, SettleType
<1> QED BY <1>2 DEF DelayTypeOK, SetTxNonce

(* ... executeNextTx, whose head is a queued item,                           *)
LEMMA ExecuteNextType ==
  ASSUME DelayTypeOK, NEW t \in Nat, ExecuteNext(t)
  PROVE  DelayTypeOK' /\ HeadItem \in [call: DelayedCalls, createdAt: Nat]
<1>1. txNonce \in Nat /\ txNonce + 1 \in 1 .. Len(queue) /\ "executed" \in Fates
  BY DEF DelayTypeOK, ExecuteNext, HasPending, Fates
<1>2. /\ Settle(txNonce + 1, txNonce + 1, "executed") \in Seq(Fates)
      /\ Len(Settle(txNonce + 1, txNonce + 1, "executed")) = Len(queue)
  BY <1>1, SettleType
<1>3. HeadItem \in [call: DelayedCalls, createdAt: Nat]
  <2> DEFINE Item == [call: DelayedCalls, createdAt: Nat]
  <2>1. queue \in Seq(Item)
    BY DEF DelayTypeOK
  <2> HIDE DEF Item
  <2>2. queue[txNonce + 1] \in Item
    BY <1>1, <2>1
  <2> QED BY <2>2 DEF Item, HeadItem
<1> QED BY <1>1, <1>2, <1>3 DEF DelayTypeOK, ExecuteNext

(* ... the passing of time,                                                  *)
LEMMA LapseType ==
  ASSUME DelayTypeOK, NEW t \in Nat, Lapse(t)
  PROVE  DelayTypeOK'
<1> DEFINE new(i) == IF fate[i] = "pending" /\ Expired(queue[i], t) THEN "lapsed" ELSE fate[i]
<1>1. fate \in Seq(Fates) /\ Len(fate) = Len(queue) /\ Len(queue) \in Nat /\ DOMAIN fate = 1..Len(fate)
  BY DEF DelayTypeOK
<1>2. fate' = [i \in 1..Len(fate) |-> new(i)]
  BY <1>1 DEF Lapse
<1>3. \A i \in 1..Len(fate) : new(i) \in Fates
  BY <1>1 DEF Fates
<1> HIDE DEF new
<1>4. fate' \in Seq(Fates) /\ Len(fate') = Len(fate)
  BY <1>1, <1>2, <1>3
<1>5. queue' = queue /\ txNonce' = txNonce /\ txCooldown' = txCooldown /\ txExpiration' = txExpiration
  BY DEF Lapse
<1> QED BY <1>1, <1>4, <1>5 DEF DelayTypeOK

(* ... and skipExpired.                                                      *)
LEMMA SkipExpiredType ==
  ASSUME DelayTypeOK, NEW t \in Nat, SkipExpired(t)
  PROVE  DelayTypeOK'
<1>1. PICK n \in txNonce + 1 .. Len(queue) :
        /\ txNonce' = n
        /\ fate' = Settle(txNonce + 1, n, "dropped")
        /\ UNCHANGED <<queue, txCooldown, txExpiration>>
  BY DEF SkipExpired
<1>2. txNonce \in Int /\ n \in Int /\ "dropped" \in Fates
  BY DEF DelayTypeOK, Fates
<1>3. /\ Settle(txNonce + 1, n, "dropped") \in Seq(Fates)
      /\ Len(Settle(txNonce + 1, n, "dropped")) = Len(queue)
  BY <1>2, SettleType
<1> QED BY <1>1, <1>3 DEF DelayTypeOK

-----------------------------------------------------------------------------
(* What has left the queue.                                                  *)
Final == {"executed", "dropped"}

(* The history agrees with txNonce: exactly the items below it have left.    *)
FatesMatchNonce == \A i \in DOMAIN fate : fate[i] \in Final <=> i <= txNonce

(* The inductive invariant of the queue.  The cooldown never falls below the *)
(* one of the deployment because the owner path lets it only grow.           *)
QueueInv == FatesMatchNonce /\ txCooldown >= InitialCooldown

(* What a transaction at time t, or the passing of time, does to the queue.  *)
QueueStep(t) ==
  \/ \E call \in DelayedCalls : Enqueue(call, t)
  \/ \E n \in Nat : SetTxNonce(n)
  \/ \E c \in Nat : c >= txCooldown /\ SetTxCooldown(c)
  \/ \E e \in Nat : SetTxExpiration(e)
  \/ ExecuteNext(t)
  \/ Lapse(t + 1)
  \/ SkipExpired(t)
  \/ UNCHANGED delayVars

(* Moving txNonce to n marks only items that were still in the queue.        *)
LEMMA SettledFates ==
  ASSUME DelayTypeOK, FatesMatchNonce, NEW n \in Nat, n > txNonce, n <= Len(queue), NEW f \in Final,
         txNonce' = n, fate' = Settle(txNonce + 1, n, f)
  PROVE  /\ FatesMatchNonce'
         /\ \A i \in DOMAIN fate : fate[i] \in Final => fate'[i] = fate[i]
BY DEF DelayTypeOK, FatesMatchNonce, Settle, Final

(* Every step keeps the invariant and the fate of what has left.             *)
LEMMA QueueStepKeeps ==
  ASSUME DelayTypeOK, QueueInv, NEW t \in Nat, QueueStep(t)
  PROVE  /\ QueueInv'
         /\ \A i \in DOMAIN fate : fate[i] \in Final => fate'[i] = fate[i]
<1>1. ASSUME NEW call \in DelayedCalls, Enqueue(call, t)
      PROVE  /\ QueueInv'
             /\ \A i \in DOMAIN fate : fate[i] \in Final => fate'[i] = fate[i]
  BY <1>1 DEF Enqueue, DelayTypeOK, QueueInv, FatesMatchNonce, Final, Fates
<1>2. ASSUME NEW n \in Nat, SetTxNonce(n)
      PROVE  /\ QueueInv'
             /\ \A i \in DOMAIN fate : fate[i] \in Final => fate'[i] = fate[i]
  BY <1>2, SettledFates DEF SetTxNonce, QueueInv, Final
<1>3. ASSUME NEW c \in Nat, c >= txCooldown, SetTxCooldown(c)
      PROVE  /\ QueueInv'
             /\ \A i \in DOMAIN fate : fate[i] \in Final => fate'[i] = fate[i]
  BY <1>3, DelayAssumption DEF SetTxCooldown, DelayTypeOK, QueueInv, FatesMatchNonce
<1>4. CASE \E e \in Nat : SetTxExpiration(e)
  BY <1>4 DEF SetTxExpiration, QueueInv, FatesMatchNonce
<1>5. CASE ExecuteNext(t)
  <2>1. txNonce \in Nat /\ txNonce + 1 \in Nat /\ txNonce + 1 > txNonce /\ txNonce + 1 <= Len(queue)
    BY <1>5 DEF ExecuteNext, HasPending, DelayTypeOK
  <2> QED BY <1>5, <2>1, SettledFates DEF ExecuteNext, QueueInv, Final
<1>6. CASE Lapse(t + 1)
  BY <1>6 DEF Lapse, DelayTypeOK, QueueInv, FatesMatchNonce, Final
<1>7. CASE SkipExpired(t)
  <2>1. PICK n \in txNonce + 1 .. Len(queue) :
          /\ txNonce' = n
          /\ fate' = Settle(txNonce + 1, n, "dropped")
          /\ UNCHANGED <<queue, txCooldown, txExpiration>>
    BY <1>7 DEF SkipExpired
  <2>2. n \in Nat /\ n > txNonce /\ n <= Len(queue)
    BY DEF DelayTypeOK
  <2> QED BY <2>1, <2>2, SettledFates DEF QueueInv, Final
<1>8. CASE UNCHANGED delayVars
  BY <1>8 DEF delayVars, QueueInv, FatesMatchNonce
<1> QED BY <1>1, <1>2, <1>3, <1>4, <1>5, <1>6, <1>7, <1>8 DEF QueueStep

(* An item can only be executed at the head, by executeNextTx.               *)
LEMMA ExecutionIsHead ==
  ASSUME DelayTypeOK, QueueInv, NEW t \in Nat, QueueStep(t), NEW i \in DOMAIN fate, Executes(i)
  PROVE  ExecuteNext(t) /\ i = txNonce + 1
<1>1. fate[i] \in Fates /\ fate[i] # "executed" /\ fate'[i] = "executed" /\ i \in 1 .. Len(queue)
  BY DEF DelayTypeOK, Executes
<1>2. ASSUME NEW n \in Int, NEW f \in Fates, fate' = Settle(txNonce + 1, n, f)
      PROVE  f = "executed" /\ i \in txNonce + 1 .. n
  BY <1>1, <1>2 DEF Settle
<1>3. ASSUME NEW call \in DelayedCalls, Enqueue(call, t) PROVE FALSE
  <2>1. fate' = Append(fate, "pending") /\ fate \in Seq(Fates) /\ i \in 1 .. Len(fate)
    BY <1>1, <1>3 DEF Enqueue, DelayTypeOK
  <2>2. fate'[i] = fate[i]
    BY <2>1
  <2> QED BY <1>1, <2>2
<1>4. ASSUME NEW n \in Nat, SetTxNonce(n) PROVE FALSE
  <2>1. fate' = Settle(txNonce + 1, n, "dropped") /\ n \in Int /\ "dropped" \in Fates
    BY <1>4 DEF SetTxNonce, Fates
  <2> QED BY <1>2, <2>1
<1>5. ~SkipExpired(t)
  <2> SUFFICES ASSUME SkipExpired(t) PROVE FALSE
    OBVIOUS
  <2>1. PICK n \in txNonce + 1 .. Len(queue) : fate' = Settle(txNonce + 1, n, "dropped")
    BY DEF SkipExpired
  <2>2. n \in Int /\ "dropped" \in Fates
    BY DEF Fates, DelayTypeOK
  <2> QED BY <1>2, <2>1, <2>2
<1>6. ~Lapse(t + 1)
  BY <1>1 DEF Lapse
<1>7. fate' # fate
  BY <1>1
<1>8. ExecuteNext(t)
  BY <1>3, <1>4, <1>5, <1>6, <1>7 DEF QueueStep, SetTxCooldown, SetTxExpiration, delayVars
<1>9. txNonce + 1 \in Int /\ "executed" \in Fates
  BY DEF Fates, DelayTypeOK
<1> QED BY <1>1, <1>2, <1>8, <1>9 DEF ExecuteNext

-----------------------------------------------------------------------------
(* The vault.                                                                *)

(* The fields of a queued call, by its kind.                                 *)
LEMMA CallFields ==
  ASSUME NEW call \in DelayedCalls
  PROVE  /\ call.kind = "transfer" =>
              call.token \in Tokens /\ call.recipient \in Recipients /\ call.amount \in Nat
         /\ call.kind = "repairPolicy" =>
              call.guard \in Guards /\ call.token \in Tokens /\ call.policy \in AssetPolicy
         /\ call.kind = "replaceGuards" =>
              call.expected \in Guards /\ call.replacement \in Guards
         /\ call.kind = "replaceSigner" =>
              call.guard \in Guards /\ call.expectedOld \in Signers
                /\ call.replacement \in Signers /\ call.role \in {"primary", "secondary"}
BY VaultAssumption DEF CallShape

(* Counters as the guard sees them are natural numbers.                      *)
LEMMA SpentType ==
  ASSUME GuardTypeOK, NEW g \in Guards, NEW t \in Tokens, NEW s \in Nat
  PROVE  /\ Spent(g, t, s).baseSpent \in Nat
         /\ Spent(g, t, s).instantSpent \in Nat
BY DEF GuardTypeOK, SpendState, Spent, SpentIn, NothingSpent

(* _authorizeTransfer writes a well-formed counter record.                   *)
LEMMA ConsumeType ==
  ASSUME GuardTypeOK, NEW g \in Guards, NEW approved \in BOOLEAN, NEW token \in Tokens,
         NEW amount \in Nat, NEW s \in Nat, s >= PeriodAnchor,
         Consume(g, approved, token, amount, s)
  PROVE  spendState' \in [Guards -> [Tokens -> SpendState]]
<1> DEFINE spent == Spent(g, token, s)
           state == [window |-> CurrentWindow(s),
                     baseSpent |-> IF approved THEN spent.baseSpent ELSE spent.baseSpent + amount,
                     instantSpent |-> spent.instantSpent + amount]
<1>1. state \in SpendState
  BY SpentType, CurrentWindowNat DEF SpendState
<1>2. spendState' = [spendState EXCEPT ![g][token] = state]
  BY DEF Consume
<1> HIDE DEF state
<1> QED BY <1>1, <1>2 DEF GuardTypeOK

(* A payment the balance covers keeps the types of both ledgers.             *)
LEMMA PayType ==
  ASSUME TypeOK, NEW token \in Tokens, NEW recipient \in Recipients, NEW amount \in Nat,
         Pay(token, recipient, amount)
  PROVE  balance' \in [Tokens -> Nat] /\ received' \in [Tokens -> [Recipients -> Nat]]
<1>1. balance[token] \in Nat /\ received[token][recipient] \in Nat
  BY DEF TypeOK
<1>2. balance[token] - amount \in Nat /\ received[token][recipient] + amount \in Nat
  BY <1>1 DEF Pay
<1> QED BY <1>2 DEF TypeOK, Pay

(* The largest limits so far stay natural numbers.                           *)
LEMMA RaisePeakType ==
  ASSUME TypeOK, NEW g \in Guards, NEW token \in Tokens, NEW policy \in AssetPolicy,
         RaisePeak(g, token, policy)
  PROVE  peak' \in [Guards -> [Tokens -> Lanes]]
BY DEF TypeOK, RaisePeak, Larger, Lanes, AssetPolicy

(* What SafeAtomicSetupHelper leaves has its type.                           *)
LEMMA InitType == Init => TypeOK
<1> SUFFICES ASSUME Init PROVE TypeOK
  OBVIOUS
<1>1. GuardTypeOK
  BY GuardAssumption DEF Init, GuardInit, GuardTypeOK, Unset, AssetPolicy, NothingSpent, SpendState
<1>2. SafeTypeOK
  BY GuardAssumption DEF Init, SafeInit, SafeTypeOK, SignerConfig
<1>3. DelayTypeOK
  BY DelayInitType DEF Init
<1>4. outflow \in [Guards -> [Tokens -> Lanes]]
  BY DEF Init, Lanes
<1>5. peak \in [Guards -> [Tokens -> Lanes]]
  BY <1>1 DEF Init, Lanes, LimitsOf, GuardTypeOK, AssetPolicy
<1> QED BY <1>1, <1>2, <1>3, <1>4, <1>5, VaultAssumption DEF Init, TypeOK

(* Every transaction keeps the type of every variable.                       *)
LEMMA NextType == TypeOK /\ [Next]_vars => TypeOK'
<1> SUFFICES ASSUME TypeOK, [Next]_vars PROVE TypeOK'
  OBVIOUS
<1>g. safe.guard \in Guards /\ safe.owner \in Signers /\ now \in Nat
  BY DEF TypeOK, SafeTypeOK
<1>1. ASSUME NEW primary, NEW secondary, NEW t \in Tokens, NEW r \in Recipients, NEW a \in Amounts,
             OwnerTransfer(primary, secondary, t, r, a)
      PROVE  TypeOK'
  <2> DEFINE g == safe.guard
             approved == secondary # None
  <2>1. a \in Nat
    BY VaultAssumption
  <2>2. now >= PeriodAnchor
    BY <1>1 DEF OwnerTransfer, AuthorizeTransfer
  <2>3. spendState' \in [Guards -> [Tokens -> SpendState]]
    BY <1>1, <1>g, <2>1, <2>2, ConsumeType DEF OwnerTransfer, TypeOK
  <2>4. balance' \in [Tokens -> Nat] /\ received' \in [Tokens -> [Recipients -> Nat]]
    BY <1>1, <2>1, PayType DEF OwnerTransfer
  <2>5. outflow' \in [Guards -> [Tokens -> Lanes]]
    BY <1>1, <1>g, <2>1 DEF OwnerTransfer, TypeOK, Lanes
  <2> QED BY <1>1, <2>3, <2>4, <2>5
          DEF OwnerTransfer, TypeOK, GuardTypeOK, SafeTypeOK, DelayTypeOK, delayVars
<1>2. ASSUME NEW primary, NEW secondary, NEW t \in Tokens, NEW p \in Policies,
             OwnerSetAssetPolicy(primary, secondary, t, p)
      PROVE  TypeOK'
  <2>1. p \in AssetPolicy
    BY VaultAssumption
  <2>2. assetPolicy' \in [Guards -> [Tokens -> AssetPolicy]]
    BY <1>2, <1>g, <2>1 DEF OwnerSetAssetPolicy, SetAssetPolicy, TypeOK, GuardTypeOK
  <2>3. peak' \in [Guards -> [Tokens -> Lanes]]
    BY <1>2, <1>g, <2>1, RaisePeakType DEF OwnerSetAssetPolicy
  <2> QED BY <1>2, <2>2, <2>3
          DEF OwnerSetAssetPolicy, SetAssetPolicy, TypeOK, GuardTypeOK, SafeTypeOK, DelayTypeOK,
              delayVars, money
<1>3. ASSUME NEW primary, NEW secondary, OwnerFreeze(primary, secondary)
      PROVE  TypeOK'
  BY <1>3 DEF OwnerFreeze, SetFrozen, TypeOK, GuardTypeOK, SafeTypeOK, DelayTypeOK,
              delayVars, money, history
<1>4. ASSUME NEW primary, NEW secondary, NEW n \in Nat, OwnerCancel(primary, secondary, n)
      PROVE  TypeOK'
  <2>1. DelayTypeOK'
    BY <1>4, SetTxNonceType DEF OwnerCancel, TypeOK
  <2> QED BY <1>4, <2>1 DEF OwnerCancel, TypeOK, GuardTypeOK, SafeTypeOK, guardVars, money, history
<1>5. ASSUME NEW primary, NEW secondary, NEW s \in Signers \cup {None}, NEW enabled \in BOOLEAN,
             OwnerConfigureSecondary(primary, secondary, s, enabled)
      PROVE  TypeOK'
  <2>1. WithSecondary(safe.guard, s, enabled) \in SignerConfig
    BY <1>g DEF WithSecondary, TypeOK, GuardTypeOK, SignerConfig
  <2> QED BY <1>5, <1>g, <2>1
          DEF OwnerConfigureSecondary, TypeOK, GuardTypeOK, SafeTypeOK, DelayTypeOK,
              delayVars, money, history
<1>6. ASSUME NEW primary, NEW secondary, NEW c \in Cooldowns,
             OwnerSetCooldown(primary, secondary, c)
      PROVE  TypeOK'
  BY <1>6, VaultAssumption
     DEF OwnerSetCooldown, SetTxCooldown, TypeOK, GuardTypeOK, SafeTypeOK, DelayTypeOK,
         guardVars, money, history
<1>7. ASSUME NEW primary, NEW secondary, NEW e \in Expirations,
             OwnerSetExpiration(primary, secondary, e)
      PROVE  TypeOK'
  BY <1>7, VaultAssumption
     DEF OwnerSetExpiration, SetTxExpiration, TypeOK, GuardTypeOK, SafeTypeOK, DelayTypeOK,
         guardVars, money, history
<1>8. ASSUME NEW primary, NEW secondary, NEW call \in DelayedCalls,
             OwnerQueue(primary, secondary, call)
      PROVE  TypeOK'
  <2>1. DelayTypeOK'
    BY <1>8, <1>g, EnqueueType DEF OwnerQueue, TypeOK
  <2> QED BY <1>8, <2>1 DEF OwnerQueue, TypeOK, GuardTypeOK, SafeTypeOK, guardVars, money, history
<1>m. ASSUME ModulePath PROVE DelayTypeOK' /\ HeadItem.call \in DelayedCalls
  BY <1>m, <1>g, ExecuteNextType DEF ModulePath, TypeOK
<1>9. CASE ExecuteTransfer
  <2> DEFINE call == HeadItem.call
  <2>1. ModulePath /\ call.kind = "transfer" /\ Pay(call.token, call.recipient, call.amount)
    BY <1>9 DEF ExecuteTransfer
  <2>2. call.token \in Tokens /\ call.recipient \in Recipients /\ call.amount \in Nat
    BY <1>m, <2>1, CallFields
  <2>3. balance' \in [Tokens -> Nat] /\ received' \in [Tokens -> [Recipients -> Nat]]
    BY <2>1, <2>2, PayType
  <2> QED BY <1>9, <1>m, <2>1, <2>3
          DEF ExecuteTransfer, TypeOK, GuardTypeOK, SafeTypeOK, guardVars, history
<1>10. CASE ExecuteRepairPolicy
  <2> DEFINE call == HeadItem.call
  <2>1. /\ ModulePath /\ call.kind = "repairPolicy"
        /\ RepairPolicy(call.guard, call.token, call.policy)
        /\ RaisePeak(call.guard, call.token, call.policy)
    BY <1>10 DEF ExecuteRepairPolicy
  <2>2. call.guard \in Guards /\ call.token \in Tokens /\ call.policy \in AssetPolicy
    BY <1>m, <2>1, CallFields
  <2>3. assetPolicy' \in [Guards -> [Tokens -> AssetPolicy]]
    BY <2>1, <2>2 DEF RepairPolicy, TypeOK, GuardTypeOK
  <2>4. peak' \in [Guards -> [Tokens -> Lanes]]
    BY <2>1, <2>2, RaisePeakType
  <2> QED BY <1>10, <1>m, <2>1, <2>3, <2>4
          DEF ExecuteRepairPolicy, RepairPolicy, TypeOK, GuardTypeOK, SafeTypeOK, money
<1>11. CASE ExecuteReplaceGuards
  <2> DEFINE call == HeadItem.call
             current == signers[call.expected]
             bound == WithSecondary(call.replacement, current.contractSecondary,
                                    current.contractEnabled)
  <2>1. /\ ModulePath /\ call.kind = "replaceGuards"
        /\ ReplaceGuards(call.expected, call.replacement)
    BY <1>11 DEF ExecuteReplaceGuards
  <2>2. call.expected \in Guards /\ call.replacement \in Guards
    BY <1>m, <2>1, CallFields
  <2>3. bound \in SignerConfig
    BY <2>2 DEF WithSecondary, TypeOK, GuardTypeOK, SignerConfig
  <2>4. signers' = [signers EXCEPT ![call.replacement] = bound]
    BY <2>1 DEF ReplaceGuards
  <2>5. signers' \in [Guards -> SignerConfig]
    BY <2>2, <2>3, <2>4 DEF TypeOK, GuardTypeOK
  <2>6. safe' \in [owner: Signers, guard: Guards, moduleGuard: Guards]
    BY <2>1, <2>2 DEF ReplaceGuards, TypeOK, SafeTypeOK
  <2>7. maintenance' \in [Guards -> BOOLEAN]
    BY <2>1, <2>2 DEF ReplaceGuards, TypeOK, GuardTypeOK
  <2>8. UNCHANGED <<assetPolicy, spendState, frozen, now, money, history>>
    BY <1>11 DEF ExecuteReplaceGuards, ReplaceGuards
  <2> QED BY <1>m, <2>1, <2>5, <2>6, <2>7, <2>8
          DEF TypeOK, GuardTypeOK, SafeTypeOK, money, history
<1>12. CASE ExecuteReplaceSigner
  <2> DEFINE call == HeadItem.call
             repaired == RepairedSigners(call.guard, call.role, call.expectedOld, call.replacement)
  <2>1. /\ ModulePath /\ call.kind = "replaceSigner"
        /\ ReplaceSigner(call.guard, call.role, call.expectedOld, call.replacement)
    BY <1>12 DEF ExecuteReplaceSigner
  <2>2. call.guard \in Guards /\ call.replacement \in Signers
    BY <1>m, <2>1, CallFields
  <2>3. repaired \in SignerConfig
    BY <2>2 DEF RepairedSigners, TypeOK, GuardTypeOK, SignerConfig
  <2>4. signers' = [signers EXCEPT ![call.guard] = repaired]
    BY <2>1 DEF ReplaceSigner
  <2>5. signers' \in [Guards -> SignerConfig]
    BY <2>2, <2>3, <2>4 DEF TypeOK, GuardTypeOK
  <2>6. safe' \in [owner: Signers, guard: Guards, moduleGuard: Guards]
    BY <2>1, <2>2, <1>g DEF ReplaceSigner, TypeOK, SafeTypeOK
  <2>8. UNCHANGED <<assetPolicy, spendState, frozen, maintenance, now, money, history>>
    BY <1>12 DEF ExecuteReplaceSigner, ReplaceSigner
  <2> QED BY <1>m, <2>1, <2>5, <2>6, <2>8
          DEF TypeOK, GuardTypeOK, SafeTypeOK, money, history
<1>13. CASE Skip
  <2>1. DelayTypeOK'
    BY <1>13, <1>g, SkipExpiredType DEF Skip, TypeOK
  <2> QED BY <1>13, <2>1 DEF Skip, TypeOK, GuardTypeOK, SafeTypeOK, guardVars, money, history
<1>14. CASE Tick
  <2>1. DelayTypeOK'
    BY <1>14, <1>g, LapseType DEF Tick, TypeOK
  <2>2. peak' \in [Guards -> [Tokens -> Lanes]] /\ outflow' \in [Guards -> [Tokens -> Lanes]]
    BY <1>14 DEF Tick, TypeOK, GuardTypeOK, Lanes, LimitsOf, AssetPolicy, history
  <2> QED BY <1>14, <1>g, <2>1, <2>2
          DEF Tick, TypeOK, GuardTypeOK, SafeTypeOK, guardVars, money
<1>15. CASE UNCHANGED vars
  BY <1>15 DEF vars, TypeOK, GuardTypeOK, SafeTypeOK, DelayTypeOK, guardVars, delayVars, money, history
<1>16. 0..MaxQueue \subseteq Nat
  BY VaultAssumption
<1> QED BY <1>1, <1>2, <1>3, <1>4, <1>5, <1>6, <1>7, <1>8, <1>9, <1>10, <1>11, <1>12, <1>13,
           <1>14, <1>15, <1>16 DEF Next, OwnerStep, ModuleStep

(* Every reachable state of the vault is well typed; in particular no balance*)
(* and no counter is ever negative and txNonce never passes the queue.       *)
THEOREM TypeCorrect == Spec => []TypeOK
BY InitType, NextType, PTL DEF Spec

-----------------------------------------------------------------------------
(* The limits in force are among those the history has seen.                 *)
LimitsBelowPeak ==
  \A g \in Guards, t \in Tokens :
    /\ assetPolicy[g][t].baseDailyLimit <= peak[g][t].base
    /\ assetPolicy[g][t].instantDailyLimit <= peak[g][t].instant

(* A counter record never belongs to a window still to come, unless empty:   *)
(* this is what makes it stale once the window has changed.                  *)
WindowsPast ==
  \A g \in Guards, t \in Tokens :
    \/ spendState[g][t].window <= CurrentWindow(now)
    \/ spendState[g][t].baseSpent = 0 /\ spendState[g][t].instantSpent = 0

(* The inductive invariant of the spending limits.  CountersExact alone does *)
(* not survive the change of a window, nor DailyLimitsHold a transfer.       *)
CountingInv ==
  /\ CountersExact
  /\ DailyLimitsHold
  /\ LimitsBelowPeak
  /\ WindowsPast

(* What the counting invariant depends on.                                   *)
counting == <<assetPolicy, spendState, now, outflow, peak>>

(* Limits in force are natural numbers.                                      *)
LEMMA PolicyType ==
  ASSUME GuardTypeOK
  PROVE  \A g \in Guards, t \in Tokens :
           /\ assetPolicy[g][t].baseDailyLimit \in Nat
           /\ assetPolicy[g][t].instantDailyLimit \in Nat
<1> SUFFICES ASSUME NEW g \in Guards, NEW t \in Tokens
             PROVE  assetPolicy[g][t] \in AssetPolicy
  BY DEF AssetPolicy
<1> QED BY DEF GuardTypeOK

(* It holds after the atomic setup.                                          *)
LEMMA CountingInit == Init => CountingInv
<1> SUFFICES ASSUME Init PROVE CountingInv
  OBVIOUS
<1>1. TypeOK
  BY InitType
<1>2. CountersExact
  BY DEF Init, GuardInit, CountersExact, Spent, SpentIn, NothingSpent
<1>3. \A g \in Guards, t \in Tokens :
        /\ assetPolicy[g][t].baseDailyLimit \in Nat
        /\ assetPolicy[g][t].instantDailyLimit \in Nat
        /\ peak[g][t] = LimitsOf(assetPolicy[g][t])
  BY <1>1, PolicyType DEF Init, TypeOK
<1>4. LimitsBelowPeak /\ DailyLimitsHold
  BY <1>3 DEF Init, LimitsBelowPeak, DailyLimitsHold, LimitsOf
<1>5. WindowsPast
  BY DEF Init, GuardInit, WindowsPast, NothingSpent
<1> QED BY <1>2, <1>4, <1>5 DEF CountingInv

(* It survives every step that touches none of its variables,                *)
LEMMA CountingStutter ==
  ASSUME CountingInv, UNCHANGED counting
  PROVE  CountingInv'
BY DEF counting, CountingInv, CountersExact, DailyLimitsHold, LimitsBelowPeak, WindowsPast, Spent

(* (a window start is an integer, before the anchor too)                     *)
LEMMA WindowInt ==
  ASSUME NEW s \in Nat
  PROVE  CurrentWindow(s) \in Int
BY DivBounds, PeriodAssumption DEF CurrentWindow

(* ... a new policy, set or repaired,                                        *)
LEMMA CountingRaise ==
  ASSUME TypeOK, CountingInv, NEW g \in Guards, NEW token \in Tokens, NEW policy \in AssetPolicy,
         assetPolicy' = [assetPolicy EXCEPT ![g][token] = policy],
         RaisePeak(g, token, policy),
         UNCHANGED <<spendState, now, outflow>>
  PROVE  CountingInv'
<1>0. /\ policy.baseDailyLimit \in Nat /\ policy.instantDailyLimit \in Nat
      /\ peak[g][token].base \in Nat /\ peak[g][token].instant \in Nat
      /\ peak'[g][token] = [base |-> Larger(peak[g][token].base, policy.baseDailyLimit),
                            instant |-> Larger(peak[g][token].instant, policy.instantDailyLimit)]
      /\ assetPolicy'[g][token] = policy
      /\ \A h \in Guards, t \in Tokens : h # g \/ t # token =>
           peak'[h][t] = peak[h][t] /\ assetPolicy'[h][t] = assetPolicy[h][t]
  BY DEF RaisePeak, TypeOK, GuardTypeOK, Lanes, AssetPolicy
<1>1. \A h \in Guards, t \in Tokens :
        /\ peak[h][t].base <= peak'[h][t].base
        /\ peak[h][t].instant <= peak'[h][t].instant
  <2> SUFFICES ASSUME NEW h \in Guards, NEW t \in Tokens
               PROVE  /\ peak[h][t].base <= peak'[h][t].base
                      /\ peak[h][t].instant <= peak'[h][t].instant
    OBVIOUS
  <2>1. peak[h][t].base \in Nat /\ peak[h][t].instant \in Nat
    BY DEF TypeOK, Lanes
  <2> QED BY <1>0, <2>1 DEF Larger
<1>2. LimitsBelowPeak'
  BY <1>0 DEF CountingInv, LimitsBelowPeak, Larger
<1>3. DailyLimitsHold'
  <2> SUFFICES ASSUME NEW h \in Guards, NEW t \in Tokens
               PROVE  /\ outflow[h][t].base <= peak'[h][t].base
                      /\ outflow[h][t].instant <= peak'[h][t].instant
    BY DEF DailyLimitsHold
  <2>1. /\ outflow[h][t].base \in Nat /\ outflow[h][t].instant \in Nat
        /\ peak[h][t].base \in Nat /\ peak[h][t].instant \in Nat
        /\ peak'[h][t].base \in Nat /\ peak'[h][t].instant \in Nat
    BY RaisePeakType DEF TypeOK, Lanes
  <2> QED BY <1>1, <2>1 DEF CountingInv, DailyLimitsHold
<1>4. CountersExact' /\ WindowsPast'
  BY DEF CountingInv, CountersExact, WindowsPast, Spent
<1> QED BY <1>2, <1>3, <1>4 DEF CountingInv

(* ... a transfer in either lane,                                            *)
LEMMA CountingTransfer ==
  ASSUME TypeOK, CountingInv, NEW primary, NEW secondary, NEW token \in Tokens, NEW recipient,
         NEW amount \in Nat, OwnerTransfer(primary, secondary, token, recipient, amount)
  PROVE  CountingInv'
<1> DEFINE g == safe.guard
           approved == secondary # None
           policy == assetPolicy[g][token]
           spent == Spent(g, token, now)
           base == IF approved THEN spent.baseSpent ELSE spent.baseSpent + amount
           instant == spent.instantSpent + amount
<1>1. g \in Guards /\ now \in Nat /\ policy \in AssetPolicy
      /\ spent.baseSpent \in Nat /\ spent.instantSpent \in Nat
  BY SpentType DEF TypeOK, GuardTypeOK, SafeTypeOK
<1>2. /\ IF approved THEN StepUpLaneAdmits(policy, spent, amount)
                     ELSE BaseLaneAdmits(policy, spent, amount)
      /\ spendState' = [spendState EXCEPT ![g][token] =
           [window |-> CurrentWindow(now), baseSpent |-> base, instantSpent |-> instant]]
      /\ outflow' = [outflow EXCEPT ![g][token] =
           [base |-> IF approved THEN @.base ELSE @.base + amount, instant |-> @.instant + amount]]
      /\ UNCHANGED <<assetPolicy, safe, now, peak>>
  BY DEF OwnerTransfer, AuthorizeTransfer, Consume
<1>3. outflow[g][token].base = spent.baseSpent /\ outflow[g][token].instant = spent.instantSpent
  BY <1>1 DEF CountingInv, CountersExact
<1>4. /\ outflow'[g][token].base = base /\ outflow'[g][token].instant = instant
      /\ Spent(g, token, now)'.baseSpent = base /\ Spent(g, token, now)'.instantSpent = instant
      /\ spendState'[g][token].window = CurrentWindow(now)
  <2>1. outflow'[g][token] = [base |-> base, instant |-> instant]
    BY <1>1, <1>2, <1>3 DEF TypeOK
  <2>2. spendState'[g][token] =
          [window |-> CurrentWindow(now), baseSpent |-> base, instantSpent |-> instant]
    BY <1>1, <1>2 DEF TypeOK, GuardTypeOK
  <2> QED BY <1>2, <2>1, <2>2 DEF Spent, SpentIn
<1>5. \A h \in Guards, t \in Tokens : h # g \/ t # token =>
        outflow'[h][t] = outflow[h][t] /\ spendState'[h][t] = spendState[h][t]
  BY <1>1, <1>2 DEF TypeOK, GuardTypeOK
<1>6. CountersExact'
  BY <1>2, <1>4, <1>5 DEF CountingInv, CountersExact, Spent
<1>7. base <= peak[g][token].base /\ instant <= peak[g][token].instant
  <2>1. /\ policy.baseDailyLimit \in Nat /\ policy.instantDailyLimit \in Nat
        /\ peak[g][token].base \in Nat /\ peak[g][token].instant \in Nat
        /\ policy.baseDailyLimit <= peak[g][token].base
        /\ policy.instantDailyLimit <= peak[g][token].instant
    BY <1>1 DEF TypeOK, Lanes, AssetPolicy, CountingInv, LimitsBelowPeak
  <2>2. spent.baseSpent <= peak[g][token].base
    BY <1>1, <1>3 DEF CountingInv, DailyLimitsHold
  <2>3. instant <= policy.instantDailyLimit
    BY <1>1, <1>2, <2>1 DEF StepUpLaneAdmits, BaseLaneAdmits
  <2>4. ~approved => base <= policy.baseDailyLimit
    BY <1>1, <1>2, <2>1 DEF BaseLaneAdmits
  <2> QED BY <1>1, <2>1, <2>2, <2>3, <2>4
<1>8. DailyLimitsHold'
  BY <1>2, <1>4, <1>5, <1>7 DEF CountingInv, DailyLimitsHold
<1>9. LimitsBelowPeak'
  BY <1>2 DEF CountingInv, LimitsBelowPeak
<1>10. WindowsPast'
  BY <1>1, <1>2, <1>4, <1>5, WindowInt DEF CountingInv, WindowsPast
<1> QED BY <1>6, <1>8, <1>9, <1>10 DEF CountingInv

(* ... and the passing of time, in a window or across its end.               *)
LEMMA CountingTick ==
  ASSUME TypeOK, CountingInv, Tick
  PROVE  CountingInv'
<1>1. /\ now \in Nat /\ now' = now + 1
      /\ UNCHANGED <<assetPolicy, spendState>>
  BY DEF Tick, TypeOK, guardVars
<1>2. CurrentWindow(now) \in Int /\ CurrentWindow(now') \in Int
      /\ CurrentWindow(now) <= CurrentWindow(now')
  BY <1>1, WindowInt, CurrentWindowMonotone
<1>3. WindowsPast'
  BY <1>1, <1>2 DEF CountingInv, WindowsPast, TypeOK, GuardTypeOK, SpendState
<1>4. CASE CurrentWindow(now + 1) = CurrentWindow(now)
  <2>1. UNCHANGED history
    BY <1>4 DEF Tick
  <2> QED BY <1>1, <1>3, <1>4, <2>1
          DEF history, CountingInv, CountersExact, DailyLimitsHold, LimitsBelowPeak, Spent
<1>5. CASE CurrentWindow(now + 1) # CurrentWindow(now)
  <2>1. /\ outflow' = [g \in Guards |-> [t \in Tokens |-> [base |-> 0, instant |-> 0]]]
        /\ peak' = [g \in Guards |-> [t \in Tokens |-> LimitsOf(assetPolicy[g][t])]]
    BY <1>5 DEF Tick
  <2>2. CountersExact'
    <3> SUFFICES ASSUME NEW g \in Guards, NEW t \in Tokens
                 PROVE  /\ Spent(g, t, now)'.baseSpent = 0
                        /\ Spent(g, t, now)'.instantSpent = 0
      BY <2>1 DEF CountersExact
    <3>1. CurrentWindow(now) # CurrentWindow(now') /\ spendState[g][t].window \in Nat
      BY <1>1, <1>5 DEF TypeOK, GuardTypeOK, SpendState
    <3>2. \/ spendState[g][t].window # CurrentWindow(now')
          \/ spendState[g][t].baseSpent = 0 /\ spendState[g][t].instantSpent = 0
      BY <1>2, <3>1 DEF CountingInv, WindowsPast
    <3> QED BY <1>1, <3>2 DEF Spent, SpentIn, NothingSpent
  <2>3. LimitsBelowPeak' /\ DailyLimitsHold'
    BY <1>1, <2>1, PolicyType DEF LimitsBelowPeak, DailyLimitsHold, LimitsOf, TypeOK
  <2> QED BY <1>3, <2>2, <2>3 DEF CountingInv
<1> QED BY <1>4, <1>5

(* Hence every transaction keeps it.                                         *)
LEMMA CountingNext == TypeOK /\ CountingInv /\ [Next]_vars => CountingInv'
<1> SUFFICES ASSUME TypeOK, CountingInv, [Next]_vars PROVE CountingInv'
  OBVIOUS
<1>1. ASSUME NEW primary, NEW secondary, NEW t \in Tokens, NEW r \in Recipients, NEW a \in Amounts,
             OwnerTransfer(primary, secondary, t, r, a)
      PROVE  CountingInv'
  BY <1>1, VaultAssumption, CountingTransfer
<1>2. ASSUME NEW primary, NEW secondary, NEW t \in Tokens, NEW p \in Policies,
             OwnerSetAssetPolicy(primary, secondary, t, p)
      PROVE  CountingInv'
  <2>1. p \in AssetPolicy /\ safe.guard \in Guards
    BY VaultAssumption DEF TypeOK, SafeTypeOK
  <2>2. /\ assetPolicy' = [assetPolicy EXCEPT ![safe.guard][t] = p]
        /\ RaisePeak(safe.guard, t, p)
        /\ UNCHANGED <<spendState, now, outflow>>
    BY <1>2 DEF OwnerSetAssetPolicy, SetAssetPolicy
  <2> QED BY <2>1, <2>2, CountingRaise
<1>3. ASSUME NEW primary, NEW secondary,
             \/ OwnerFreeze(primary, secondary)
             \/ \E n \in 0..MaxQueue : OwnerCancel(primary, secondary, n)
             \/ \E s \in Signers \cup {None}, enabled \in BOOLEAN :
                  OwnerConfigureSecondary(primary, secondary, s, enabled)
             \/ \E c \in Cooldowns : OwnerSetCooldown(primary, secondary, c)
             \/ \E e \in Expirations : OwnerSetExpiration(primary, secondary, e)
             \/ \E call \in DelayedCalls : OwnerQueue(primary, secondary, call)
      PROVE  CountingInv'
  <2>1. UNCHANGED counting
    BY <1>3 DEF OwnerFreeze, SetFrozen, OwnerCancel, OwnerConfigureSecondary, OwnerSetCooldown,
                OwnerSetExpiration, OwnerQueue, counting, guardVars, history
  <2> QED BY <2>1, CountingStutter
<1>4. CASE ExecuteRepairPolicy
  <2> DEFINE call == HeadItem.call
  <2>1. /\ call.guard \in Guards /\ call.token \in Tokens /\ call.policy \in AssetPolicy
    <3>1. ModulePath /\ call.kind = "repairPolicy"
      BY <1>4 DEF ExecuteRepairPolicy
    <3>2. call \in DelayedCalls
      BY <3>1, ExecuteNextType DEF ModulePath, TypeOK
    <3> QED BY <3>1, <3>2, CallFields
  <2>2. /\ assetPolicy' = [assetPolicy EXCEPT ![call.guard][call.token] = call.policy]
        /\ RaisePeak(call.guard, call.token, call.policy)
        /\ UNCHANGED <<spendState, now, outflow>>
    BY <1>4 DEF ExecuteRepairPolicy, RepairPolicy
  <2> QED BY <2>1, <2>2, CountingRaise
<1>5. CASE ExecuteTransfer \/ ExecuteReplaceGuards \/ ExecuteReplaceSigner \/ Skip \/ UNCHANGED vars
  <2>1. UNCHANGED counting
    BY <1>5 DEF ExecuteTransfer, ExecuteReplaceGuards, ReplaceGuards, ExecuteReplaceSigner,
                ReplaceSigner, Skip, vars, counting, guardVars, history
  <2> QED BY <2>1, CountingStutter
<1>6. CASE Tick
  BY <1>6, CountingTick
<1> QED BY <1>1, <1>2, <1>3, <1>4, <1>5, <1>6 DEF Next, OwnerStep, ModuleStep

(* However transfers are split and ordered over both lanes, and policies     *)
(* tightened or repaired between them, the counters of a guard say exactly   *)
(* what left the Safe in the window and stay within the largest limits that  *)
(* were in force in it (_authorizeTransfer, setAssetPolicy, repairPolicy).   *)
THEOREM LimitsAreKept == Spec => [](CountersExact /\ DailyLimitsHold)
<1>1. TypeOK /\ CountingInv /\ [Next]_vars => TypeOK' /\ CountingInv'
  BY NextType, CountingNext
<1>2. CountingInv => CountersExact /\ DailyLimitsHold
  BY DEF CountingInv
<1> QED BY <1>1, <1>2, InitType, CountingInit, PTL DEF Spec

(* In particular: a guard's stored counters are what it let out through each *)
(* lane in the window they are stored for (_authorizeTransfer).             *)
THEOREM CountersAreExact == Spec => []CountersExact
BY LimitsAreKept, PTL

-----------------------------------------------------------------------------
(* The advisory classifier.                                                *)

LEMMA WindowOfCounters ==
  ASSUME TypeOK, NEW t \in Tokens
  PROVE  /\ assetPolicy[safe.guard][t] \in AssetPolicy
         /\ Spent(safe.guard, t, now) \in [window: Int, baseSpent: Nat, instantSpent: Nat]
<1>1. /\ safe.guard \in Guards
      /\ assetPolicy \in [Guards -> [Tokens -> AssetPolicy]]
      /\ spendState \in [Guards -> [Tokens -> SpendState]]
      /\ now \in Nat
  BY DEF TypeOK, GuardTypeOK, SafeTypeOK
<1>2. spendState[safe.guard][t] \in SpendState /\ assetPolicy[safe.guard][t] \in AssetPolicy
  BY <1>1
<1>3. CurrentWindow(now) \in Int
  BY <1>1, WindowInt
<1> QED BY <1>2, <1>3 DEF Spent, SpentIn, NothingSpent, SpendState

(* For every policy, amount and history of transfers, what the classifier    *)
(* predicts the guard admits (classifyAction against _authorizeTransfer and *)
(* _authorizeQueueProposal).                                                *)
THEOREM PredictionsHold == Spec => []PredictedLaneIsAdmitted
<1>1. TypeOK => PredictedLaneIsAdmitted
  <2> SUFFICES ASSUME TypeOK, NEW t \in Tokens, NEW r \in Recipients,
                      NEW a \in Amounts \cup {b + 2 : b \in Amounts}, NEW approved \in BOOLEAN,
                      Classifiable(assetPolicy[safe.guard][t])
               PROVE  LET g == safe.guard
                          policy == assetPolicy[g][t]
                          lane == ClassifyAction(policy, spendState[g][t], r, a, approved, now)
                      IN  /\ lane \in {"base", "step-up"} /\ ~frozen[g] =>
                               AuthorizeTransfer(g, lane = "step-up", t, r, a, now)
                          /\ lane = "delayed" /\ now >= PeriodAnchor
                               /\ Spent(g, t, now).instantSpent <= policy.instantDailyLimit =>
                               AuthorizeQueueProposal(g, TRUE, TransferCall(t, r, a), now)
    BY DEF PredictedLaneIsAdmitted
  <2> DEFINE g == safe.guard
             policy == assetPolicy[g][t]
             spent == Spent(g, t, now)
             lane == ClassifyAction(policy, spendState[g][t], r, a, approved, now)
  <2>1. policy \in AssetPolicy /\ spent \in [window: Int, baseSpent: Nat, instantSpent: Nat]
    BY WindowOfCounters
  <2>2. a \in Nat /\ now \in Nat /\ PeriodAnchor \in Nat
    BY VaultAssumption, PeriodAssumption DEF TypeOK
  <2>3. Configured(policy)
    BY <2>1 DEF Classifiable, ValidPolicy, Configured, AssetPolicy
  <2>4. ASSUME lane \in {"base", "step-up"}, ~frozen[g]
        PROVE  AuthorizeTransfer(g, lane = "step-up", t, r, a, now)
    <3>1. /\ r \in policy.recipients /\ a # 0 /\ now >= PeriodAnchor
          /\ lane = InstantLane(policy, spent, a, approved)
      BY <2>2, <2>4 DEF ClassifyAction, Spent
    <3>2. IF lane = "step-up" THEN StepUpLaneAdmits(policy, spent, a)
                              ELSE BaseLaneAdmits(policy, spent, a)
      BY <3>1, <2>4 DEF InstantLane, StepUpLaneAdmits, BaseLaneAdmits
    <3> QED BY <2>3, <2>4, <3>1, <3>2 DEF AuthorizeTransfer
  <2>5. ASSUME lane = "delayed", now >= PeriodAnchor, spent.instantSpent <= policy.instantDailyLimit
        PROVE  AuthorizeQueueProposal(g, TRUE, TransferCall(t, r, a), now)
    <3>1. r \in policy.recipients /\ a > policy.instantDailyLimit
      BY <2>5 DEF ClassifyAction, InstantLane
    <3>2. DelayLaneAdmits(policy, spent, a)
      BY <2>1, <2>2, <2>5, <3>1 DEF DelayLaneAdmits, AssetPolicy
    <3>3. LET call == TransferCall(t, r, a)
          IN  call.kind = "transfer" /\ call.token = t /\ call.recipient = r /\ call.amount = a
      BY DEF TransferCall
    <3> QED BY <2>3, <2>5, <3>1, <3>2, <3>3 DEF AuthorizeQueueProposal
  <2> QED BY <2>4, <2>5
<1>2. Spec => []TypeOK
  BY TypeCorrect
<1> QED BY <1>1, <1>2, PTL

=============================================================================
