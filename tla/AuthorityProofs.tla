-------------------------- MODULE AuthorityProofs --------------------------
(*****************************************************************************)
(* Who may do what, and after which notice: the queue, the factors and the   *)
(* policies of the vault, for every value of the constants.                  *)
(*****************************************************************************)
EXTENDS VaultProofs

(* Every transaction of the vault is a step of the queue.                    *)
LEMMA EveryStepQueues == TypeOK /\ [Next]_vars => QueueStep(now)
<1> SUFFICES ASSUME TypeOK, [Next]_vars PROVE QueueStep(now)
  OBVIOUS
<1>1. CASE OwnerStep
  <2> SUFFICES ASSUME NEW primary \in Signers, NEW secondary \in Signers \cup {None},
                      \/ \E t \in Tokens, r \in Recipients, a \in Amounts :
                           OwnerTransfer(primary, secondary, t, r, a)
                      \/ \E t \in Tokens, p \in Policies :
                           OwnerSetAssetPolicy(primary, secondary, t, p)
                      \/ OwnerFreeze(primary, secondary)
                      \/ \E n \in 0..MaxQueue : OwnerCancel(primary, secondary, n)
                      \/ \E s \in Signers \cup {None}, enabled \in BOOLEAN :
                           OwnerConfigureSecondary(primary, secondary, s, enabled)
                      \/ \E c \in Cooldowns : OwnerSetCooldown(primary, secondary, c)
                      \/ \E e \in Expirations : OwnerSetExpiration(primary, secondary, e)
                      \/ \E call \in DelayedCalls : OwnerQueue(primary, secondary, call)
               PROVE  QueueStep(now)
    BY <1>1 DEF OwnerStep
  <2>1. CASE \/ \E t \in Tokens, r \in Recipients, a \in Amounts :
                  OwnerTransfer(primary, secondary, t, r, a)
             \/ \E t \in Tokens, p \in Policies :
                  OwnerSetAssetPolicy(primary, secondary, t, p)
             \/ OwnerFreeze(primary, secondary)
             \/ \E s \in Signers \cup {None}, enabled \in BOOLEAN :
                  OwnerConfigureSecondary(primary, secondary, s, enabled)
    BY <2>1 DEF OwnerTransfer, OwnerSetAssetPolicy, OwnerFreeze, OwnerConfigureSecondary, QueueStep
  <2>2. CASE \E n \in 0..MaxQueue : OwnerCancel(primary, secondary, n)
    BY <2>2, VaultAssumption DEF OwnerCancel, QueueStep
  <2>3. CASE \E c \in Cooldowns : OwnerSetCooldown(primary, secondary, c)
    BY <2>3, VaultAssumption DEF OwnerSetCooldown, QueueStep
  <2>4. CASE \E e \in Expirations : OwnerSetExpiration(primary, secondary, e)
    BY <2>4, VaultAssumption DEF OwnerSetExpiration, QueueStep
  <2>5. CASE \E call \in DelayedCalls : OwnerQueue(primary, secondary, call)
    BY <2>5 DEF OwnerQueue, QueueStep
  <2> QED BY <2>1, <2>2, <2>3, <2>4, <2>5
<1>2. CASE ModuleStep
  BY <1>2 DEF ModuleStep, ModulePath, ExecuteTransfer, ExecuteRepairPolicy, ExecuteReplaceGuards,
              ExecuteReplaceSigner, QueueStep
<1>3. CASE Skip \/ Tick \/ UNCHANGED vars
  BY <1>3 DEF Skip, Tick, vars, QueueStep
<1> QED BY <1>1, <1>2, <1>3 DEF Next

(* The invariant of the queue holds after the setup ...                      *)
LEMMA QueueInitInv == Init => QueueInv
BY DelayAssumption DEF Init, DelayInit, QueueInv, FatesMatchNonce

(* ... and every transaction keeps it.                                       *)
LEMMA QueueNext == TypeOK /\ QueueInv /\ [Next]_vars => QueueInv'
BY EveryStepQueues, QueueStepKeeps DEF TypeOK

(* What was executed, cancelled or skipped stays so (setTxNonce, executeNextTx).*)
THEOREM FateNeverChanges == Spec => FateIsFinal
<1>1. TypeOK /\ QueueInv /\ [Next]_vars => TypeOK' /\ QueueInv'
  BY NextType, QueueNext
<1>2. TypeOK /\ QueueInv /\ [Next]_vars =>
        [\A i \in DOMAIN fate : fate[i] \in {"executed", "dropped"} => fate'[i] = fate[i]]_vars
  BY EveryStepQueues, QueueStepKeeps DEF TypeOK, Final
<1> QED BY <1>1, <1>2, InitType, QueueInitInv, PTL DEF Spec, FateIsFinal

(* No queued call runs before the cooldown of the deployment has passed      *)
(* (executeNextTx, _isImmediateDelayTightening).                             *)
THEOREM NoticeIsGiven == Spec => NoticeGiven
<1>1. TypeOK /\ QueueInv /\ [Next]_vars => TypeOK' /\ QueueInv'
  BY NextType, QueueNext
<1>2. TypeOK /\ QueueInv /\ [Next]_vars =>
        [\A i \in DOMAIN fate :
           Executes(i) => now - queue[i].createdAt >= InitialCooldown]_vars
  <2> SUFFICES ASSUME TypeOK, QueueInv, [Next]_vars, NEW i \in DOMAIN fate, Executes(i)
               PROVE  now - queue[i].createdAt >= InitialCooldown
    OBVIOUS
  <2>1. ExecuteNext(now) /\ i = txNonce + 1
    BY EveryStepQueues, ExecutionIsHead DEF TypeOK
  <2>2. HeadItem.createdAt \in Nat
    BY <2>1, ExecuteNextType DEF TypeOK
  <2> QED BY <2>1, <2>2, DelayAssumption
          DEF ExecuteNext, CooledDown, HeadItem, QueueInv, TypeOK, DelayTypeOK
<1> QED BY <1>1, <1>2, InitType, QueueInitInv, PTL DEF Spec, NoticeGiven

-----------------------------------------------------------------------------
(* The inductive invariant of the signers.                                   *)
FactorInv == OwnerIsPasskey /\ FactorsNeverShared

(* It holds after the atomic setup, whose bindings GuardAssumption states.   *)
LEMMA FactorInit == Init => FactorInv
BY GuardAssumption DEF Init, GuardInit, SafeInit, FactorInv, OwnerIsPasskey, FactorsNeverShared, SignerConfig

(* It survives every step that leaves signers and Safe alone,                *)
LEMMA FactorStutter ==
  ASSUME FactorInv, UNCHANGED <<signers, safe>>
  PROVE  FactorInv'
BY DEF FactorInv, OwnerIsPasskey, FactorsNeverShared

(* ... replaceGuards, which moves the factors to the replacement unchanged,  *)
LEMMA FactorReplaceGuards ==
  ASSUME TypeOK, FactorInv, NEW g \in Guards, NEW h \in Guards, ReplaceGuards(g, h)
  PROVE  /\ FactorInv'
         /\ safe'.guard = h /\ safe.guard = g
         /\ signers'[h] = signers[g]
         /\ signers'[h].contractEnabled = signers[g].contractEnabled
<1> DEFINE current == signers[g]
           bound == WithSecondary(h, current.contractSecondary, current.contractEnabled)
<1>1. /\ InBothSlots(g) /\ FactorsDistinct(current) /\ SameFactors(current, bound)
      /\ signers' = [signers EXCEPT ![h] = bound]
      /\ safe' = [safe EXCEPT !.guard = h, !.moduleGuard = h]
  BY DEF ReplaceGuards
<1>2. bound \in SignerConfig /\ current \in SignerConfig
  BY DEF WithSecondary, TypeOK, GuardTypeOK, SignerConfig
<1>3. bound = current
  BY <1>1, <1>2 DEF SameFactors, SignerConfig
<1>4. /\ safe'.guard = h /\ safe'.moduleGuard = h /\ safe'.owner = safe.owner
      /\ signers'[h] = signers[g]
  BY <1>1, <1>3 DEF TypeOK, GuardTypeOK, SafeTypeOK
<1>5. safe.guard = g /\ safe.owner = signers[g].passkey
  BY <1>1 DEF InBothSlots, FactorInv, OwnerIsPasskey
<1> QED BY <1>1, <1>4, <1>5 DEF FactorInv, OwnerIsPasskey, FactorsNeverShared, FactorsDistinct

(* ... replaceSigner, for either role,                                       *)
LEMMA FactorReplaceSigner ==
  ASSUME TypeOK, FactorInv, NEW g \in Guards, NEW role \in {"primary", "secondary"},
         NEW expectedOld \in Signers, NEW replacement \in Signers,
         ReplaceSigner(g, role, expectedOld, replacement)
  PROVE  FactorInv'
<1> DEFINE repaired == RepairedSigners(g, role, expectedOld, replacement)
<1>1. /\ InBothSlots(g) /\ safe.owner = signers[g].passkey /\ FactorsDistinct(signers[g])
      /\ SignerRepairable(g, role, expectedOld, replacement)
      /\ signers' = [signers EXCEPT ![g] = repaired]
      /\ safe' = [safe EXCEPT !.owner = IF role = "primary" THEN replacement ELSE safe.owner]
  BY DEF ReplaceSigner
<1>2. safe.guard = g /\ safe'.guard = g /\ safe'.moduleGuard = g /\ signers'[g] = repaired
      /\ safe'.owner = IF role = "primary" THEN replacement ELSE signers[g].passkey
  BY <1>1 DEF InBothSlots, TypeOK, GuardTypeOK, SafeTypeOK
<1>3. signers[g] \in SignerConfig
  BY DEF TypeOK, GuardTypeOK
<1>4. /\ repaired.passkey = IF role = "primary" THEN replacement ELSE signers[g].passkey
      /\ repaired.passkey # repaired.ecdsaSecondary
      /\ repaired.contractSecondary \notin {repaired.passkey, repaired.ecdsaSecondary}
  BY <1>1, <1>3 DEF SignerRepairable, RepairedSigners, FactorsDistinct, SignerConfig
<1> QED BY <1>2, <1>4 DEF FactorInv, OwnerIsPasskey, FactorsNeverShared

(* ... and the immediate disabling of the contract secondary.                *)
LEMMA FactorConfigure ==
  ASSUME TypeOK, FactorInv, NEW primary, NEW secondary, NEW s \in Signers \cup {None},
         NEW enabled \in BOOLEAN, OwnerConfigureSecondary(primary, secondary, s, enabled)
  PROVE  FactorInv' /\ ~signers'[safe'.guard].contractEnabled
<1> DEFINE g == safe.guard
           config == WithSecondary(g, s, enabled)
<1>1. /\ ~enabled /\ s \notin {signers[g].passkey, signers[g].ecdsaSecondary}
      /\ signers' = [signers EXCEPT ![g] = config] /\ safe' = safe
  BY DEF OwnerConfigureSecondary, DisablesSecondary, SecondaryConfigurable
<1>2. g \in Guards /\ signers[g] \in SignerConfig
  BY DEF TypeOK, GuardTypeOK, SafeTypeOK
<1>3. signers'[g] = config
  BY <1>1, <1>2 DEF TypeOK, GuardTypeOK
<1>4. /\ config.passkey = signers[g].passkey /\ config.ecdsaSecondary = signers[g].ecdsaSecondary
      /\ config.contractSecondary = s /\ ~config.contractEnabled
  BY <1>1, <1>2 DEF WithSecondary, SignerConfig
<1> HIDE DEF config
<1> QED BY <1>1, <1>3, <1>4 DEF FactorInv, OwnerIsPasskey, FactorsNeverShared

(* What a transaction does to the signers.                                   *)
SignerStep ==
  \/ UNCHANGED <<signers, safe>>
  \/ \E primary \in Signers, secondary \in Signers \cup {None}, s \in Signers \cup {None},
        enabled \in BOOLEAN : OwnerConfigureSecondary(primary, secondary, s, enabled)
  \/ /\ ModulePath
     /\ \E g, h \in Guards : ReplaceGuards(g, h)
  \/ /\ ModulePath
     /\ \E g \in Guards, role \in {"primary", "secondary"}, old, new \in Signers :
          ReplaceSigner(g, role, old, new)

(* Every transaction of the vault is a step of the signers.                  *)
LEMMA EveryStepSigns == TypeOK /\ [Next]_vars => SignerStep
<1> SUFFICES ASSUME TypeOK, [Next]_vars PROVE SignerStep
  OBVIOUS
<1>1. CASE OwnerStep
  <2> SUFFICES ASSUME NEW primary \in Signers, NEW secondary \in Signers \cup {None},
                      \/ \E t \in Tokens, r \in Recipients, a \in Amounts :
                           OwnerTransfer(primary, secondary, t, r, a)
                      \/ \E t \in Tokens, p \in Policies :
                           OwnerSetAssetPolicy(primary, secondary, t, p)
                      \/ OwnerFreeze(primary, secondary)
                      \/ \E n \in 0..MaxQueue : OwnerCancel(primary, secondary, n)
                      \/ \E c \in Cooldowns : OwnerSetCooldown(primary, secondary, c)
                      \/ \E e \in Expirations : OwnerSetExpiration(primary, secondary, e)
                      \/ \E call \in DelayedCalls : OwnerQueue(primary, secondary, call)
               PROVE  UNCHANGED <<signers, safe>>
    BY <1>1 DEF OwnerStep, SignerStep
  <2> QED BY DEF OwnerTransfer, OwnerSetAssetPolicy, SetAssetPolicy, OwnerFreeze, SetFrozen,
                 OwnerCancel, OwnerSetCooldown, OwnerSetExpiration, OwnerQueue, guardVars
<1>2. CASE ExecuteReplaceGuards
  <2>1. ModulePath /\ HeadItem.call.kind = "replaceGuards"
        /\ ReplaceGuards(HeadItem.call.expected, HeadItem.call.replacement)
    BY <1>2 DEF ExecuteReplaceGuards
  <2>2. HeadItem.call \in DelayedCalls
    BY <2>1, ExecuteNextType DEF ModulePath, TypeOK
  <2>3. HeadItem.call.expected \in Guards /\ HeadItem.call.replacement \in Guards
    BY <2>1, <2>2, CallFields
  <2> QED BY <2>1, <2>3 DEF SignerStep
<1>3. CASE ExecuteReplaceSigner
  <2> DEFINE call == HeadItem.call
  <2>1. ModulePath /\ call.kind = "replaceSigner"
        /\ ReplaceSigner(call.guard, call.role, call.expectedOld, call.replacement)
    BY <1>3 DEF ExecuteReplaceSigner
  <2>2. call \in DelayedCalls
    BY <2>1, ExecuteNextType DEF ModulePath, TypeOK
  <2>3. /\ call.guard \in Guards /\ call.role \in {"primary", "secondary"}
        /\ call.expectedOld \in Signers /\ call.replacement \in Signers
    BY <2>1, <2>2, CallFields
  <2> QED BY <2>1, <2>3 DEF SignerStep
<1>4. CASE ExecuteTransfer \/ ExecuteRepairPolicy \/ Skip \/ Tick \/ UNCHANGED vars
  BY <1>4 DEF ExecuteTransfer, ExecuteRepairPolicy, RepairPolicy, Skip, Tick, vars, guardVars, SignerStep
<1> QED BY <1>1, <1>2, <1>3, <1>4 DEF Next, ModuleStep

(* Hence every transaction keeps it.                                         *)
LEMMA FactorNext == TypeOK /\ FactorInv /\ [Next]_vars => FactorInv'
<1> SUFFICES ASSUME TypeOK, FactorInv, SignerStep PROVE FactorInv'
  BY EveryStepSigns
<1>1. CASE UNCHANGED <<signers, safe>>
  BY <1>1, FactorStutter
<1>2. CASE \E primary \in Signers, secondary \in Signers \cup {None}, s \in Signers \cup {None},
             enabled \in BOOLEAN : OwnerConfigureSecondary(primary, secondary, s, enabled)
  BY <1>2, FactorConfigure
<1>3. CASE \E g, h \in Guards : ReplaceGuards(g, h)
  BY <1>3, FactorReplaceGuards
<1>4. CASE \E g \in Guards, role \in {"primary", "secondary"}, old, new \in Signers :
             ReplaceSigner(g, role, old, new)
  BY <1>4, FactorReplaceSigner
<1> QED BY <1>1, <1>2, <1>3, <1>4 DEF SignerStep

(* The Safe is owned by the primary of the guard in both its slots and the   *)
(* factors are never one address, through every rotation and replacement     *)
(* (replaceGuards, replaceSigner, configureSafeContractSecondary).           *)
THEOREM FactorsAreKept == Spec => [](OwnerIsPasskey /\ FactorsNeverShared)
<1>1. TypeOK /\ FactorInv /\ [Next]_vars => TypeOK' /\ FactorInv'
  BY NextType, FactorNext
<1>2. FactorInv => OwnerIsPasskey /\ FactorsNeverShared
  BY DEF FactorInv
<1> QED BY <1>1, <1>2, InitType, FactorInit, PTL DEF Spec

(* In particular: no rotation ever leaves one address in two signer slots,   *)
(* though repairSigner compares them one pair at a time.                    *)
THEOREM FactorsAreNeverShared == Spec => []FactorsNeverShared
BY FactorsAreKept, PTL

-----------------------------------------------------------------------------
(* The module path executes a queued item.                                   *)
LEMMA ModulePathExecutes ==
  ASSUME TypeOK, QueueInv, ModulePath
  PROVE  AnyExecution
<1> DEFINE i == txNonce + 1
<1>1. /\ txNonce \in Nat /\ i \in DOMAIN fate /\ ~(i <= txNonce)
      /\ fate' = Settle(i, i, "executed")
  BY DEF ModulePath, ExecuteNext, HasPending, TypeOK, DelayTypeOK
<1>2. fate[i] # "executed"
  BY <1>1 DEF QueueInv, FatesMatchNonce, Final
<1>3. fate'[i] = "executed"
  BY <1>1 DEF Settle
<1> QED BY <1>1, <1>2, <1>3 DEF AnyExecution, Executes

(* The owner path sends money ...                                            *)
OwnerMoves ==
  \E primary \in Signers, secondary \in Signers \cup {None},
     t \in Tokens, r \in Recipients, a \in Amounts : OwnerTransfer(primary, secondary, t, r, a)

(* ... or sets a policy ...                                                  *)
OwnerTightens ==
  \E primary \in Signers, secondary \in Signers \cup {None}, t \in Tokens, p \in Policies :
     OwnerSetAssetPolicy(primary, secondary, t, p)

(* ... or touches neither policies nor money.                                *)
LEMMA OwnerCases ==
  ASSUME TypeOK, OwnerStep
  PROVE  \/ OwnerMoves
         \/ OwnerTightens
         \/ UNCHANGED <<assetPolicy, money>>
<1> SUFFICES ASSUME NEW primary \in Signers, NEW secondary \in Signers \cup {None},
                    \/ OwnerFreeze(primary, secondary)
                    \/ \E n \in 0..MaxQueue : OwnerCancel(primary, secondary, n)
                    \/ \E s \in Signers \cup {None}, enabled \in BOOLEAN :
                         OwnerConfigureSecondary(primary, secondary, s, enabled)
                    \/ \E c \in Cooldowns : OwnerSetCooldown(primary, secondary, c)
                    \/ \E e \in Expirations : OwnerSetExpiration(primary, secondary, e)
                    \/ \E call \in DelayedCalls : OwnerQueue(primary, secondary, call)
             PROVE  UNCHANGED <<assetPolicy, money>>
  BY DEF OwnerStep, OwnerMoves, OwnerTightens
<1> QED BY DEF OwnerFreeze, SetFrozen, OwnerCancel, OwnerConfigureSecondary, OwnerSetCooldown,
               OwnerSetExpiration, OwnerQueue, guardVars

(* Keeping a policy is tightening it.                                        *)
LEMMA TightensReflexive ==
  ASSUME NEW p \in AssetPolicy
  PROVE  Tightens(p, p)
BY DEF AssetPolicy, Tightens, TightensNumbersOnly

(* A policy in force gets wider only by a queued call (setAssetPolicy).      *)
THEOREM WideningWaits == Spec => WideningIsDelayed
<1>1. TypeOK /\ QueueInv /\ [Next]_vars => TypeOK' /\ QueueInv'
  BY NextType, QueueNext
<1>2. TypeOK /\ QueueInv /\ [Next]_vars =>
        [\A t \in Tokens :
           \/ ~Configured(assetPolicy[safe.guard][t])
           \/ Tightens(assetPolicy'[safe.guard][t], assetPolicy[safe.guard][t])
           \/ AnyExecution]_vars
  <2> SUFFICES ASSUME TypeOK, QueueInv, Next, NEW t \in Tokens,
                      Configured(assetPolicy[safe.guard][t]), ~AnyExecution
               PROVE  Tightens(assetPolicy'[safe.guard][t], assetPolicy[safe.guard][t])
    OBVIOUS
  <2>1. safe.guard \in Guards /\ assetPolicy[safe.guard][t] \in AssetPolicy
    BY DEF TypeOK, GuardTypeOK, SafeTypeOK
  <2>2. CASE UNCHANGED assetPolicy
    BY <2>1, <2>2, TightensReflexive
  <2>3. CASE OwnerTightens
    <3>1. PICK token \in Tokens, p \in Policies : SetAssetPolicy(safe.guard, token, p)
      BY <2>3 DEF OwnerTightens, OwnerSetAssetPolicy
    <3>2. assetPolicy'[safe.guard][t] = IF t = token THEN p ELSE assetPolicy[safe.guard][t]
      BY <2>1, <3>1 DEF SetAssetPolicy, TypeOK, GuardTypeOK
    <3> QED BY <2>1, <3>1, <3>2, TightensReflexive DEF SetAssetPolicy
  <2>4. CASE OwnerMoves
    BY <2>2, <2>4 DEF OwnerMoves, OwnerTransfer
  <2>5. ~ModuleStep
    BY ModulePathExecutes DEF ModuleStep, ExecuteTransfer, ExecuteRepairPolicy,
       ExecuteReplaceGuards, ExecuteReplaceSigner
  <2>6. CASE Skip \/ Tick
    BY <2>2, <2>6 DEF Skip, Tick, guardVars
  <2> QED BY <2>2, <2>3, <2>4, <2>5, <2>6, OwnerCases DEF Next
<1> QED BY <1>1, <1>2, InitType, QueueInitInv, PTL DEF Spec, WideningIsDelayed

(* A payment changes one account.                                            *)
LEMMA PayChanges ==
  ASSUME TypeOK, NEW token \in Tokens, NEW recipient \in Recipients, NEW amount,
         Pay(token, recipient, amount), NEW t \in Tokens, NEW r \in Recipients,
         received'[t][r] # received[t][r]
  PROVE  t = token /\ r = recipient
BY DEF TypeOK, Pay

(* Only a recipient allowed at the moment of the transfer is ever paid, in any*)
(* lane (_authorizeTransfer, _authorizeDelayedExecution).                    *)
THEOREM OnlyAllowedPaid == Spec => OnlyAllowedArePaid
<1>1. TypeOK /\ FactorInv /\ [Next]_vars => TypeOK' /\ FactorInv'
  BY NextType, FactorNext
<1>2. TypeOK /\ FactorInv /\ [Next]_vars =>
        [\A t \in Tokens, r \in Recipients :
           received'[t][r] # received[t][r] => r \in assetPolicy[safe.guard][t].recipients]_vars
  <2> SUFFICES ASSUME TypeOK, FactorInv, Next, NEW t \in Tokens, NEW r \in Recipients,
                      received'[t][r] # received[t][r]
               PROVE  r \in assetPolicy[safe.guard][t].recipients
    OBVIOUS
  <2>1. CASE OwnerMoves
    <3>1. PICK approved \in BOOLEAN, token \in Tokens, recipient \in Recipients, amount \in Amounts :
            /\ AuthorizeTransfer(safe.guard, approved, token, recipient, amount, now)
            /\ Pay(token, recipient, amount)
      BY <2>1 DEF OwnerMoves, OwnerTransfer
    <3> QED BY <3>1, PayChanges DEF AuthorizeTransfer
  <2>2. CASE OwnerStep
    BY <2>1, <2>2, OwnerCases DEF OwnerTightens, OwnerSetAssetPolicy, money
  <2>3. CASE ExecuteTransfer
    <3> DEFINE call == HeadItem.call
    <3>1. /\ ModulePath /\ call.kind = "transfer" /\ Pay(call.token, call.recipient, call.amount)
          /\ AuthorizeDelayedExecution(safe.guard, call)
      BY <2>3 DEF ExecuteTransfer, ModulePath, FactorInv, OwnerIsPasskey
    <3>2. call \in DelayedCalls
      BY <3>1, ExecuteNextType DEF ModulePath, TypeOK
    <3>3. call.token \in Tokens /\ call.recipient \in Recipients
      BY <3>1, <3>2, CallFields
    <3> QED BY <3>1, <3>3, PayChanges DEF AuthorizeDelayedExecution, IsMaintenance
  <2>4. CASE ModuleStep
    BY <2>3, <2>4 DEF ModuleStep, ExecuteRepairPolicy, ExecuteReplaceGuards, ExecuteReplaceSigner, money
  <2>5. CASE Skip \/ Tick
    BY <2>5 DEF Skip, Tick, money
  <2> QED BY <2>2, <2>4, <2>5 DEF Next
<1> QED BY <1>1, <1>2, InitType, FactorInit, PTL DEF Spec, OnlyAllowedArePaid

(* No money moves under a frozen guard (freeze).                             *)
THEOREM FrozenIsStill == Spec => FrozenMovesNothing
<1>1. TypeOK /\ FactorInv /\ [Next]_vars => TypeOK' /\ FactorInv'
  BY NextType, FactorNext
<1>2. TypeOK /\ FactorInv /\ [Next]_vars => [frozen[safe.guard] => UNCHANGED money]_vars
  <2> SUFFICES ASSUME TypeOK, FactorInv, Next, frozen[safe.guard]
               PROVE  UNCHANGED money
    OBVIOUS
  <2>1. CASE OwnerStep
    BY <2>1, OwnerCases DEF OwnerMoves, OwnerTransfer, AuthorizeTransfer, OwnerTightens,
                            OwnerSetAssetPolicy
  <2>2. ~ExecuteTransfer
    BY DEF ExecuteTransfer, ModulePath, FactorInv, OwnerIsPasskey, AuthorizeDelayedExecution,
           IsMaintenance
  <2>3. CASE ModuleStep
    BY <2>2, <2>3 DEF ModuleStep, ExecuteRepairPolicy, ExecuteReplaceGuards, ExecuteReplaceSigner
  <2>4. CASE Skip \/ Tick
    BY <2>4 DEF Skip, Tick
  <2> QED BY <2>1, <2>3, <2>4 DEF Next
<1> QED BY <1>1, <1>2, InitType, FactorInit, PTL DEF Spec, FrozenMovesNothing

(* A replacement guard demands the factors of the guard it replaces          *)
(* (_matchesReplacementGuardConfiguration).                                  *)
THEOREM ReplacementIsFaithful == Spec => ReplacementKeepsFactors
<1>1. TypeOK /\ FactorInv /\ [Next]_vars => TypeOK' /\ FactorInv'
  BY NextType, FactorNext
<1>2. TypeOK /\ FactorInv /\ [Next]_vars =>
        [safe'.guard # safe.guard => signers'[safe'.guard] = signers[safe.guard]]_vars
  <2> SUFFICES ASSUME TypeOK, FactorInv, SignerStep, safe'.guard # safe.guard
               PROVE  signers'[safe'.guard] = signers[safe.guard]
    BY EveryStepSigns
  <2>1. \A g, h \in Guards : ReplaceGuards(g, h) => signers'[safe'.guard] = signers[safe.guard]
    BY FactorReplaceGuards
  <2>2. ~\E g, role, old, new : ReplaceSigner(g, role, old, new)
    BY DEF ReplaceSigner, TypeOK, SafeTypeOK
  <2> QED BY <2>1, <2>2 DEF SignerStep, OwnerConfigureSecondary
<1> QED BY <1>1, <1>2, InitType, FactorInit, PTL DEF Spec, ReplacementKeepsFactors

(* A contract secondary gains the power to approve only by a queued call     *)
(* (_isImmediateSecondaryTightening).                                        *)
THEOREM BroadeningWaits == Spec => SecondaryBroadeningIsDelayed
<1>1. TypeOK /\ QueueInv /\ FactorInv /\ [Next]_vars => TypeOK' /\ QueueInv' /\ FactorInv'
  BY NextType, QueueNext, FactorNext
<1>2. TypeOK /\ QueueInv /\ FactorInv /\ [Next]_vars =>
        [LET before == signers[safe.guard]
             after == signers'[safe'.guard]
         IN  \/ ~after.contractEnabled
             \/ before.contractEnabled /\ after.contractSecondary = before.contractSecondary
             \/ AnyExecution]_vars
  <2> SUFFICES ASSUME TypeOK, QueueInv, FactorInv, SignerStep, ~AnyExecution,
                      signers'[safe'.guard].contractEnabled
               PROVE  /\ signers[safe.guard].contractEnabled
                      /\ signers'[safe'.guard].contractSecondary = signers[safe.guard].contractSecondary
    BY EveryStepSigns
  <2>1. ~ModulePath
    BY ModulePathExecutes
  <2>2. UNCHANGED <<signers, safe>>
    BY <2>1, FactorConfigure DEF SignerStep
  <2> QED BY <2>2
<1> QED BY <1>1, <1>2, InitType, QueueInitInv, FactorInit, PTL DEF Spec, SecondaryBroadeningIsDelayed

=============================================================================
