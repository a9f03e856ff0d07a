------------------------ MODULE TieredSpendingGuard ------------------------
(***************************************************************************)
(* The guard contract: the state it keeps, which calls it lets the Safe's   *)
(* owner and the Delay module make (the authorisation half of               *)
(* checkTransaction and checkModuleTransaction), and what its own           *)
(* configuration functions do.                                              *)
(*                                                                         *)
(* A guard can be replaced by another instance of the same code, so every   *)
(* variable is a function of the instance.  Addresses are model values;     *)
(* None is the zero address.                                                *)
(***************************************************************************)
EXTENDS SpendingPolicy

CONSTANTS
  Guards,        (* deployed instances of the guard                         *)
  InitialGuard,  (* the one the Safe is set up with                         *)
  Signers,       (* addresses that can be a factor                          *)
  ContractSigners, (* those with code that answers ERC-1271 checks          *)
  None,          (* the zero address                                        *)
  InitialPolicy, (* policies written during the atomic setup                *)
  DeployedWith   (* constructor signers of each instance                    *)

VARIABLES
  assetPolicy,   (* by guard and token: limits and recipient allowlist      *)
  spendState,    (* by guard and token: window and counters                 *)
  frozen,        (* by guard                                                *)
  maintenance,   (* by guard: is the maintenance helper recorded?           *)
  signers        (* by guard: the primary and the two secondaries           *)

guardVars == <<assetPolicy, spendState, frozen, maintenance, signers>>

SignerConfig ==
  [passkey: Signers, ecdsaSecondary: Signers,
   contractSecondary: Signers \cup {None}, contractEnabled: BOOLEAN]

ASSUME GuardAssumption ==
  /\ InitialGuard \in Guards
  /\ None \notin Signers
  /\ ContractSigners \subseteq Signers
  /\ InitialPolicy \in [Tokens -> AssetPolicy]
  /\ \A t \in Tokens : Configured(InitialPolicy[t]) => ValidPolicy(InitialPolicy[t])
  /\ DeployedWith \in [Guards -> SignerConfig]
  /\ \A g \in Guards : DeployedWith[g].passkey # DeployedWith[g].ecdsaSecondary
  /\ \A g \in Guards \ {InitialGuard} :
       DeployedWith[g].contractSecondary = None /\ ~DeployedWith[g].contractEnabled
  /\ DeployedWith[InitialGuard].contractEnabled
  /\ DeployedWith[InitialGuard].contractSecondary \in
       Signers \ {DeployedWith[InitialGuard].passkey,
                  DeployedWith[InitialGuard].ecdsaSecondary}

GuardTypeOK ==
  /\ assetPolicy \in [Guards -> [Tokens -> AssetPolicy]]
  /\ spendState \in [Guards -> [Tokens -> SpendState]]
  /\ frozen \in [Guards -> BOOLEAN]
  /\ maintenance \in [Guards -> BOOLEAN]
  /\ signers \in [Guards -> SignerConfig]

(* The state SafeAtomicSetupHelper.setup leaves: the installed instance is  *)
(* configured, any other is as its constructor left it.                     *)
GuardInit ==
  /\ assetPolicy =
       [g \in Guards |-> IF g = InitialGuard THEN InitialPolicy
                                             ELSE [t \in Tokens |-> Unset]]
  /\ spendState = [g \in Guards |-> [t \in Tokens |-> NothingSpent(0)]]
  /\ frozen = [g \in Guards |-> FALSE]
  /\ maintenance = [g \in Guards |-> g = InitialGuard]
  /\ signers = DeployedWith

-----------------------------------------------------------------------------
(* Calls the queue can hold.                                               *)

TransferCall(token, recipient, amount) ==
  [kind |-> "transfer", token |-> token, recipient |-> recipient, amount |-> amount]
RepairPolicyCall(guard, token, policy) ==
  [kind |-> "repairPolicy", guard |-> guard, token |-> token, policy |-> policy]
ReplaceGuardsCall(expected, replacement) ==
  [kind |-> "replaceGuards", expected |-> expected, replacement |-> replacement]
ReplaceSignerCall(guard, role, expectedOld, replacement) ==
  [kind |-> "replaceSigner", guard |-> guard, role |-> role,
   expectedOld |-> expectedOld, replacement |-> replacement]

CallShape(call) ==
  \/ call \in [kind: {"transfer"}, token: Tokens, recipient: Recipients, amount: Nat]
  \/ call \in [kind: {"repairPolicy"}, guard: Guards, token: Tokens, policy: AssetPolicy]
  \/ call \in [kind: {"replaceGuards"}, expected: Guards, replacement: Guards]
  \/ call \in [kind: {"replaceSigner"}, guard: Guards, role: {"primary", "secondary"},
               expectedOld: Signers, replacement: Signers]

(* Calls the Safe delegates to the maintenance helper.                     *)
IsMaintenance(g, call) ==
  /\ maintenance[g]
  /\ call.kind \in {"replaceGuards", "replaceSigner"}

-----------------------------------------------------------------------------
(* Signatures.  The first slot holds the primary, whom the Safe accepts as  *)
(* its owner; a second factor is one configured secondary or None.          *)

EnvelopeValid(g, primary, secondary) ==
  /\ primary = signers[g].passkey
  /\ \/ secondary \in {None, signers[g].ecdsaSecondary}
     \/ /\ secondary = signers[g].contractSecondary
        /\ signers[g].contractEnabled
        /\ secondary \in ContractSigners

-----------------------------------------------------------------------------
(* Owner path: checkTransaction.                                           *)

Spent(g, token, t) == SpentIn(spendState[g][token], CurrentWindow(t))

AuthorizeTransferToAnyone(g, approved, token, recipient, amount, t) ==
  /\ ~frozen[g]
  /\ Configured(assetPolicy[g][token])
  /\ amount # 0
  /\ t >= PeriodAnchor
  /\ IF approved THEN StepUpLaneAdmits(assetPolicy[g][token], Spent(g, token, t), amount)
                 ELSE BaseLaneAdmits(assetPolicy[g][token], Spent(g, token, t), amount)

(* _authorizeTransfer, its conditions.                                     *)
AuthorizeTransfer(g, approved, token, recipient, amount, t) ==
  /\ ~frozen[g]
  /\ Configured(assetPolicy[g][token])
  /\ recipient \in assetPolicy[g][token].recipients
  /\ amount # 0
  /\ t >= PeriodAnchor
  /\ IF approved THEN StepUpLaneAdmits(assetPolicy[g][token], Spent(g, token, t), amount)
                 ELSE BaseLaneAdmits(assetPolicy[g][token], Spent(g, token, t), amount)

(* _authorizeTransfer, its effect: both lanes consume the instant limit.   *)
Consume(g, approved, token, amount, t) ==
  LET spent == Spent(g, token, t)
  IN  spendState' = [spendState EXCEPT ![g][token] =
        [window |-> CurrentWindow(t),
         baseSpent |-> IF approved THEN spent.baseSpent ELSE spent.baseSpent + amount,
         instantSpent |-> spent.instantSpent + amount]]

(* _authorizeQueueProposal: what both factors together may queue.          *)
AuthorizeQueueProposal(g, approved, call, t) ==
  /\ approved
  /\ \/ IsMaintenance(g, call)
     \/ call.kind = "repairPolicy" /\ call.guard = g
     \/ /\ call.kind = "transfer"
        /\ t >= PeriodAnchor
        /\ Configured(assetPolicy[g][call.token])
        /\ call.recipient \in assetPolicy[g][call.token].recipients
        /\ DelayLaneAdmits(assetPolicy[g][call.token], Spent(g, call.token, t), call.amount)

ConfiguresKnownSecondary(g, signer, enabled) ==
  /\ signers[g].contractSecondary # None
  /\ signer \in {signers[g].contractSecondary, None}

(* _isImmediateSecondaryTightening.                                        *)
DisablesSecondary(g, signer, enabled) ==
  /\ ~enabled
  /\ signers[g].contractSecondary # None
  /\ signer \in {signers[g].contractSecondary, None}

-----------------------------------------------------------------------------
(* Module path: checkModuleTransaction.                                    *)

AuthorizeDelayedEvenIfFrozen(g, call) ==
  \/ IsMaintenance(g, call)
  \/ call.kind = "repairPolicy" /\ call.guard = g
  \/ /\ call.kind = "transfer"
     /\ Configured(assetPolicy[g][call.token])
     /\ call.recipient \in assetPolicy[g][call.token].recipients
     /\ call.amount # 0

(* A freeze stops every delayed CALL; only maintenance still runs.         *)
AuthorizeDelayedExecution(g, call) ==
  \/ IsMaintenance(g, call)
  \/ ~frozen[g] /\ call.kind = "repairPolicy" /\ call.guard = g
  \/ /\ ~frozen[g]
     /\ call.kind = "transfer"
     /\ Configured(assetPolicy[g][call.token])
     /\ call.recipient \in assetPolicy[g][call.token].recipients
     /\ call.amount # 0

-----------------------------------------------------------------------------
(* Functions the Safe calls on its guard.                                  *)

SetAssetPolicyNumbersOnly(g, token, policy) ==
  /\ ValidPolicy(policy)
  /\ Configured(assetPolicy[g][token]) => TightensNumbersOnly(policy, assetPolicy[g][token])
  /\ assetPolicy' = [assetPolicy EXCEPT ![g][token] = policy]
  /\ UNCHANGED <<spendState, frozen, maintenance, signers>>

(* setAssetPolicy: the first policy of a token is free, a later one may    *)
(* only tighten.  The counters of the running window are kept.             *)
SetAssetPolicy(g, token, policy) ==
  /\ ValidPolicy(policy)
  /\ Configured(assetPolicy[g][token]) => Tightens(policy, assetPolicy[g][token])
  /\ assetPolicy' = [assetPolicy EXCEPT ![g][token] = policy]
  /\ UNCHANGED <<spendState, frozen, maintenance, signers>>

(* repairPolicy: any valid policy.                                         *)
RepairPolicy(g, token, policy) ==
  /\ ValidPolicy(policy)
  /\ assetPolicy' = [assetPolicy EXCEPT ![g][token] = policy]
  /\ UNCHANGED <<spendState, frozen, maintenance, signers>>

(* freeze: there is no function that sets frozen back.                     *)
SetFrozen(g) ==
  /\ frozen' = [frozen EXCEPT ![g] = TRUE]
  /\ UNCHANGED <<assetPolicy, spendState, maintenance, signers>>

(* configureSafeContractSecondary, its conditions ...                      *)
SecondaryConfigurable(g, signer, enabled) ==
  /\ signer \notin {signers[g].passkey, signers[g].ecdsaSecondary}
  /\ enabled => signer # None

(* ... and the record it writes.                                           *)
WithSecondary(g, signer, enabled) ==
  [signers[g] EXCEPT !.contractSecondary = signer, !.contractEnabled = enabled]

SignerRepairableOverContract(g, role, expectedOld, replacement) ==
  /\ replacement # expectedOld
  /\ \/ /\ role = "primary"
        /\ signers[g].passkey = expectedOld
        /\ replacement # signers[g].ecdsaSecondary
     \/ /\ role = "secondary"
        /\ expectedOld \in {signers[g].ecdsaSecondary, signers[g].contractSecondary}
        /\ replacement # signers[g].passkey

(* repairSigner: the record it writes and the identities it refuses.       *)
SignerRepairable(g, role, expectedOld, replacement) ==
  /\ replacement # expectedOld
  /\ \/ /\ role = "primary"
        /\ signers[g].passkey = expectedOld
        /\ replacement \notin {signers[g].ecdsaSecondary, signers[g].contractSecondary}
     \/ /\ role = "secondary"
        /\ signers[g].ecdsaSecondary = expectedOld
        /\ replacement \notin {signers[g].passkey, signers[g].contractSecondary}
     \/ /\ role = "secondary"
        /\ signers[g].ecdsaSecondary # expectedOld
        /\ signers[g].contractSecondary = expectedOld
        /\ replacement \notin {signers[g].passkey, signers[g].ecdsaSecondary}

RepairedSigners(g, role, expectedOld, replacement) ==
  IF role = "primary" THEN [signers[g] EXCEPT !.passkey = replacement]
  ELSE IF signers[g].ecdsaSecondary = expectedOld
       THEN [signers[g] EXCEPT !.ecdsaSecondary = replacement]
       ELSE [signers[g] EXCEPT !.contractSecondary = replacement, !.contractEnabled = TRUE]

=============================================================================
