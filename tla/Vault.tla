------------------------------- MODULE Vault -------------------------------
(***************************************************************************)
(* The deployed vault: one Safe with one owner (the primary passkey), the   *)
(* guard in both its guard slots and Delay as its only module, as           *)
(* SafeAtomicSetupHelper leaves them.                                       *)
(*                                                                         *)
(* A step is one chain transaction: the owner path (Safe.execTransaction,   *)
(* checkTransaction, the call, checkAfterExecution), the module path        *)
(* (executeNextTx, checkModuleTransaction, the call), skipExpired, or time. *)
(* A transaction in which anything reverts changes nothing and is no step.  *)
(***************************************************************************)
EXTENDS GuardReplacementMaintenance, ZodiacDelay

CONSTANTS
  Amounts,      (* amounts the owner path tries to send                     *)
  Policies,     (* policies the owner path tries to set                     *)
  Cooldowns,    (* values tried with setTxCooldown                          *)
  Expirations,  (* values tried with setTxExpiration                        *)
  Deposit,      (* what the Safe holds of each token at the start           *)
  MaxTime,      (* bound on the clock                                       *)
  MaxQueue      (* bound on the number of proposals ever made               *)

ASSUME VaultAssumption ==
  /\ Amounts \subseteq Nat
  /\ Policies \subseteq AssetPolicy
  /\ Cooldowns \subseteq Nat
  /\ Expirations \subseteq Nat
  /\ Deposit \in [Tokens -> Nat]
  /\ MaxTime \in Nat
  /\ MaxQueue \in Nat
  /\ \A call \in DelayedCalls : CallShape(call)

VARIABLES
  now,       (* block timestamp                                             *)
  balance,   (* by token: what the Safe holds                               *)
  received,  (* history, by token and recipient: what it was ever sent      *)
  outflow,   (* history, by guard and token: what left through the owner    *)
             (* path in the running window, by the passkey alone and in all *)
  peak       (* history, by guard and token: the largest daily limits in    *)
             (* force so far in the running window                          *)

money == <<balance, received>>
history == <<outflow, peak>>
vars == <<guardVars, safe, delayVars, now, money, history>>

Lanes == [base: Nat, instant: Nat]

TypeOK ==
  /\ GuardTypeOK
  /\ SafeTypeOK
  /\ DelayTypeOK
  /\ now \in Nat
  /\ balance \in [Tokens -> Nat]
  /\ received \in [Tokens -> [Recipients -> Nat]]
  /\ outflow \in [Guards -> [Tokens -> Lanes]]
  /\ peak \in [Guards -> [Tokens -> Lanes]]

LimitsOf(policy) == [base |-> policy.baseDailyLimit, instant |-> policy.instantDailyLimit]

Larger(m, n) == IF m > n THEN m ELSE n

Init ==
  /\ GuardInit
  /\ SafeInit
  /\ DelayInit
  /\ now = 0
  /\ balance = Deposit
  /\ received = [t \in Tokens |-> [r \in Recipients |-> 0]]
  /\ outflow = [g \in Guards |-> [t \in Tokens |-> [base |-> 0, instant |-> 0]]]
  /\ peak = [g \in Guards |-> [t \in Tokens |-> LimitsOf(assetPolicy[g][t])]]

PayUnchecked(token, recipient, amount) ==
  /\ balance' = [balance EXCEPT ![token] = @ - amount]
  /\ received' = [received EXCEPT ![token][recipient] = @ + amount]

(* A standard token or native transfer out of the Safe.                    *)
Pay(token, recipient, amount) ==
  /\ amount <= balance[token]
  /\ balance' = [balance EXCEPT ![token] = @ - amount]
  /\ received' = [received EXCEPT ![token][recipient] = @ + amount]

(* The peaks after the installed guard g took a new policy for token.      *)
RaisePeak(g, token, policy) ==
  peak' = [peak EXCEPT ![g][token] =
             [base |-> Larger(@.base, policy.baseDailyLimit),
              instant |-> Larger(@.instant, policy.instantDailyLimit)]]

-----------------------------------------------------------------------------
(* Owner path.  The Safe accepts a first signature of its owner, the guard  *)
(* the envelope; approved means that one secondary signed as well.          *)

OwnerPath(primary, secondary) ==
  /\ primary = safe.owner
  /\ EnvelopeValid(safe.guard, primary, secondary)

OwnerTransfer(primary, secondary, token, recipient, amount) ==
  LET g == safe.guard
      approved == secondary # None
  IN  /\ OwnerPath(primary, secondary)
      /\ AuthorizeTransfer(g, approved, token, recipient, amount, now)
      /\ Consume(g, approved, token, amount, now)
      /\ Pay(token, recipient, amount)
      /\ outflow' = [outflow EXCEPT ![g][token] =
                       [base |-> IF approved THEN @.base ELSE @.base + amount,
                        instant |-> @.instant + amount]]
      /\ UNCHANGED <<assetPolicy, frozen, maintenance, signers, safe, delayVars, now, peak>>

OwnerSetAssetPolicy(primary, secondary, token, policy) ==
  /\ OwnerPath(primary, secondary)
  /\ secondary = None
  /\ SetAssetPolicy(safe.guard, token, policy)
  /\ RaisePeak(safe.guard, token, policy)
  /\ UNCHANGED <<safe, delayVars, now, money, outflow>>

OwnerFreeze(primary, secondary) ==
  /\ OwnerPath(primary, secondary)
  /\ secondary # None
  /\ SetFrozen(safe.guard)
  /\ UNCHANGED <<safe, delayVars, now, money, history>>

OwnerCancel(primary, secondary, n) ==
  /\ OwnerPath(primary, secondary)
  /\ secondary # None
  /\ SetTxNonce(n)
  /\ UNCHANGED <<guardVars, safe, now, money, history>>

OwnerConfigureSecondary(primary, secondary, signer, enabled) ==
  LET g == safe.guard
  IN  /\ OwnerPath(primary, secondary)
      /\ secondary # None
      /\ DisablesSecondary(g, signer, enabled)
      /\ SecondaryConfigurable(g, signer, enabled)
      /\ signers' = [signers EXCEPT ![g] = WithSecondary(g, signer, enabled)]
      /\ UNCHANGED <<assetPolicy, spendState, frozen, maintenance, safe, delayVars, now, money, history>>

OwnerSetCooldownFreely(primary, secondary, cooldown) ==
  /\ OwnerPath(primary, secondary)
  /\ secondary = None
  /\ SetTxCooldown(cooldown)
  /\ UNCHANGED <<guardVars, safe, now, money, history>>

(* _isImmediateDelayTightening: the passkey alone may lengthen the cooldown *)
OwnerSetCooldown(primary, secondary, cooldown) ==
  /\ OwnerPath(primary, secondary)
  /\ secondary = None
  /\ cooldown >= txCooldown
  /\ SetTxCooldown(cooldown)
  /\ UNCHANGED <<guardVars, safe, now, money, history>>

(* ... and shorten the expiration, or introduce one.                       *)
OwnerSetExpiration(primary, secondary, expiration) ==
  /\ OwnerPath(primary, secondary)
  /\ secondary = None
  /\ txExpiration = 0 \/ (expiration # 0 /\ expiration <= txExpiration)
  /\ SetTxExpiration(expiration)
  /\ UNCHANGED <<guardVars, safe, now, money, history>>

OwnerQueue(primary, secondary, call) ==
  /\ Len(queue) < MaxQueue
  /\ OwnerPath(primary, secondary)
  /\ AuthorizeQueueProposal(safe.guard, secondary # None, call, now)
  /\ Enqueue(call, now)
  /\ UNCHANGED <<guardVars, safe, now, money, history>>

OwnerStep ==
  \E primary \in Signers, secondary \in Signers \cup {None} :
    \/ \E t \in Tokens, r \in Recipients, a \in Amounts :
         OwnerTransfer(primary, secondary, t, r, a)
    \/ \E t \in Tokens, p \in Policies : OwnerSetAssetPolicy(primary, secondary, t, p)
    \/ OwnerFreeze(primary, secondary)
    \/ \E n \in 0..MaxQueue : OwnerCancel(primary, secondary, n)
    \/ \E s \in Signers \cup {None}, enabled \in BOOLEAN :
         OwnerConfigureSecondary(primary, secondary, s, enabled)
    \/ \E c \in Cooldowns : OwnerSetCooldown(primary, secondary, c)
    \/ \E e \in Expirations : OwnerSetExpiration(primary, secondary, e)
    \/ \E call \in DelayedCalls : OwnerQueue(primary, secondary, call)

-----------------------------------------------------------------------------
(* Module path.  Anybody may execute the head of the queue.                *)

ModulePath ==
  /\ ExecuteNext(now)
  /\ AuthorizeDelayedExecution(safe.moduleGuard, HeadItem.call)

(* A delayed transfer leaves the counters of the guard alone.              *)
ExecuteTransfer ==
  LET call == HeadItem.call
  IN  /\ ModulePath
      /\ call.kind = "transfer"
      /\ Pay(call.token, call.recipient, call.amount)
      /\ UNCHANGED <<guardVars, safe, now, history>>

ExecuteRepairPolicy ==
  LET call == HeadItem.call
  IN  /\ ModulePath
      /\ call.kind = "repairPolicy"
      /\ RepairPolicy(call.guard, call.token, call.policy)
      /\ RaisePeak(call.guard, call.token, call.policy)
      /\ UNCHANGED <<safe, now, money, outflow>>

ExecuteReplaceGuards ==
  LET call == HeadItem.call
  IN  /\ ModulePath
      /\ call.kind = "replaceGuards"
      /\ ReplaceGuards(call.expected, call.replacement)
      /\ UNCHANGED <<now, money, history>>

ExecuteReplaceSigner ==
  LET call == HeadItem.call
  IN  /\ ModulePath
      /\ call.kind = "replaceSigner"
      /\ ReplaceSigner(call.guard, call.role, call.expectedOld, call.replacement)
      /\ UNCHANGED <<now, money, history>>

ModuleStep ==
  \/ ExecuteTransfer
  \/ ExecuteRepairPolicy
  \/ ExecuteReplaceGuards
  \/ ExecuteReplaceSigner

-----------------------------------------------------------------------------
(* Anybody may drop expired items; time passes.                            *)

Skip ==
  /\ SkipExpired(now)
  /\ UNCHANGED <<guardVars, safe, now, money, history>>

(* When a window ends the history starts over with the limits in force.    *)
Tick ==
  /\ now < MaxTime
  /\ now' = now + 1
  /\ IF CurrentWindow(now + 1) = CurrentWindow(now)
     THEN UNCHANGED history
     ELSE /\ outflow' = [g \in Guards |-> [t \in Tokens |-> [base |-> 0, instant |-> 0]]]
          /\ peak' = [g \in Guards |-> [t \in Tokens |-> LimitsOf(assetPolicy[g][t])]]
  /\ Lapse(now + 1)
  /\ UNCHANGED <<guardVars, safe, money>>

Next == OwnerStep \/ ModuleStep \/ Skip \/ Tick

Spec == Init /\ [][Next]_vars

-----------------------------------------------------------------------------
(* Invariants.                                                             *)

(* The counters of a guard say exactly what left the Safe through it in the *)
(* running window: no reverted transfer is counted, none is missed, and the *)
(* window rolls over when time does (_authorizeTransfer).                   *)
CountersExact ==
  \A g \in Guards, t \in Tokens :
    LET spent == Spent(g, t, now)
    IN  /\ spent.baseSpent = outflow[g][t].base
        /\ spent.instantSpent = outflow[g][t].instant

(* However the amounts are split and ordered over the two instant lanes and *)
(* the policy tightened or repaired in between, one guard lets no more out  *)
(* in a window than the largest limit that was in force in it: the passkey  *)
(* alone no more than the base limit, both factors no more than the instant *)
(* one.                                                                     *)
DailyLimitsHold ==
  \A g \in Guards, t \in Tokens :
    /\ outflow[g][t].base <= peak[g][t].base
    /\ outflow[g][t].instant <= peak[g][t].instant

(* The Safe is owned by the primary of the guard in both its slots, through *)
(* rotations and guard replacements queued in any order                     *)
(* (GuardReplacementMaintenance): otherwise no owner transaction would ever *)
(* pass Safe and guard again.                                               *)
OwnerIsPasskey ==
  /\ safe.guard = safe.moduleGuard
  /\ safe.owner = signers[safe.guard].passkey

(* The two factors of an approval are never one address (repairSigner and   *)
(* configureSafeContractSecondary each compare with what is set so far).    *)
FactorsNeverShared ==
  LET s == signers[safe.guard]
  IN  /\ s.passkey # s.ecdsaSecondary
      /\ s.contractSecondary \notin {s.passkey, s.ecdsaSecondary}

-----------------------------------------------------------------------------
(* Action properties.                                                      *)

AnyExecution == \E i \in DOMAIN fate : Executes(i)

(* Whatever lane it takes, and whatever was allowed when it was queued,     *)
(* money goes only to a recipient the installed guard allows at that moment *)
(* (allowedRecipient is checked when proposing and again when executing).   *)
OnlyAllowedArePaid ==
  [][\A t \in Tokens, r \in Recipients :
       received'[t][r] # received[t][r] => r \in assetPolicy[safe.guard][t].recipients]_vars

(* No money moves, instantly or delayed, under a frozen guard (freeze).     *)
FrozenMovesNothing == [][frozen[safe.guard] => UNCHANGED money]_vars

(* A queued call waits at least the cooldown of the deployment, whatever    *)
(* the owner path did to the cooldown since (_isImmediateDelayTightening).  *)
NoticeGiven ==
  [][\A i \in DOMAIN fate :
       Executes(i) => now - queue[i].createdAt >= InitialCooldown]_vars

(* An item that was executed, cancelled or skipped stays so: the queue never *)
(* goes back, so nothing runs twice or after its cancellation (setTxNonce). *)
FateIsFinal ==
  [][\A i \in DOMAIN fate :
       fate[i] \in {"executed", "dropped"} => fate'[i] = fate[i]]_vars

(* A policy in force gets wider, in a number or by a recipient, only by     *)
(* executing a queued call (setAssetPolicy against repairPolicy).           *)
WideningIsDelayed ==
  [][\A t \in Tokens :
       \/ ~Configured(assetPolicy[safe.guard][t])
       \/ Tightens(assetPolicy'[safe.guard][t], assetPolicy[safe.guard][t])
       \/ AnyExecution]_vars

(* A replacement guard demands the factors of the guard it replaces, even   *)
(* when a rotation was executed between the proposal and the replacement    *)
(* (_matchesReplacementGuardConfiguration reads both when it runs).         *)
ReplacementKeepsFactors ==
  [][safe'.guard # safe.guard => signers'[safe'.guard] = signers[safe.guard]]_vars

(* A contract secondary that could not approve until now can do so only by  *)
(* executing a queued call (_isImmediateSecondaryTightening).               *)
SecondaryBroadeningIsDelayed ==
  [][LET before == signers[safe.guard]
         after == signers'[safe'.guard]
     IN  \/ ~after.contractEnabled
         \/ before.contractEnabled /\ after.contractSecondary = before.contractSecondary
         \/ AnyExecution]_vars

=============================================================================
