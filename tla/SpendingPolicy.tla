--------------------------- MODULE SpendingPolicy ---------------------------
(***************************************************************************)
(* The arithmetic of TieredSpendingGuard.sol: what an asset policy is, when *)
(* it is accepted, when it only tightens another one, in which policy       *)
(* window a timestamp falls, and which amounts the lanes admit.             *)
(*                                                                         *)
(* A policy and the recipient allowlist that is always written with it are  *)
(* one record.  The zero address is not a member of Recipients, so the      *)
(* zero-recipient rejections of the code have nothing to reject.            *)
(***************************************************************************)
EXTENDS Integers

CONSTANTS
  Tokens,         (* assets the guard may hold a policy for, native included *)
  Recipients,     (* addresses money can be sent to                          *)
  PeriodSeconds,  (* length of a policy window (86400 on chain)              *)
  PeriodAnchor    (* start of the first window                               *)

ASSUME PeriodAssumption ==
  /\ PeriodSeconds \in Nat \ {0}
  /\ PeriodAnchor \in Nat

AssetPolicy ==
  [basePerTransaction: Nat, stepUpPerTransaction: Nat,
   baseDailyLimit: Nat, instantDailyLimit: Nat,
   recipients: SUBSET Recipients]

(* The zero value of the assetPolicy mapping, with nobody allowed.         *)
Unset ==
  [basePerTransaction |-> 0, stepUpPerTransaction |-> 0,
   baseDailyLimit |-> 0, instantDailyLimit |-> 0, recipients |-> {}]

(* The code recognises a configured token by its nonzero instant limit.    *)
Configured(policy) == policy.instantDailyLimit # 0

SpendState == [window: Nat, baseSpent: Nat, instantSpent: Nat]

NothingSpent(window) == [window |-> window, baseSpent |-> 0, instantSpent |-> 0]

(* The checks that setAssetPolicy and _setAssetPolicy share.               *)
ValidPolicy(policy) ==
  /\ policy.basePerTransaction # 0
  /\ policy.stepUpPerTransaction # 0
  /\ policy.baseDailyLimit # 0
  /\ policy.baseDailyLimit < policy.instantDailyLimit
  /\ policy.basePerTransaction <= policy.baseDailyLimit
  /\ policy.stepUpPerTransaction <= policy.instantDailyLimit
  /\ policy.recipients # {}

TightensNumbersOnly(new, old) ==
  /\ new.basePerTransaction <= old.basePerTransaction
  /\ new.stepUpPerTransaction <= old.stepUpPerTransaction
  /\ new.baseDailyLimit <= old.baseDailyLimit
  /\ new.instantDailyLimit <= old.instantDailyLimit

(* No number grows and no recipient is added.                              *)
Tightens(new, old) ==
  /\ TightensNumbersOnly(new, old)
  /\ new.recipients \subseteq old.recipients

(* Start of the policy window that holds time t.                           *)
CurrentWindow(t) ==
  PeriodAnchor + ((t - PeriodAnchor) \div PeriodSeconds) * PeriodSeconds

SpentWithoutRollover(state, window) == state

(* The counters as the code sees them in the given window.                 *)
SpentIn(state, window) ==
  IF state.window = window THEN state ELSE NothingSpent(window)

BaseLaneIgnoringStepUp(policy, spent, amount) ==
  /\ amount <= policy.basePerTransaction
  /\ amount <= policy.baseDailyLimit - spent.baseSpent

(* What the passkey alone may send: a limit below what is already spent    *)
(* makes the checked subtraction revert, which refuses the amount as well. *)
BaseLaneAdmits(policy, spent, amount) ==
  /\ amount <= policy.basePerTransaction
  /\ amount <= policy.baseDailyLimit - spent.baseSpent
  /\ amount <= policy.instantDailyLimit - spent.instantSpent

(* What passkey and secondary together may send at once.                   *)
StepUpLaneAdmits(policy, spent, amount) ==
  /\ amount <= policy.stepUpPerTransaction
  /\ amount <= policy.instantDailyLimit - spent.instantSpent

(* A transfer enters the Delay queue only above the remaining allowance;   *)
(* here the checked subtraction decides, so it is a guard of its own.      *)
DelayLaneAdmits(policy, spent, amount) ==
  /\ spent.instantSpent <= policy.instantDailyLimit
  /\ amount > policy.instantDailyLimit - spent.instantSpent

=============================================================================
