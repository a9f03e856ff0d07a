--------------------------- MODULE LaneClassifier ---------------------------
(***************************************************************************)
(* The advisory classifier of the off-chain code (src/policy/classify.ts),  *)
(* beside the guard whose decision it predicts.  It reads the configured    *)
(* policy and the guard's counters and says which lane a transfer of the    *)
(* passkey's would take.  Calls other than transfers have no amount to      *)
(* classify and are left out.                                              *)
(***************************************************************************)
EXTENDS Vault

(* assertValidVaultPolicy: what it asks of an asset is what the guard asks. *)
Classifiable(policy) == ValidPolicy(policy) /\ PeriodAnchor % PeriodSeconds = 0

(* A window the guard can have stored, which 0 is not: before its first     *)
(* transfer a token's counters are not taken for counters.                  *)
StoredWindow(window, t) ==
  window >= PeriodAnchor /\ window % PeriodSeconds = 0 /\ window <= CurrentWindow(t)

Consistent(policy, spent) ==
  /\ spent.baseSpent <= spent.instantSpent
  /\ spent.baseSpent <= policy.baseDailyLimit
  /\ spent.instantSpent <= policy.instantDailyLimit

InstantLaneForgettingStepUp(policy, spent, amount, approved) ==
  IF amount <= policy.basePerTransaction /\ amount <= policy.baseDailyLimit - spent.baseSpent
  THEN "base"
  ELSE IF /\ approved /\ amount <= policy.stepUpPerTransaction
          /\ amount <= policy.instantDailyLimit - spent.instantSpent
       THEN "step-up" ELSE "blocked"

InstantLane(policy, spent, amount, approved) ==
  IF /\ amount <= policy.basePerTransaction
     /\ amount <= policy.baseDailyLimit - spent.baseSpent
     /\ amount <= policy.instantDailyLimit - spent.instantSpent
  THEN "base"
  ELSE IF /\ approved /\ amount <= policy.stepUpPerTransaction
          /\ amount <= policy.instantDailyLimit - spent.instantSpent
       THEN "step-up" ELSE "blocked"

(* classifyAction for a transfer; it throws before the anchor, unless the   *)
(* amount alone decides.                                                   *)
ClassifyAction(policy, state, recipient, amount, approved, t) ==
  LET spent == SpentIn(state, CurrentWindow(t))
  IN  IF recipient \notin policy.recipients \/ amount = 0 THEN "blocked"
      ELSE IF amount > policy.instantDailyLimit THEN "delayed"
      ELSE IF t < PeriodAnchor THEN "error"
      ELSE IF ~StoredWindow(state.window, t) \/ ~Consistent(policy, spent) THEN "blocked"
      ELSE InstantLane(policy, spent, amount, approved)

(* What the classifier predicts, signed by the factors of the lane, the     *)
(* guard lets through: as an instant transfer while it is not frozen, as a  *)
(* proposal unless a tightening has left less than what is spent.  So it is *)
(* on either side of a window's end, with counters of an earlier window,    *)
(* and after every tightening and repair (classifyAction against            *)
(* _authorizeTransfer and _authorizeQueueProposal).                         *)
PredictedLaneIsAdmitted ==
  \A t \in Tokens, r \in Recipients, a \in Amounts \cup {b + 2 : b \in Amounts}, approved \in BOOLEAN :
    LET g == safe.guard
        policy == assetPolicy[g][t]
        lane == ClassifyAction(policy, spendState[g][t], r, a, approved, now)
    IN  Classifiable(policy) =>
          /\ lane \in {"base", "step-up"} /\ ~frozen[g] =>
               AuthorizeTransfer(g, lane = "step-up", t, r, a, now)
          /\ lane = "delayed" /\ now >= PeriodAnchor
               /\ Spent(g, t, now).instantSpent <= policy.instantDailyLimit =>
               AuthorizeQueueProposal(g, TRUE, TransferCall(t, r, a), now)

=============================================================================
