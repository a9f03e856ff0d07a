--------------------------- MODULE VaultDeployment ---------------------------
(***************************************************************************)
(* The deployment of a vault: executeVaultDeployment                        *)
(* (scripts/live/vault-runner.ts) as scripts/live/deploy-disposable.ts runs *)
(* it.  Every step but the last deploys a contract the Safe is going to     *)
(* need, at an address that its nonce determines; the last one creates the  *)
(* Safe, which no transaction after it can repair.                          *)
(***************************************************************************)
EXTENDS LiveSubmission

SafeStep == Cardinality(Steps)

(* The contract of a step is at its planned address.                        *)
Deployed(i) ==
  \E k \in DOMAIN mined : mined[k].tx # None /\ mined[k].tx.intent = i
                            /\ mined[k].status = "success"

(* Steps before the Safe whose entries the journal calls successful, up to  *)
(* the first that is not.                                                   *)
Completed ==
  CHOOSE n \in 0..(SafeStep - 1) :
    /\ \A k \in 1..n : Journaled(k) /\ Succeeded(journal[k])
    /\ n < SafeStep - 1 => ~(Journaled(n + 1) /\ Succeeded(journal[n + 1]))

Init == LiveInit

Resumable == ~lock /\ Len(journal) = Completed /\ Nonce = Completed

Start ==
  /\ pc = "stopped"
  /\ Resumable
  /\ lock' = TRUE
  /\ pc' = "plan"
  /\ intent' = 1
  /\ seen' = 0
  /\ UNCHANGED <<chain, journal, out>>

(* liveIntent: a new step's fees are estimated, and a journaled step's are   *)
(* those of its transaction, if the node still has it.                      *)
LiveIntent ==
  /\ pc = "plan"
  /\ Journaled(intent) =>
       journal[intent].tx \in pool \/ ReceiptsOf(journal[intent].tx) # {}
  /\ Enter("submit")
  /\ UNCHANGED <<chain, journal, out>>

(* Something throws before the part that closes the journal on its way out. *)
FailToStart ==
  /\ pc = "stopped"
  /\ Resumable
  /\ lock' = TRUE
  /\ UNCHANGED <<chain, journal, pc, intent, seen, out>>

(* reconcileStep: one wait for the receipt, and one more look.              *)
Returned ==
  /\ pc = "returned"
  /\ Enter(IF Pending(journal[intent]) THEN "waiting" ELSE "settled")
  /\ UNCHANGED <<chain, journal, out>>

Waited ==
  /\ pc = "waiting"
  /\ ReceiptsOf(journal[intent].tx) # {}
  /\ Enter("again")
  /\ UNCHANGED <<chain, journal, out>>

AdvanceIfSettled ==
  /\ pc = "settled"
  /\ ~Pending(journal[intent])
  /\ pc' = CASE intent < SafeStep - 1 -> "plan"
             [] intent = SafeStep - 1 -> "verify"
             [] OTHER -> "verifySafe"
  /\ intent' = IF intent < SafeStep - 1 THEN intent + 1 ELSE intent
  /\ UNCHANGED <<chain, journal, lock, seen, out>>

Advance ==
  /\ pc = "settled"
  /\ Succeeded(journal[intent])
  /\ pc' = CASE intent < SafeStep - 1 -> "plan"
             [] intent = SafeStep - 1 -> "verify"
             [] OTHER -> "verifySafe"
  /\ intent' = IF intent < SafeStep - 1 THEN intent + 1 ELSE intent
  /\ UNCHANGED <<chain, journal, lock, seen, out>>

(* verifyVaultPrerequisites before the setup ...                            *)
VerifyPrerequisites ==
  /\ pc = "verify"
  /\ \A i \in Steps \ {SafeStep} : Deployed(i)
  /\ Enter("ready")
  /\ UNCHANGED <<chain, journal, out>>

(* ... assertSafeCreationReady, with the nonce as it is now ...             *)
CreateSafe ==
  /\ pc = "ready"
  /\ Nonce = SafeStep - 1
  /\ pc' = "plan"
  /\ intent' = SafeStep
  /\ UNCHANGED <<chain, journal, lock, seen, out>>

(* ... and both verifications after it.                                     *)
Finish ==
  /\ pc = "verifySafe"
  /\ \A i \in Steps : Deployed(i)
  /\ pc' = "done"
  /\ lock' = FALSE
  /\ UNCHANGED <<chain, journal, intent, seen, out>>

DeployStep ==
  \/ Start \/ FailToStart \/ LiveIntent \/ Returned \/ Waited \/ Advance
  \/ VerifyPrerequisites \/ CreateSafe \/ Finish

Next == ChainStep \/ SubmitStep \/ DeployStep

Spec == Init /\ [][Next]_vars

-----------------------------------------------------------------------------
(* Invariants.                                                             *)

Phases == {"stopped", "plan", "submit", "again", "recheck", "sign", "send", "returned", "waiting",
           "settled", "verify", "ready", "verifySafe", "done"}

(* Types; and the journal has one entry for each step, in their order.      *)
LiveTypeOK ==
  /\ mined \in Seq(Receipt \cup Foreign)
  /\ pool \subseteq Transaction /\ out \subseteq Transaction
  /\ branch \in Nat /\ lock \in BOOLEAN /\ seen \in Nat
  /\ journal \in Seq(Entry)
  /\ \A k \in DOMAIN journal : journal[k].tx.intent = k
  /\ pc \in Phases
  /\ intent \in Steps

(* No step leaves the process before every step below it has succeeded on   *)
(* the chain, and the Safe least of all - as long as the chain takes no     *)
(* block back, whoever else uses the funder's account and wherever runs     *)
(* were cut off and resumed.                                               *)
StepsRestOnSuccess ==
  branch = 0 => \A t \in out : \A i \in 1..(t.intent - 1) : Deployed(i)

(* What the plan's transactions have cost, and what those in the pool may   *)
(* still cost, stays within the limit of the phase (submission.ts), though  *)
(* the journal frees the rest of a reservation with every receipt.          *)
OutlayIsBounded ==
  branch = 0 =>
    Total([k \in DOMAIN mined |-> mined[k].cost]) + Cardinality(pool) * Reserve <= OutlayLimit

-----------------------------------------------------------------------------
(* Refinement.  The journal's transactions are the ledger's, with or        *)
(* without reorganisations, evictions, crashes and lost answers.            *)

Ledger == INSTANCE StepLedger
  WITH intended <- [k \in DOMAIN journal |-> journal[k].tx], sent <- out

(* Each step is signed once and journaled before it is sent, and no step is *)
(* signed before the one below it was sent.                                *)
ImplementsStepLedger == Ledger!Spec

=============================================================================
