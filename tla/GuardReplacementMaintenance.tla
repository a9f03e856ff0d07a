-------------------- MODULE GuardReplacementMaintenance --------------------
(***************************************************************************)
(* The helper the Safe runs by DELEGATECALL, only from Delay: it swaps the  *)
(* guard in both Safe guard slots, or rotates one signer in the guard and,  *)
(* for the primary, in the Safe's owner list.  Each function either does    *)
(* all of it or reverts, so each is one step here.                          *)
(***************************************************************************)
EXTENDS TieredSpendingGuard

VARIABLE
  safe   (* the sole owner and the two guard slots of the Safe              *)

SafeTypeOK == safe \in [owner: Signers, guard: Guards, moduleGuard: Guards]

SafeInit ==
  safe = [owner |-> DeployedWith[InitialGuard].passkey,
          guard |-> InitialGuard, moduleGuard |-> InitialGuard]

InBothSlots(g) == safe.guard = g /\ safe.moduleGuard = g

(* The signer bindings both functions require of the installed guard.      *)
FactorsDistinct(s) ==
  /\ s.contractSecondary # None
  /\ s.passkey # s.ecdsaSecondary
  /\ s.passkey # s.contractSecondary
  /\ s.contractSecondary # s.ecdsaSecondary

SameFactorsButEcdsa(s, r) ==
  /\ r.passkey = s.passkey
  /\ r.contractSecondary = s.contractSecondary
  /\ r.contractEnabled = s.contractEnabled

(* _matchesReplacementGuardConfiguration, the comparison of two guards.    *)
SameFactors(s, r) ==
  /\ r.passkey = s.passkey
  /\ r.ecdsaSecondary = s.ecdsaSecondary
  /\ r.contractSecondary = s.contractSecondary
  /\ r.contractEnabled = s.contractEnabled

(* replaceGuards: the replacement is given the contract secondary of the    *)
(* current guard, compared with it, installed in both slots and bound to    *)
(* this helper, which its write-once maintenance field must still allow.    *)
(* Its policies, counters and frozen flag are its own.                      *)
ReplaceGuards(expected, replacement) ==
  LET current == signers[expected]
      bound == WithSecondary(replacement, current.contractSecondary, current.contractEnabled)
  IN  /\ InBothSlots(expected)
      /\ SecondaryConfigurable(replacement, current.contractSecondary, current.contractEnabled)
      /\ FactorsDistinct(current)
      /\ SameFactors(current, bound)
      /\ ~maintenance[replacement]
      /\ signers' = [signers EXCEPT ![replacement] = bound]
      /\ maintenance' = [maintenance EXCEPT ![replacement] = TRUE]
      /\ safe' = [safe EXCEPT !.guard = replacement, !.moduleGuard = replacement]
      /\ UNCHANGED <<assetPolicy, spendState, frozen>>

(* A primary or contract secondary must prove control; an ECDSA one cannot. *)
EvidenceFor(g, role, expectedOld, replacement) ==
  role = "primary" \/ signers[g].contractSecondary = expectedOld
    => replacement \in ContractSigners

ReplaceSignerKeepingOwner(g, role, expectedOld, replacement) ==
  /\ InBothSlots(g)
  /\ safe.owner = signers[g].passkey
  /\ FactorsDistinct(signers[g])
  /\ EvidenceFor(g, role, expectedOld, replacement)
  /\ SignerRepairable(g, role, expectedOld, replacement)
  /\ signers' = [signers EXCEPT ![g] = RepairedSigners(g, role, expectedOld, replacement)]
  /\ UNCHANGED <<safe, assetPolicy, spendState, frozen, maintenance>>

(* replaceSigner: the guard first, then for the primary the Safe's owner.  *)
ReplaceSigner(g, role, expectedOld, replacement) ==
  /\ InBothSlots(g)
  /\ safe.owner = signers[g].passkey
  /\ FactorsDistinct(signers[g])
  /\ EvidenceFor(g, role, expectedOld, replacement)
  /\ SignerRepairable(g, role, expectedOld, replacement)
  /\ signers' = [signers EXCEPT ![g] = RepairedSigners(g, role, expectedOld, replacement)]
  /\ safe' = [safe EXCEPT !.owner = IF role = "primary" THEN replacement ELSE safe.owner]
  /\ UNCHANGED <<assetPolicy, spendState, frozen, maintenance>>

=============================================================================
