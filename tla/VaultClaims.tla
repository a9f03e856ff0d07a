---------------------------- MODULE VaultClaims ----------------------------
(***************************************************************************)
(* What a comment of the repository says of the vault, as it says it, where *)
(* the contracts do something else.  It is checked by a run of its own that *)
(* TLC is expected to refute; README.md tells how.                          *)
(***************************************************************************)
EXTENDS Vault

(* "The delayed repair paths remain available" (comment on freeze): under a *)
(* frozen guard, whatever was cleared before it was frozen, the signer      *)
(* bindings that replaceGuards and replaceSigner both demand still hold.    *)
FrozenVaultIsMaintainable ==
  frozen[safe.guard] => FactorsDistinct(signers[safe.guard])

=============================================================================
