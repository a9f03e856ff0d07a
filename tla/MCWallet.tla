------------------------------ MODULE MCWallet ------------------------------
(* A small instance of WalletBackend for TLC.                              *)
EXTENDS WalletBackend, TLC

CONSTANTS tab, script, other

MCSymmetry == Permutations(Scripts)

=============================================================================
