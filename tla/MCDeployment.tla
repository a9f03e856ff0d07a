----------------------------- MODULE MCDeployment -----------------------------
(* A plan of two contracts and the Safe, for TLC.                          *)
EXTENDS VaultDeployment

MCSteps == 1..3

=============================================================================
