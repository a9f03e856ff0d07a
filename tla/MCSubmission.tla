----------------------------- MODULE MCSubmission -----------------------------
(* Three requests: one within the base limit, the same transaction prepared *)
(* later in the day, when it takes both roles, and another transaction.     *)
EXTENDS SubmissionClaims, TLC

CONSTANTS d1, d2

MCDigests == {d1, d2}
MCRequests ==
  {[digest |-> d1, amount |-> 1, baseSpent |-> 0, instantSpent |-> 0],
   [digest |-> d1, amount |-> 1, baseSpent |-> 1, instantSpent |-> 1],
   [digest |-> d2, amount |-> 3, baseSpent |-> 0, instantSpent |-> 0]}

MCSymmetry == Permutations(Ids) \cup Permutations(Calls)

=============================================================================
