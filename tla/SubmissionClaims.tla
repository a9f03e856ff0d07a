--------------------------- MODULE SubmissionClaims ---------------------------
(* What a document says of the submission service and the code does not do. *)
EXTENDS SubmissionService

(* "Duplicate registration/submission and uncertain broadcast reconcile     *)
(* against the journal before any retry": while one call broadcasts an id,  *)
(* no other call does.                                                     *)
OneBroadcastPerId ==
  \A c, d \in Calls :
    In("broadcasting", c) /\ In("broadcasting", d) /\ calls[c].id = calls[d].id => c = d

=============================================================================
