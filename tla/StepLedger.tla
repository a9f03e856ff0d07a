------------------------------ MODULE StepLedger ------------------------------
(***************************************************************************)
(* What the live runners promise, whatever happens to the process and to    *)
(* the chain: transactions are written down before they are sent, one for   *)
(* each step and for good, and a step is not written down before the one    *)
(* before it was sent.                                                      *)
(***************************************************************************)
EXTENDS Integers, Sequences

CONSTANTS Steps, Fees

VARIABLES
  intended,  (* transactions written down, in the order of their steps       *)
  sent       (* transactions anybody outside has ever seen                   *)

Transaction == [intent: Steps, fee: Fees]

Init == intended = <<>> /\ sent = {}

Intend(t) ==
  /\ t.intent = Len(intended) + 1
  /\ \A k \in DOMAIN intended : intended[k] \in sent
  /\ intended' = Append(intended, t)
  /\ UNCHANGED sent

Send ==
  /\ intended # <<>>
  /\ sent' = sent \cup {intended[Len(intended)]}
  /\ UNCHANGED intended

Next == (\E t \in Transaction : Intend(t)) \/ Send

Spec == Init /\ [][Next]_<<intended, sent>>

=============================================================================
