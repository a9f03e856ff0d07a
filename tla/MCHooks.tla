------------------------------- MODULE MCHooks -------------------------------
(* A native asset and a token, two queued payments, for TLC.               *)
EXTENDS GuardHooks

CONSTANTS eth, eurc, safe, alice, bob

MCQueue ==
  <<[asset |-> eurc, recipient |-> bob, amount |-> 2],
    [asset |-> eth, recipient |-> alice, amount |-> 2]>>

MCHoldings == [a \in Assets |-> [h \in Others \cup {Safe} |-> IF h = Safe THEN 5 ELSE 1]]

=============================================================================
