---------------------------- MODULE AtomicPayments ----------------------------
(***************************************************************************)
(* What the guard promises of payments, whatever code they call: each       *)
(* transaction is one payment, by the owner within the limit or the next of *)
(* the Delay queue, and takes from the Safe what was authorised for it.     *)
(***************************************************************************)
EXTENDS Integers, Sequences

CONSTANTS Assets, Tokens, Safe, Others, Limit, Queue

VARIABLES
  holdings,   (* by asset and holder                                         *)
  used,       (* by asset: what counts against the limit                     *)
  nonce       (* next item of the queue                                      *)

Loses(asset, amount) == holdings'[asset][Safe] >= holdings[asset][Safe] - amount

LosesNothingOf(asset) == Loses(asset, 0)

(* Of a token Safe and recipient see exactly the amount.                    *)
Exact(asset, recipient, amount) ==
  /\ holdings'[asset][Safe] = holdings[asset][Safe] - amount
  /\ holdings'[asset][recipient] = holdings[asset][recipient] + amount

PayInstantly(asset, recipient, amount) ==
  /\ used[asset] + amount <= Limit
  /\ used' = [used EXCEPT ![asset] = @ + amount]
  /\ IF asset \in Tokens THEN Exact(asset, recipient, amount) ELSE Loses(asset, amount)
  /\ \A other \in Assets \ {asset} : LosesNothingOf(other)
  /\ UNCHANGED nonce

PayNext ==
  /\ nonce < Len(Queue)
  /\ nonce' = nonce + 1
  /\ Loses(Queue[nonce'].asset, Queue[nonce'].amount)
  /\ \A other \in Assets \ {Queue[nonce'].asset} : LosesNothingOf(other)
  /\ UNCHANGED used

(* Others move what is theirs, also to the Safe.                            *)
Elsewhere ==
  /\ \A asset \in Assets : LosesNothingOf(asset)
  /\ UNCHANGED <<used, nonce>>

Next ==
  \/ \E asset \in Assets, recipient \in Others, amount \in 1..Limit :
       PayInstantly(asset, recipient, amount)
  \/ PayNext
  \/ Elsewhere

Spec == nonce = 0 /\ used = [a \in Assets |-> 0] /\ [][Next]_<<holdings, used, nonce>>

=============================================================================
