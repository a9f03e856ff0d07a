------------------------------ MODULE GuardHooks ------------------------------
(***************************************************************************)
(* A payment from the inside: the guard's hook before it, the call itself,  *)
(* and the hook after it (TieredSpendingGuard.sol).  In between, foreign    *)
(* code runs: a token may move less than it was asked to (never more), and  *)
(* the token or a recipient may use the Safe and Delay again, with a second *)
(* transaction the owner has signed or the next item of the queue.  What    *)
(* reverts is undone up to the frame that catches it.                       *)
(*                                                                         *)
(* One guard with the counters of one window and one recipient list.        *)
(* Transactions that call the guard, Delay or the maintenance helper run no *)
(* foreign code and are atomic, in Vault.                                   *)
(***************************************************************************)
EXTENDS Integers, SequencesExt

CONSTANTS
  Assets,      (* native and tokens                                          *)
  Tokens,      (* the tokens among them                                      *)
  Safe, Others, (* holders; recipients are among the others                  *)
  Recipients,
  Amounts,     (* of the owner's transactions                                *)
  Limit,       (* what the lanes leave for the window                        *)
  Queue,       (* payments in the Delay, cooled down                         *)
  Holdings,    (* what everybody holds at the start                          *)
  MaxMoves,    (* bound on moves of assets by foreign code                   *)
  None

Payment == [asset: Assets, recipient: Recipients, amount: Nat]

Proof == [token: Tokens, recipient: Recipients, amount: Nat,
          safeBalance: Nat, recipientBalance: Nat]

ASSUME HooksAssumption ==
  /\ Tokens \subseteq Assets /\ Recipients \subseteq Others /\ Safe \notin Others
  /\ Amounts \subseteq 1..Limit /\ Limit \in Nat /\ MaxMoves \in Nat
  /\ Holdings \in [Assets -> [Others \cup {Safe} -> Nat]]
  /\ Queue \in Seq(Payment) /\ None \notin Proof

VARIABLES
  balance,   (* by asset and holder                                          *)
  spent,     (* guard: instant counter by asset                              *)
  checking,  (* guard: is a hook waiting for its second half?                *)
  pending,   (* guard: the token proof, with the balances before the call    *)
  txNonce,   (* Delay                                                        *)
  frames,    (* calls of the Safe under way, the innermost last, each with   *)
             (* the state to go back to                                      *)
  moves      (* history: moves by foreign code                               *)

state == [balance |-> balance, spent |-> spent, checking |-> checking,
          pending |-> pending, txNonce |-> txNonce]
vars == <<balance, spent, checking, pending, txNonce, frames, moves>>

Init ==
  /\ balance = Holdings
  /\ spent = [a \in Assets |-> 0]
  /\ checking = FALSE /\ pending = None
  /\ txNonce = 0
  /\ frames = <<>> /\ moves = 0

Top == Last(frames)

(* The Safe makes the call of a transaction that passed the first hook.     *)
Calls(path, payment) ==
  frames' = Append(frames, [path |-> path, payment |-> payment, moved |-> FALSE, saved |-> state])

-----------------------------------------------------------------------------
(* First hooks.  A transaction can begin at any time: at the top, or inside *)
(* the foreign code of another.                                            *)

CheckTransaction(payment) ==
  /\ ~checking
  /\ checking' = TRUE
  /\ spent[payment.asset] + payment.amount <= Limit
  /\ spent' = [spent EXCEPT ![payment.asset] = @ + payment.amount]
  /\ pending' =
       IF payment.asset \notin Tokens THEN pending
       ELSE [token |-> payment.asset, recipient |-> payment.recipient, amount |-> payment.amount,
             safeBalance |-> balance[payment.asset][Safe],
             recipientBalance |-> balance[payment.asset][payment.recipient]]

OwnerTransaction(payment) ==
  /\ CheckTransaction(payment)
  /\ Calls("owner", payment)
  /\ UNCHANGED <<balance, txNonce, moves>>

CheckModuleTransaction == ~checking /\ checking' = TRUE

(* executeNextTx moves the nonce before it calls the Safe.                  *)
ModuleTransaction ==
  /\ txNonce < Len(Queue)
  /\ txNonce' = txNonce + 1
  /\ CheckModuleTransaction
  /\ Calls("module", Queue[txNonce + 1])
  /\ UNCHANGED <<balance, spent, pending, moves>>

-----------------------------------------------------------------------------
(* The call.  A native transfer moves the amount and then runs the          *)
(* recipient; a token moves up to the amount, at any moment or never.       *)

Gives(asset, from, to, amount) ==
  /\ amount <= balance[asset][from]
  /\ balance' = [balance EXCEPT ![asset][from] = @ - amount, ![asset][to] = @ + amount]

Transfer(amount) ==
  LET payment == Top.payment
  IN  /\ frames # <<>>
      /\ ~Top.moved
      /\ payment.asset \notin Tokens => amount = payment.amount
      /\ amount <= payment.amount
      /\ Gives(payment.asset, Safe, payment.recipient, amount)
      /\ frames' = [frames EXCEPT ![Len(frames)].moved = TRUE]
      /\ UNCHANGED <<spent, checking, pending, txNonce, moves>>

(* Holders other than the Safe give what is theirs, also to the Safe.       *)
Move(asset, from, to) ==
  /\ moves < MaxMoves
  /\ moves' = moves + 1
  /\ from # to
  /\ Gives(asset, from, to, 1)
  /\ UNCHANGED <<spent, checking, pending, txNonce, frames>>

-----------------------------------------------------------------------------
(* Second hooks.                                                           *)

ProvenByTheSafe ==
  pending # None => balance[pending.token][Safe] + pending.amount = pending.safeBalance

(* The balances of both sides changed by the amount, and by nothing else.   *)
Proven ==
  pending # None =>
    /\ balance[pending.token][Safe] + pending.amount = pending.safeBalance
    /\ balance[pending.token][pending.recipient] = pending.recipientBalance + pending.amount

CheckAfterKeepingPending ==
  /\ checking
  /\ Proven
  /\ checking' = FALSE
  /\ UNCHANGED pending

CheckAfterExecution ==
  /\ checking
  /\ Proven
  /\ pending' = None
  /\ checking' = FALSE

CheckAfterModuleExecution == checking /\ checking' = FALSE /\ UNCHANGED pending

(* A native transfer cannot be skipped, a token's can.                      *)
Finish ==
  /\ frames # <<>>
  /\ Top.moved \/ Top.payment.asset \in Tokens
  /\ IF Top.path = "owner" THEN CheckAfterExecution ELSE CheckAfterModuleExecution
  /\ frames' = Front(frames)
  /\ UNCHANGED <<balance, spent, txNonce, moves>>

Restored ==
  /\ balance' = Top.saved.balance /\ spent' = Top.saved.spent
  /\ checking' = Top.saved.checking /\ pending' = Top.saved.pending
  /\ txNonce' = Top.saved.txNonce

(* The call fails, by the foreign code or by the second hook; the frame     *)
(* below goes on or fails in its turn.                                      *)
Revert ==
  /\ frames # <<>>
  /\ Restored
  /\ frames' = Front(frames)
  /\ UNCHANGED moves

Next ==
  \/ \E payment \in [asset: Assets, recipient: Recipients, amount: Amounts] :
       OwnerTransaction(payment)
  \/ ModuleTransaction
  \/ \E amount \in 0..Limit : Transfer(amount)
  \/ \E asset \in Assets, from \in Others, to \in Others \cup {Safe} : Move(asset, from, to)
  \/ Finish
  \/ Revert

Spec == Init /\ [][Next]_vars

-----------------------------------------------------------------------------
(* Types; and between transactions the guard waits for nothing, so that     *)
(* none can leave it locked or with the proof of another transfer.          *)
HooksTypeOK ==
  /\ balance \in [Assets -> [Others \cup {Safe} -> Nat]]
  /\ spent \in [Assets -> Nat]
  /\ checking \in BOOLEAN /\ pending \in Proof \cup {None}
  /\ txNonce \in 0..Len(Queue) /\ moves \in 0..MaxMoves
  /\ \A k \in DOMAIN frames : /\ frames[k].path \in {"owner", "module"}
                              /\ frames[k].payment \in Payment
                              /\ frames[k].moved \in BOOLEAN
  /\ frames = <<>> => ~checking /\ pending = None

-----------------------------------------------------------------------------
(* Refinement.  Until the outermost frame is over nothing has happened.     *)

Committed == IF frames = <<>> THEN state ELSE frames[1].saved

Payments == INSTANCE AtomicPayments
  WITH holdings <- Committed.balance, used <- Committed.spent, nonce <- Committed.txNonce

(* Every transaction that goes through is one authorised payment, whatever  *)
(* the code it called did in between: nested transactions of the owner or   *)
(* the queue change nothing, a token that moves too little or back fails    *)
(* its transfer, and what fails leaves counters and queue alone.            *)
ImplementsAtomicPayments == Payments!Spec

=============================================================================
