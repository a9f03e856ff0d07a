---------------------------- MODULE ZodiacDelay ----------------------------
(***************************************************************************)
(* The pinned Zodiac Delay v1.1.1: a FIFO queue of calls with one cooldown  *)
(* and one expiration that apply to every item, whenever it was queued.     *)
(* Its owner and its only module are the Safe, so the owner operations and  *)
(* execTransactionFromModule are called by the Safe; executeNextTx and      *)
(* skipExpired by anybody.  The actions say nothing of the Safe's own state *)
(* and are completed by the module Vault.                                   *)
(***************************************************************************)
EXTENDS Integers, Sequences

CONSTANTS
  DelayedCalls,       (* calls that can be handed to the queue              *)
  InitialCooldown,    (* txCooldown chosen at deployment                    *)
  InitialExpiration,  (* txExpiration chosen at deployment, 0 for never     *)
  MinExpiration       (* smallest nonzero expiration accepted (60 on chain) *)

ASSUME DelayAssumption ==
  /\ InitialCooldown \in Nat
  /\ InitialExpiration \in Nat
  /\ MinExpiration \in Nat
  /\ InitialExpiration = 0 \/ InitialExpiration >= MinExpiration

VARIABLES
  queue,        (* everything ever queued, with the time it was queued      *)
  txNonce,      (* number of items already executed, cancelled or skipped   *)
  txCooldown,
  txExpiration,
  fate          (* history: what became of each item                        *)

delayVars == <<queue, txNonce, txCooldown, txExpiration, fate>>
delaySettings == <<txCooldown, txExpiration>>

(* A lapsed item was seen expired while it waited.                         *)
Fates == {"pending", "lapsed", "executed", "dropped"}

DelayTypeOK ==
  /\ queue \in Seq([call: DelayedCalls, createdAt: Nat])
  /\ txNonce \in 0..Len(queue)
  /\ txCooldown \in Nat
  /\ txExpiration \in Nat
  /\ fate \in Seq(Fates)
  /\ Len(fate) = Len(queue)

DelayInit ==
  /\ queue = <<>>
  /\ txNonce = 0
  /\ txCooldown = InitialCooldown
  /\ txExpiration = InitialExpiration
  /\ fate = <<>>

HasPending == txNonce < Len(queue)

HeadItem == queue[txNonce + 1]

CooledDown(item, t) == t - item.createdAt >= txCooldown

Expired(item, t) ==
  /\ txExpiration # 0
  /\ item.createdAt + txCooldown + txExpiration < t

(* The fates once the items from..to have left the queue as f.             *)
Settle(from, to, f) ==
  [i \in DOMAIN fate |-> IF i \in from..to THEN f ELSE fate[i]]

(* The step executes item i.                                               *)
Executes(i) == fate[i] # "executed" /\ fate'[i] = "executed"

(* execTransactionFromModule: append the call, stamped with the block time. *)
Enqueue(call, t) ==
  /\ queue' = Append(queue, [call |-> call, createdAt |-> t])
  /\ fate' = Append(fate, "pending")
  /\ UNCHANGED <<txNonce, txCooldown, txExpiration>>

SetTxNonceUnordered(n) ==
  /\ n # txNonce
  /\ n <= Len(queue)
  /\ txNonce' = n
  /\ fate' = Settle(txNonce + 1, n, "dropped")
  /\ UNCHANGED <<queue, txCooldown, txExpiration>>

(* setTxNonce: cancel every item up to n, never going back.                *)
SetTxNonce(n) ==
  /\ n > txNonce
  /\ n <= Len(queue)
  /\ txNonce' = n
  /\ fate' = Settle(txNonce + 1, n, "dropped")
  /\ UNCHANGED <<queue, txCooldown, txExpiration>>

SetTxCooldown(cooldown) ==
  /\ txCooldown' = cooldown
  /\ UNCHANGED <<queue, txNonce, txExpiration, fate>>

SetTxExpiration(expiration) ==
  /\ expiration = 0 \/ expiration >= MinExpiration
  /\ txExpiration' = expiration
  /\ UNCHANGED <<queue, txNonce, txCooldown, fate>>

(* executeNextTx, up to the call into the Safe: the head and only the head, *)
(* after its cooldown and before it expires.                                *)
ExecuteNext(t) ==
  /\ HasPending
  /\ CooledDown(HeadItem, t)
  /\ ~Expired(HeadItem, t)
  /\ txNonce' = txNonce + 1
  /\ fate' = Settle(txNonce + 1, txNonce + 1, "executed")
  /\ UNCHANGED <<queue, txCooldown, txExpiration>>

(* Time reaches t: history marks what has expired while it waited.         *)
Lapse(t) ==
  /\ fate' = [i \in DOMAIN fate |->
                IF fate[i] = "pending" /\ Expired(queue[i], t) THEN "lapsed" ELSE fate[i]]
  /\ UNCHANGED <<queue, txNonce, txCooldown, txExpiration>>

(* skipExpired: drop expired items from the head until one is not.         *)
SkipExpired(t) ==
  \E n \in txNonce + 1 .. Len(queue) :
    /\ \A i \in txNonce + 1 .. n : Expired(queue[i], t)
    /\ n < Len(queue) => ~Expired(queue[n + 1], t)
    /\ txNonce' = n
    /\ fate' = Settle(txNonce + 1, n, "dropped")
    /\ UNCHANGED <<queue, txCooldown, txExpiration>>

=============================================================================
