---------------------------- MODULE LiveSubmission ----------------------------
(***************************************************************************)
(* submitLiveIntent (scripts/live/submission.ts) over the journal file and  *)
(* the RPC context of scripts/live/runtime.ts.  A runner, which holds the   *)
(* lock of the journal, calls it with one intent after the other; it signs  *)
(* an intent's transaction, journals it, broadcasts it, and on later calls  *)
(* only reads its receipt.                                                  *)
(*                                                                         *)
(* Between two awaits the chain moves: transactions are mined or evicted    *)
(* from the pool, blocks are replaced, others use the funder's account; a   *)
(* read or the process may fail.  Intent i carries nonce i - 1.  The        *)
(* journal is read once, but only the runner writes it, so the copy in      *)
(* memory is the file.                                                      *)
(***************************************************************************)
EXTENDS Integers, Sequences, FiniteSets

CONSTANTS
  Steps,        (* intents of the plan, in the order of their nonces         *)
  Fees,         (* fees an intent may be signed with                         *)
  Costs,        (* what a mined transaction may have cost                    *)
  Reserve,      (* value + gas * maxFeePerGas                                *)
  OutlayLimit,  (* PHASE_OUTLAY_LIMIT                                        *)
  MaxForeign,   (* bound on other transactions of the funder                 *)
  MaxReorgs,    (* bound on the number of reorganisations                    *)
  MaxDepth,     (* bound on the blocks one of them replaces                  *)
  None

ASSUME LiveAssumption ==
  /\ IsFiniteSet(Steps) /\ Steps # {} /\ Steps = 1..Cardinality(Steps)
  /\ Reserve \in Nat /\ OutlayLimit \in Nat /\ Costs \subseteq 0..Reserve
  /\ None \notin [intent : Steps, fee : Fees]
  /\ MaxForeign \in Nat /\ MaxReorgs \in Nat /\ MaxDepth \in Nat

VARIABLES
  mined,    (* the funder's transactions on the chain, by nonce              *)
  pool,     (* broadcast and not mined                                       *)
  branch,   (* number of reorganisations so far                              *)
  journal,  (* file: transactions with the receipt last read for each        *)
  lock,     (* does the lock file exist?                                     *)
  pc,       (* where the runner is, "stopped" when none is running           *)
  intent,   (* the intent it is at                                           *)
  seen,     (* receipts of earlier entries read again                        *)
  out       (* history: transactions ever handed to the network              *)

chain == <<mined, pool, branch>>
runner == <<lock, pc, intent, seen>>
vars == <<chain, journal, runner, out>>

Transaction == [intent: Steps, fee: Fees]
Receipt == [tx: Transaction, status: {"success", "reverted"}, cost: Costs, branch: Nat]
Entry == [tx: Transaction, receipt: Receipt \cup {None}]

Nonce == Len(mined)

Foreign == [tx : {None}, status : {"success"}, cost : {0}, branch : Nat]

ReceiptsOf(t) == {mined[k] : k \in {j \in DOMAIN mined : mined[j].tx = t}}

(* What a read of the receipt may say: an RPC that fails is taken for a     *)
(* receipt that is not there.                                              *)
ReceiptAnswers(t) == ReceiptsOf(t) \cup {None}

Journaled(i) == i \in DOMAIN journal

Pending(entry) == entry.receipt = None

Succeeded(entry) == ~Pending(entry) /\ entry.receipt.status = "success"

Reserved(entry) == IF Pending(entry) THEN Reserve ELSE entry.receipt.cost

ReservedByStatus(entry) == IF Succeeded(entry) THEN entry.receipt.cost ELSE 0

(* reduce: the sum of a sequence of amounts.                                *)
Total(amounts) ==
  LET sum[n \in 0..Len(amounts)] == IF n = 0 THEN 0 ELSE sum[n - 1] + amounts[n]
  IN  sum[Len(amounts)]

TotalReserved == Total([k \in DOMAIN journal |-> Reserved(journal[k])])

-----------------------------------------------------------------------------
LiveInit ==
  /\ mined = <<>> /\ pool = {} /\ branch = 0
  /\ journal = <<>> /\ lock = FALSE
  /\ pc = "stopped" /\ intent = 1 /\ seen = 0
  /\ out = {}

(* The chain.  A transaction whose nonce is gone stays in the pool.         *)
Mine(t, status, cost) ==
  /\ t \in pool
  /\ t.intent = Nonce + 1
  /\ mined' = Append(mined, [tx |-> t, status |-> status, cost |-> cost, branch |-> branch])
  /\ pool' = pool \ {t}
  /\ UNCHANGED <<branch, journal, runner, out>>

MineForeign ==
  /\ Cardinality({k \in DOMAIN mined : mined[k].tx = None}) < MaxForeign
  /\ mined' = Append(mined, [tx |-> None, status |-> "success", cost |-> 0, branch |-> branch])
  /\ UNCHANGED <<pool, branch, journal, runner, out>>

Evict(t) ==
  /\ t \in pool
  /\ pool' = pool \ {t}
  /\ UNCHANGED <<mined, branch, journal, runner, out>>

Reorganise(depth) ==
  LET kept == Len(mined) - depth
  IN  /\ branch < MaxReorgs
      /\ kept >= 0
      /\ mined' = SubSeq(mined, 1, kept)
      /\ pool' = pool \cup {mined[k].tx : k \in {j \in kept + 1 .. Len(mined) : mined[j].tx # None}}
      /\ branch' = branch + 1
      /\ UNCHANGED <<journal, runner, out>>

ChainStep ==
  \/ \E t \in pool, status \in {"success", "reverted"}, cost \in Costs : Mine(t, status, cost)
  \/ MineForeign
  \/ \E t \in pool : Evict(t)
  \/ \E depth \in 1..MaxDepth : Reorganise(depth)

-----------------------------------------------------------------------------
(* submitLiveIntent.                                                       *)

Enter(next) == pc' = next /\ UNCHANGED <<lock, intent, seen>>

ResumeIntentAnew ==
  /\ pc \in {"submit", "again"}
  /\ Journaled(intent)
  /\ \E fee \in Fees :
       journal' = [journal EXCEPT ![intent].tx.fee = fee]
  /\ Enter("send")
  /\ UNCHANGED <<chain, out>>

(* A journaled intent: its receipt as the chain has it now, or none.        *)
ResumeIntent ==
  /\ pc \in {"submit", "again"}
  /\ Journaled(intent)
  /\ \E answer \in ReceiptAnswers(journal[intent].tx) :
       journal' = [journal EXCEPT ![intent].receipt = answer]
  /\ Enter(IF pc = "submit" THEN "returned" ELSE "settled")
  /\ UNCHANGED <<chain, out>>

NewIntent ==
  /\ pc = "submit"
  /\ ~Journaled(intent)
  /\ \A k \in DOMAIN journal : ~Pending(journal[k])
  /\ pc' = "recheck"
  /\ seen' = 0
  /\ UNCHANGED <<chain, journal, lock, intent, out>>

(* The receipts of earlier entries must still be what they were.            *)
RecheckReceipt ==
  /\ pc = "recheck"
  /\ seen < Len(journal)
  /\ journal[seen + 1].receipt \in ReceiptsOf(journal[seen + 1].tx)
  /\ seen' = seen + 1
  /\ UNCHANGED <<chain, journal, lock, pc, intent, out>>

PreflightUnbudgeted ==
  /\ pc = "recheck"
  /\ seen = Len(journal)
  /\ Total([k \in DOMAIN journal |-> ReservedByStatus(journal[k])]) <= OutlayLimit
  /\ Nonce = intent - 1
  /\ Enter("sign")
  /\ UNCHANGED <<chain, journal, out>>

(* The budget, and the nonce of the funder as it is now.                    *)
Preflight ==
  /\ pc = "recheck"
  /\ seen = Len(journal)
  /\ TotalReserved + Reserve <= OutlayLimit
  /\ Nonce = intent - 1
  /\ Enter("sign")
  /\ UNCHANGED <<chain, journal, out>>

SignOverwriting(fee) ==
  /\ pc = "sign"
  /\ journal' = <<[tx |-> [intent |-> intent, fee |-> fee], receipt |-> None]>>
  /\ Enter("send")
  /\ UNCHANGED <<chain, out>>

(* The hash is on disk before anything leaves the process.                  *)
Sign(fee) ==
  /\ pc = "sign"
  /\ journal' = Append(journal, [tx |-> [intent |-> intent, fee |-> fee], receipt |-> None])
  /\ Enter("send")
  /\ UNCHANGED <<chain, out>>

HandOut(t) ==
  /\ pool' = pool \cup {t}
  /\ out' = out \cup {t}
  /\ UNCHANGED <<mined, branch>>

Broadcast ==
  /\ pc = "send"
  /\ HandOut(journal[intent].tx)
  /\ Enter("returned")
  /\ UNCHANGED journal

Stops == pc' = "stopped" /\ lock' = FALSE /\ UNCHANGED <<intent, seen>>

(* The transaction is out, and the answer is lost.                          *)
BroadcastUnanswered ==
  /\ pc = "send"
  /\ HandOut(journal[intent].tx)
  /\ Stops
  /\ UNCHANGED journal

(* Any check or read that throws, and a broadcast that never left.          *)
Fail ==
  /\ pc \notin {"stopped", "done"}
  /\ Stops
  /\ UNCHANGED <<chain, journal, out>>

(* The process dies and leaves the lock file behind, until somebody        *)
(* deletes it.                                                             *)
Crash ==
  /\ pc \notin {"stopped", "done"}
  /\ pc' = "stopped"
  /\ UNCHANGED <<chain, journal, lock, intent, seen, out>>

Unlock ==
  /\ pc = "stopped"
  /\ lock
  /\ lock' = FALSE
  /\ UNCHANGED <<chain, journal, pc, intent, seen, out>>

SubmitStep ==
  \/ ResumeIntent \/ NewIntent \/ RecheckReceipt \/ Preflight
  \/ \E fee \in Fees : Sign(fee)
  \/ Broadcast \/ BroadcastUnanswered
  \/ Fail \/ Crash \/ Unlock

=============================================================================
