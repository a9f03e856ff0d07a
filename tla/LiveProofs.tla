------------------------------ MODULE LiveProofs ------------------------------
(* Proofs about VaultDeployment: what the journal and the process know of   *)
(* the chain, that it is true while no block is taken back, and that the    *)
(* journal is a StepLedger whatever happens.                                *)
EXTENDS VaultDeployment, FiniteSetTheorems, SequenceTheorems, TLAPS

(* Whatever the chain or a receipt knows of has been handed out.            *)
HandedOut ==
  /\ pool \subseteq out
  /\ \A k \in DOMAIN mined : mined[k].tx \in Transaction => mined[k].tx \in out
  /\ \A k \in DOMAIN journal : Pending(journal[k]) \/ journal[k].tx \in out

(* Where the process is in the journal.                                     *)
InOrder ==
  /\ pc # "stopped" => Len(journal) >= intent - 1
  /\ pc \in {"recheck", "sign"} =>
       Len(journal) = intent - 1 /\ \A k \in DOMAIN journal : ~Pending(journal[k])
  /\ pc = "send" => Len(journal) = intent
  /\ pc \in {"returned", "again", "waiting", "settled", "verify", "ready", "verifySafe"} =>
       intent \in DOMAIN journal
  /\ pc \in {"verify", "ready"} => intent = SafeStep - 1

(* Receipts are on the chain, and what the process has passed is deployed.  *)
Grounded ==
  branch = 0 =>
    /\ \A k \in DOMAIN journal :
         Pending(journal[k]) \/ journal[k].receipt \in ReceiptsOf(journal[k].tx)
    /\ pc # "stopped" => \A i \in 1..(intent - 1) : Deployed(i)
    /\ pc \in {"verify", "ready"} => Deployed(intent)

LiveInv == LiveTypeOK /\ HandedOut /\ InOrder /\ Grounded /\ StepsRestOnSuccess

LEMMA StepsAreNumbered ==
  SafeStep \in Nat \ {0} /\ Steps = 1..SafeStep
<1>1. SafeStep \in Nat
  BY LiveAssumption, FS_CardinalityType DEF SafeStep
<1> QED BY <1>1, LiveAssumption DEF SafeStep

LEMMA EntriesTyped ==
  ASSUME LiveTypeOK
  PROVE  \A k \in DOMAIN journal :
           /\ journal[k] \in Entry
           /\ journal[k].tx \in Transaction
           /\ journal[k].receipt \in Receipt \cup {None}
<1>1. \A k \in DOMAIN journal : journal[k] \in Entry
  BY DEF LiveTypeOK
<1> QED BY <1>1 DEF Entry

LEMMA LiveInitially == Init => LiveInv
<1> SUFFICES ASSUME Init PROVE LiveInv
  OBVIOUS
<1>1. LiveTypeOK
  <2>1. <<>> \in Seq(Receipt \cup Foreign) /\ <<>> \in Seq(Entry)
    OBVIOUS
  <2>2. 1 \in Steps
    BY StepsAreNumbered
  <2>3. DOMAIN journal = {}
    BY DEF Init, LiveInit
  <2>4. mined \in Seq(Receipt \cup Foreign) /\ journal \in Seq(Entry)
    BY <2>1 DEF Init, LiveInit
  <2>5. branch \in Nat /\ seen \in Nat /\ lock \in BOOLEAN /\ pc \in Phases
    BY DEF Init, LiveInit, Phases
  <2> QED BY <2>2, <2>3, <2>4, <2>5 DEF Init, LiveInit, LiveTypeOK
<1>2. DOMAIN journal = {} /\ DOMAIN mined = {}
  BY DEF Init, LiveInit
<1>3. HandedOut /\ InOrder /\ Grounded /\ StepsRestOnSuccess
  BY <1>2 DEF Init, LiveInit, HandedOut, InOrder, Grounded, StepsRestOnSuccess
<1> QED BY <1>1, <1>3 DEF LiveInv

-----------------------------------------------------------------------------
(* The chain, which writes neither the journal nor the history.             *)

(* What was on a chain that only grew still is.                             *)
LEMMA GrowthKeeps ==
  ASSUME LiveTypeOK, NEW r \in Receipt \cup Foreign, mined' = Append(mined, r)
  PROVE  /\ \A t \in Transaction : ReceiptsOf(t) \subseteq ReceiptsOf(t)'
         /\ \A i \in Steps : Deployed(i) => Deployed(i)'
<1>1. /\ DOMAIN mined \subseteq DOMAIN mined'
      /\ \A k \in DOMAIN mined : mined'[k] = mined[k]
  BY DEF LiveTypeOK
<1>2. \A t \in Transaction : ReceiptsOf(t) \subseteq ReceiptsOf(t)'
  BY <1>1 DEF ReceiptsOf
<1>3. \A i \in Steps : Deployed(i) => Deployed(i)'
  BY <1>1 DEF Deployed
<1> QED BY <1>2, <1>3

LEMMA ChainKeepsInv ==
  ASSUME LiveInv, ChainStep
  PROVE  LiveInv'
<1> USE DEF LiveInv
<1>0. UNCHANGED <<journal, runner, out>>
  BY DEF ChainStep, Mine, MineForeign, Evict, Reorganise
<1>1. InOrder'
  BY <1>0 DEF InOrder, Pending, runner
<1>2. ASSUME NEW r \in Receipt \cup Foreign, mined' = Append(mined, r), UNCHANGED branch,
             r.tx \in Transaction => r.tx \in out,
             pool' \subseteq pool
      PROVE  LiveInv'
  <2>1. LiveTypeOK'
    BY <1>0, <1>2 DEF LiveTypeOK, runner
  <2>2. HandedOut'
    BY <1>0, <1>2 DEF HandedOut, Pending, LiveTypeOK, runner
  <2>3. \A k \in DOMAIN journal : journal[k].tx \in Transaction
    BY EntriesTyped
  <2>4. \A i \in 1..(intent - 1) : i \in Steps
    BY StepsAreNumbered DEF LiveTypeOK
  <2>5. Grounded'
    <3>1. ASSUME branch = 0, NEW k \in DOMAIN journal, ~Pending(journal[k])
          PROVE  journal[k].receipt \in ReceiptsOf(journal[k].tx)'
      BY <1>0, <1>2, <2>3, <3>1, GrowthKeeps DEF Grounded, ReceiptsOf
    <3>2. ASSUME NEW i \in 1..(intent - 1), Deployed(i)
          PROVE  Deployed(i)'
      BY <1>2, <2>4, <3>2, GrowthKeeps
    <3>3. Deployed(intent) => Deployed(intent)'
      BY <1>0, <1>2, GrowthKeeps DEF Deployed, LiveTypeOK, runner
    <3> QED BY <1>0, <1>2, <3>1, <3>2, <3>3 DEF Grounded, Pending, ReceiptsOf, runner
  <2>6. \A t \in out : \A i \in 1..(t.intent - 1) : i \in Steps
    BY StepsAreNumbered DEF LiveTypeOK, Transaction
  <2>7. StepsRestOnSuccess'
    BY <1>0, <1>2, <2>6, GrowthKeeps DEF StepsRestOnSuccess, runner
  <2> QED BY <1>1, <2>1, <2>2, <2>5, <2>7
<1>3. ASSUME NEW t \in pool, NEW status \in {"success", "reverted"}, NEW cost \in Costs,
             Mine(t, status, cost)
      PROVE  LiveInv'
  <2>1. t \in Transaction /\ t \in out
    BY DEF LiveTypeOK, HandedOut
  <2>2. [tx |-> t, status |-> status, cost |-> cost, branch |-> branch] \in Receipt
    BY <2>1 DEF Receipt, LiveTypeOK
  <2> QED BY <1>2, <1>3, <2>1, <2>2 DEF Mine
<1>4. CASE MineForeign
  <2>1. [tx |-> None, status |-> "success", cost |-> 0, branch |-> branch] \in Foreign
    BY DEF Foreign, LiveTypeOK
  <2> QED BY <1>2, <1>4, <2>1, LiveAssumption DEF MineForeign, Transaction
<1>5. ASSUME NEW t \in pool, Evict(t)
      PROVE  LiveInv'
  <2>1. LiveTypeOK' /\ HandedOut'
    BY <1>0, <1>5 DEF Evict, LiveTypeOK, HandedOut, Pending, runner
  <2>2. Grounded' /\ StepsRestOnSuccess'
    BY <1>0, <1>5 DEF Evict, Grounded, StepsRestOnSuccess, Pending, ReceiptsOf, Deployed, runner
  <2> QED BY <1>1, <2>1, <2>2
<1>6. ASSUME NEW depth \in 1..MaxDepth, Reorganise(depth)
      PROVE  LiveInv'
  <2> DEFINE kept == Len(mined) - depth
  <2>1. kept \in Nat /\ kept <= Len(mined) /\ mined' = SubSeq(mined, 1, kept)
    BY <1>6, LiveAssumption DEF Reorganise, LiveTypeOK
  <2>2. /\ mined' \in Seq(Receipt \cup Foreign)
        /\ DOMAIN mined' \subseteq DOMAIN mined
        /\ \A k \in DOMAIN mined' : mined'[k] = mined[k]
    BY <2>1 DEF LiveTypeOK
  <2>3. \A k \in DOMAIN mined : mined[k].tx # None => mined[k].tx \in Transaction
    BY DEF LiveTypeOK, Receipt, Foreign
  <2>4. pool' \subseteq pool \cup {mined[k].tx : k \in {j \in DOMAIN mined : mined[j].tx # None}}
    BY <1>6, <2>1 DEF Reorganise, LiveTypeOK
  <2>5. LiveTypeOK'
    BY <1>0, <1>6, <2>2, <2>3, <2>4 DEF Reorganise, LiveTypeOK, runner
  <2>6. HandedOut'
    BY <1>0, <1>6, <2>2, <2>3, <2>4 DEF Reorganise, HandedOut, Pending
  <2>7. branch' # 0
    BY <1>6 DEF Reorganise, LiveTypeOK
  <2> QED BY <1>1, <2>5, <2>6, <2>7 DEF Grounded, StepsRestOnSuccess
<1> QED BY <1>3, <1>4, <1>5, <1>6 DEF ChainStep

-----------------------------------------------------------------------------
(* The process.  Most steps only move it: what is written, sent and mined   *)
(* stays.                                                                  *)

LEMMA MoveKeepsInv ==
  ASSUME LiveInv, UNCHANGED <<chain, journal, out>>,
         lock' \in BOOLEAN, seen' \in Nat, pc' \in Phases, intent' \in Steps,
         InOrder',
         pc' # "stopped" /\ branch = 0 =>
           \A i \in 1..(intent' - 1) : Deployed(i),
         pc' \in {"verify", "ready"} /\ branch = 0 => Deployed(intent')
  PROVE  LiveInv'
<1>1. LiveTypeOK' /\ HandedOut'
  BY DEF LiveInv, LiveTypeOK, HandedOut, Pending, chain
<1>2. StepsRestOnSuccess'
  BY DEF LiveInv, StepsRestOnSuccess, Deployed, chain
<1>3. Grounded'
  BY DEF LiveInv, Grounded, Pending, ReceiptsOf, Deployed, chain
<1> QED BY <1>1, <1>2, <1>3 DEF LiveInv

(* A receipt that answers for a transaction is that of a mined one.         *)
LEMMA AnswersAreReceipts ==
  ASSUME LiveInv, NEW t \in Transaction, NEW r \in ReceiptsOf(t)
  PROVE  r \in Receipt /\ t \in out
<1>1. PICK k \in DOMAIN mined : mined[k].tx = t /\ r = mined[k]
  BY DEF ReceiptsOf
<1>2. t # None
  BY LiveAssumption DEF Transaction
<1>3. mined[k] \in Receipt
  BY <1>1, <1>2 DEF LiveInv, LiveTypeOK, Foreign
<1> QED BY <1>1, <1>3 DEF LiveInv, HandedOut

LEMMA ResumeKeepsInv ==
  ASSUME LiveInv, ResumeIntent
  PROVE  LiveInv'
<1> USE DEF LiveInv
<1>1. PICK answer \in ReceiptAnswers(journal[intent].tx) :
        journal' = [journal EXCEPT ![intent].receipt = answer]
  BY DEF ResumeIntent
<1>2. intent \in DOMAIN journal /\ journal[intent].tx \in Transaction
  BY EntriesTyped DEF ResumeIntent, Journaled
<1>3. /\ answer \in Receipt \cup {None}
      /\ answer # None => journal[intent].tx \in out /\ answer \in ReceiptsOf(journal[intent].tx)
  BY <1>1, <1>2, AnswersAreReceipts DEF ReceiptAnswers
<1>4. /\ DOMAIN journal' = DOMAIN journal /\ Len(journal') = Len(journal)
      /\ \A k \in DOMAIN journal : journal'[k].tx = journal[k].tx
      /\ \A k \in DOMAIN journal \ {intent} : journal'[k] = journal[k]
      /\ journal'[intent].receipt = answer
      /\ journal' \in Seq(Entry)
  <2>1. \A k \in DOMAIN journal : journal[k] \in Entry
    BY EntriesTyped
  <2>2. [journal[intent] EXCEPT !.receipt = answer] \in Entry
    BY <1>2, <1>3, <2>1 DEF Entry
  <2>3. PICK entry \in Entry : entry = [journal[intent] EXCEPT !.receipt = answer]
    BY <2>2
  <2>4. entry.tx = journal[intent].tx /\ entry.receipt = answer
    BY <1>2, <2>1, <2>3 DEF Entry
  <2>5. journal \in Seq(Entry) /\ journal' = [journal EXCEPT ![intent] = entry]
    BY <1>1, <2>3 DEF LiveTypeOK
  <2>6. journal' \in Seq(Entry) /\ DOMAIN journal' = DOMAIN journal /\ Len(journal') = Len(journal)
    BY <1>2, <2>5
  <2>7. journal'[intent] = entry /\ \A k \in DOMAIN journal \ {intent} : journal'[k] = journal[k]
    BY <1>2, <2>5
  <2> QED BY <2>4, <2>6, <2>7
<1>5. UNCHANGED <<mined, pool, branch, out, lock, intent, seen>> /\ pc' \in {"returned", "settled"}
  BY DEF ResumeIntent, Enter, chain
<1>6. LiveTypeOK'
  BY <1>4, <1>5 DEF LiveTypeOK, Phases
<1>7. HandedOut'
  BY <1>3, <1>4, <1>5 DEF HandedOut, Pending
<1>8. InOrder'
  BY <1>2, <1>4, <1>5 DEF InOrder, LiveTypeOK, ResumeIntent
<1>9. Grounded' /\ StepsRestOnSuccess'
  <2>1. StepsRestOnSuccess'
    BY <1>5 DEF StepsRestOnSuccess, Deployed
  <2>2. ASSUME branch = 0
        PROVE  \A k \in DOMAIN journal :
                 journal'[k].receipt = None \/ journal'[k].receipt \in ReceiptsOf(journal[k].tx)
    BY <1>3, <1>4, <2>2 DEF Grounded, Pending
  <2>3. branch = 0 => \A i \in 1..(intent - 1) : Deployed(i)
    BY DEF Grounded, ResumeIntent
  <2> QED BY <1>4, <1>5, <2>1, <2>2, <2>3 DEF Grounded, Pending, ReceiptsOf, Deployed
<1> QED BY <1>6, <1>7, <1>8, <1>9

LEMMA SignKeepsInv ==
  ASSUME LiveInv, NEW fee \in Fees, Sign(fee)
  PROVE  LiveInv'
<1> USE DEF LiveInv
<1> DEFINE entry == [tx |-> [intent |-> intent, fee |-> fee], receipt |-> None]
<1>1. entry \in Entry /\ Pending(entry) /\ entry.tx.intent = intent
  BY DEF Entry, Transaction, Pending, LiveTypeOK
<1>2. /\ journal' = Append(journal, entry) /\ Len(journal) = intent - 1
      /\ UNCHANGED <<mined, pool, branch, out, lock, intent, seen>>
      /\ pc' = "send"
  BY DEF Sign, Enter, chain, InOrder
<1> HIDE DEF entry
<1>3. /\ journal' \in Seq(Entry) /\ Len(journal') = intent
      /\ DOMAIN journal' = DOMAIN journal \cup {intent}
      /\ \A k \in DOMAIN journal : journal'[k] = journal[k]
      /\ journal'[intent] = entry
  BY <1>1, <1>2, StepsAreNumbered DEF LiveTypeOK
<1>4. LiveTypeOK'
  BY <1>1, <1>2, <1>3 DEF LiveTypeOK, Phases
<1>5. HandedOut' /\ InOrder'
  BY <1>1, <1>2, <1>3, StepsAreNumbered DEF HandedOut, InOrder, Pending, LiveTypeOK
<1>6. Grounded' /\ StepsRestOnSuccess'
  BY <1>1, <1>2, <1>3
     DEF Grounded, StepsRestOnSuccess, Pending, ReceiptsOf, Deployed, Sign
<1> QED BY <1>4, <1>5, <1>6

LEMMA SendKeepsInv ==
  ASSUME LiveInv, Broadcast \/ BroadcastUnanswered
  PROVE  LiveInv'
<1> USE DEF LiveInv
<1>1. pc = "send" /\ Len(journal) = intent /\ intent \in DOMAIN journal
  BY StepsAreNumbered DEF Broadcast, BroadcastUnanswered, InOrder, LiveTypeOK
<1>2. journal[intent].tx \in Transaction /\ journal[intent].tx.intent = intent
  BY <1>1, EntriesTyped DEF LiveTypeOK
<1>3. /\ pool' = pool \cup {journal[intent].tx} /\ out' = out \cup {journal[intent].tx}
      /\ UNCHANGED <<mined, branch, journal, intent, seen>>
      /\ lock' \in BOOLEAN /\ pc' \in {"returned", "stopped"}
  BY DEF Broadcast, BroadcastUnanswered, HandOut, Enter, Stops, LiveTypeOK
<1>4. LiveTypeOK' /\ HandedOut' /\ InOrder'
  BY <1>1, <1>2, <1>3 DEF LiveTypeOK, HandedOut, InOrder, Pending, Phases
<1>5. branch = 0 => \A i \in 1..(intent - 1) : Deployed(i)
  BY <1>1 DEF Grounded
<1>6. Grounded'
  BY <1>3, <1>5 DEF Grounded, Pending, ReceiptsOf, Deployed
<1>7. StepsRestOnSuccess'
  BY <1>2, <1>3, <1>5 DEF StepsRestOnSuccess, Deployed
<1> QED BY <1>4, <1>6, <1>7

LEMMA SubmitKeepsInv ==
  ASSUME LiveInv, SubmitStep
  PROVE  LiveInv'
<1>1. branch = 0 /\ pc # "stopped" => \A i \in 1..(intent - 1) : Deployed(i)
  BY DEF LiveInv, Grounded
<1>2. CASE NewIntent
  <2>1. Len(journal) = intent - 1
    BY <1>2, StepsAreNumbered DEF NewIntent, LiveInv, InOrder, LiveTypeOK, Journaled
  <2>2. InOrder'
    BY <1>2, <2>1 DEF NewIntent, InOrder, Pending, chain
  <2> QED
    BY <1>1, <1>2, <2>2, MoveKeepsInv DEF NewIntent, LiveInv, LiveTypeOK, Phases, chain
<1>3. CASE RecheckReceipt
  <2>1. InOrder'
    BY <1>3 DEF RecheckReceipt, LiveInv, InOrder, Pending, chain
  <2> QED
    BY <1>1, <1>3, <2>1, MoveKeepsInv DEF RecheckReceipt, LiveInv, LiveTypeOK, Phases, chain
<1>4. CASE Preflight
  <2>1. InOrder'
    BY <1>4 DEF Preflight, Enter, LiveInv, InOrder, Pending, chain
  <2> QED
    BY <1>1, <1>4, <2>1, MoveKeepsInv DEF Preflight, Enter, LiveInv, LiveTypeOK, Phases, chain
<1>5. CASE Fail \/ Crash \/ Unlock
  <2>1. /\ pc' = "stopped" /\ lock' \in BOOLEAN
        /\ UNCHANGED <<chain, journal, intent, seen, out>>
    BY <1>5 DEF Fail, Crash, Unlock, Stops, LiveInv, LiveTypeOK
  <2>2. InOrder'
    BY <2>1 DEF InOrder
  <2>3. pc' \in Phases /\ seen' \in Nat /\ intent' \in Steps
    BY <2>1 DEF LiveInv, LiveTypeOK, Phases
  <2> QED BY <2>1, <2>2, <2>3, MoveKeepsInv
<1> QED
  BY <1>2, <1>3, <1>4, <1>5, ResumeKeepsInv, SignKeepsInv, SendKeepsInv DEF SubmitStep

LEMMA DeployKeepsInv ==
  ASSUME LiveInv, DeployStep
  PROVE  LiveInv'
<1> USE DEF LiveInv
<1>1. branch = 0 /\ pc # "stopped" => \A i \in 1..(intent - 1) : Deployed(i)
  BY DEF Grounded
<1>2. UNCHANGED <<chain, journal, out>>
  BY DEF DeployStep, Start, FailToStart, LiveIntent, Returned, Waited, Advance,
         VerifyPrerequisites, CreateSafe, Finish
<1>3. CASE Start
  <2>1. InOrder' /\ intent' = 1 /\ 1 \in Steps
    BY <1>2, <1>3, StepsAreNumbered DEF Start, InOrder, LiveTypeOK
  <2> QED BY <1>2, <1>3, <2>1, MoveKeepsInv DEF Start, Phases
<1>4. CASE FailToStart
  <2>1. InOrder'
    BY <1>4 DEF FailToStart, InOrder
  <2> QED BY <1>2, <1>4, <2>1, MoveKeepsInv DEF FailToStart, LiveTypeOK
<1>5. CASE LiveIntent \/ Returned \/ Waited
  <2>1. UNCHANGED <<lock, intent, seen>>
    BY <1>5 DEF LiveIntent, Returned, Waited, Enter
  <2>2. InOrder' /\ pc # "stopped" /\ pc' \in Phases \ {"verify", "ready"}
    BY <1>2, <1>5, <2>1 DEF LiveIntent, Returned, Waited, Enter, InOrder, Phases
  <2> QED BY <1>1, <1>2, <2>1, <2>2, MoveKeepsInv DEF LiveTypeOK
<1>6. CASE Advance
  <2>1. intent \in DOMAIN journal /\ journal[intent].tx \in Transaction
        /\ journal[intent].tx.intent = intent /\ Succeeded(journal[intent])
    BY <1>6, EntriesTyped DEF Advance, InOrder, LiveTypeOK
  <2>2. branch = 0 => Deployed(intent)
    <3>1. SUFFICES ASSUME branch = 0 PROVE Deployed(intent)
      OBVIOUS
    <3>2. PICK k \in DOMAIN mined :
            mined[k].tx = journal[intent].tx /\ journal[intent].receipt = mined[k]
      BY <2>1, <3>1 DEF Grounded, Succeeded, ReceiptsOf
    <3>3. mined[k].tx # None
      BY <2>1, <3>2, LiveAssumption DEF Transaction
    <3> QED BY <2>1, <3>2, <3>3 DEF Deployed, Succeeded
  <2>3. branch = 0 => \A i \in 1..intent : Deployed(i)
    BY <1>1, <1>6, <2>2, StepsAreNumbered DEF Advance, LiveTypeOK
  <2>4. CASE intent < SafeStep - 1
    <3>1. pc' = "plan" /\ intent' = intent + 1 /\ intent' \in Steps
      BY <1>6, <2>4, StepsAreNumbered DEF Advance, LiveTypeOK
    <3>2. InOrder'
      BY <1>2, <2>1, <3>1, StepsAreNumbered DEF InOrder, LiveTypeOK
    <3>3. intent' - 1 = intent
      BY <3>1, StepsAreNumbered DEF LiveTypeOK
    <3> QED
      BY <1>2, <1>6, <2>3, <3>1, <3>2, <3>3, MoveKeepsInv DEF Advance, LiveTypeOK, Phases
  <2>5. CASE ~(intent < SafeStep - 1)
    <3>1. /\ intent' = intent
          /\ pc' \in {"verify", "verifySafe"} /\ (pc' = "verify" => intent = SafeStep - 1)
      BY <1>6, <2>5 DEF Advance
    <3>2. InOrder'
      BY <1>2, <2>1, <3>1, StepsAreNumbered DEF InOrder, LiveTypeOK
    <3> QED
      BY <1>1, <1>2, <1>6, <2>2, <3>1, <3>2, MoveKeepsInv DEF Advance, LiveTypeOK, Phases
  <2> QED BY <2>4, <2>5
<1>7. CASE VerifyPrerequisites
  <2>1. InOrder' /\ (branch = 0 => Deployed(intent))
    BY <1>2, <1>7 DEF VerifyPrerequisites, Enter, InOrder, Grounded
  <2> QED
    BY <1>1, <1>2, <1>7, <2>1, MoveKeepsInv DEF VerifyPrerequisites, Enter, LiveTypeOK, Phases
<1>8. CASE CreateSafe
  <2>1. intent = SafeStep - 1 /\ intent' = SafeStep /\ pc' = "plan" /\ intent \in DOMAIN journal
    BY <1>8 DEF CreateSafe, InOrder
  <2>2. InOrder' /\ intent' \in Steps
    BY <1>2, <2>1, StepsAreNumbered DEF InOrder, LiveTypeOK
  <2>3. branch = 0 => \A i \in 1..(intent' - 1) : Deployed(i)
    BY <1>1, <1>8, <2>1, StepsAreNumbered DEF CreateSafe, Grounded, LiveTypeOK
  <2> QED
    BY <1>2, <1>8, <2>1, <2>2, <2>3, MoveKeepsInv DEF CreateSafe, LiveTypeOK, Phases
<1>9. CASE Finish
  <2>1. InOrder'
    BY <1>2, <1>9 DEF Finish, InOrder
  <2>2. /\ lock' \in BOOLEAN /\ pc' = "done" /\ pc' \in Phases /\ pc # "stopped"
        /\ seen' \in Nat /\ intent' \in Steps /\ intent' = intent
    BY <1>9 DEF Finish, LiveTypeOK, Phases
  <2> QED BY <1>1, <1>2, <2>1, <2>2, MoveKeepsInv
<1> QED BY <1>3, <1>4, <1>5, <1>6, <1>7, <1>8, <1>9 DEF DeployStep

LEMMA LiveUnchanged == LiveInv /\ UNCHANGED vars => LiveInv'
BY DEF vars, chain, runner, LiveInv, LiveTypeOK, HandedOut, InOrder, Grounded,
       StepsRestOnSuccess, Pending, ReceiptsOf, Deployed

(* The inductive invariant holds in every reachable state.                  *)
THEOREM LiveInvariant == Spec => []LiveInv
<1>1. LiveInv /\ [Next]_vars => LiveInv'
  BY ChainKeepsInv, SubmitKeepsInv, DeployKeepsInv, LiveUnchanged DEF Next
<1> QED BY <1>1, LiveInitially, PTL DEF Spec

(* Every entry of the journal is a well-formed one of its own step.         *)
THEOREM DeploymentIsTyped == Spec => []LiveTypeOK
<1>1. LiveInv => LiveTypeOK
  BY DEF LiveInv
<1> QED BY <1>1, LiveInvariant, PTL

(* For plans of any length: as long as no block is taken back, a step       *)
(* leaves the process only after every step below it has succeeded.         *)
THEOREM NothingIsSentEarly == Spec => []StepsRestOnSuccess
<1>1. LiveInv => StepsRestOnSuccess
  BY DEF LiveInv
<1> QED BY <1>1, LiveInvariant, PTL

-----------------------------------------------------------------------------
(* Sums.  Induction over the naturals is for a set, by the least number     *)
(* that is not in it.                                                       *)
LEMMA NumberInduction ==
  ASSUME NEW S, 0 \in S, \A n \in Nat : n \in S => n + 1 \in S
  PROVE  Nat \subseteq S
<1> DEFINE T == Nat \ S
<1>1. SUFFICES ASSUME T # {} PROVE FALSE
  OBVIOUS
<1>2. PICK n \in T : \A m \in T : ~(<<m, n>> \in OpToRel(<, Nat))
  BY <1>1, NatLessThanWellFounded, WFMin
<1>3. n \in Nat /\ n # 0
  BY <1>2
<1>4. n - 1 \in Nat /\ n - 1 < n /\ (n - 1) + 1 = n
  BY <1>3
<1>5. n - 1 \notin T
  BY <1>2, <1>3, <1>4 DEF OpToRel
<1> QED BY <1>2, <1>4, <1>5

(* The sums of the first amounts, one after the other.                      *)
Sums(s, amounts) ==
  /\ s[0] = 0
  /\ \A n \in 1..Len(amounts) : s[n] = s[n - 1] + amounts[n]

LEMMA TotalIsTheLastSum ==
  ASSUME NEW amounts, Len(amounts) \in Nat
  PROVE  \E s : Sums(s, amounts) /\ Total(amounts) = s[Len(amounts)]
<1> DEFINE Is(f, n) == f = [i \in 0..n |-> IF i = 0 THEN 0 ELSE f[i - 1] + amounts[i]]
           S == {n \in Nat : \E f : Is(f, n)}
<1>1. 0 \in S
  <2>1. Is([i \in 0..0 |-> 0], 0)
    OBVIOUS
  <2> QED BY <2>1
<1>2. ASSUME NEW n \in Nat, n \in S PROVE n + 1 \in S
  <2>1. PICK f : Is(f, n)
    BY <1>2
  <2> DEFINE g == [i \in 0..(n + 1) |-> IF i <= n THEN f[i] ELSE f[n] + amounts[n + 1]]
  <2>2. ASSUME NEW i \in 0..(n + 1)
        PROVE  g[i] = IF i = 0 THEN 0 ELSE g[i - 1] + amounts[i]
    <3>1. CASE i = 0
      BY <2>1, <3>1
    <3>2. CASE i \in 1..n
      <4>1. i - 1 \in 0..n /\ i - 1 <= n /\ i \in 0..n
        BY <3>2
      <4>2. g[i] = f[i] /\ g[i - 1] = f[i - 1]
        BY <3>2, <4>1
      <4>3. f[i] = f[i - 1] + amounts[i]
        BY <2>1, <3>2, <4>1
      <4> QED BY <3>2, <4>2, <4>3
    <3>3. CASE i = n + 1
      <4>1. g[n] = f[n] /\ g[n + 1] = f[n] + amounts[n + 1] /\ (n + 1) - 1 = n
        OBVIOUS
      <4> QED BY <3>3, <4>1
    <3> QED BY <3>1, <3>2, <3>3
  <2>3. Is(g, n + 1)
    <3> HIDE DEF g
    <3>1. g = [i \in 0..(n + 1) |-> g[i]]
      BY DEF g
    <3> QED BY <2>2, <3>1
  <2>4. \E h : Is(h, n + 1)
    <3> HIDE DEF g, Is
    <3> QED BY <2>3
  <2> QED BY <2>4
<1>3. Nat \subseteq S
  <2> HIDE DEF S
  <2> QED BY <1>1, <1>2, NumberInduction
<1> DEFINE n == Len(amounts)
           sum == CHOOSE f : Is(f, n)
<1>4. Is(sum, n)
  BY <1>3
<1>5. Total(amounts) = sum[n]
  BY DEF Total
<1> DEFINE g == [i \in 0..n |-> IF i = 0 THEN 0 ELSE sum[i - 1] + amounts[i]]
<1>6. sum = g
  BY <1>4
<1> HIDE DEF sum, Is
<1>7. \A i \in 0..n : g[i] = IF i = 0 THEN 0 ELSE sum[i - 1] + amounts[i]
  OBVIOUS
<1> HIDE DEF g
<1>8. sum[0] = 0 /\ \A i \in 1..n : sum[i] = sum[i - 1] + amounts[i]
  <2>1. 0 \in 0..n /\ \A i \in 1..n : i \in 0..n /\ i # 0
    OBVIOUS
  <2> QED BY <1>6, <1>7, <2>1
<1>9. Sums(sum, amounts)
  BY <1>8 DEF Sums
<1> QED BY <1>5, <1>9

LEMMA SumsAreNatural ==
  ASSUME NEW a \in Seq(Nat), NEW s, Sums(s, a)
  PROVE  \A n \in 0..Len(a) : s[n] \in Nat
<1> DEFINE S == {n \in Nat : n <= Len(a) => s[n] \in Nat}
<1>1. 0 \in S
  BY DEF Sums
<1>2. ASSUME NEW n \in Nat, n \in S PROVE n + 1 \in S
  <2>1. CASE n + 1 <= Len(a)
    <3>1. n + 1 \in 1..Len(a) /\ n <= Len(a) /\ (n + 1) - 1 = n /\ Len(a) \in Nat
      BY <2>1
    <3>2. s[n + 1] = s[n] + a[n + 1] /\ a[n + 1] \in Nat /\ s[n] \in Nat
      BY <1>2, <3>1 DEF Sums
    <3>3. s[n + 1] \in Nat
      BY <3>2
    <3> QED BY <3>3
  <2> QED BY <2>1
<1>3. Nat \subseteq S
  <2> HIDE DEF S
  <2> QED BY <1>1, <1>2, NumberInduction
<1> QED BY <1>3

LEMMA SumsAreMonotone ==
  ASSUME NEW a \in Seq(Nat), NEW b \in Seq(Nat), NEW s, NEW u, Sums(s, a), Sums(u, b),
         NEW bound \in Nat, bound <= Len(a), bound <= Len(b),
         \A n \in 1..bound : a[n] <= b[n]
  PROVE  \A n \in 0..bound : s[n] <= u[n]
<1> DEFINE S == {n \in Nat : n <= bound => s[n] <= u[n]}
<1>1. 0 \in S
  BY DEF Sums
<1>2. ASSUME NEW n \in Nat, n \in S PROVE n + 1 \in S
  <2>1. CASE n + 1 <= bound
    <3>1. n + 1 \in 1..Len(a) /\ n + 1 \in 1..Len(b) /\ n + 1 \in 1..bound
          /\ n <= bound /\ (n + 1) - 1 = n /\ n \in 0..Len(a) /\ n \in 0..Len(b)
      BY <2>1
    <3>2. s[n + 1] = s[n] + a[n + 1] /\ u[n + 1] = u[n] + b[n + 1]
      BY <3>1 DEF Sums
    <3>3. a[n + 1] \in Nat /\ b[n + 1] \in Nat /\ s[n] \in Nat /\ u[n] \in Nat
      BY <3>1, SumsAreNatural
    <3>4. a[n + 1] <= b[n + 1] /\ s[n] <= u[n]
      BY <1>2, <3>1
    <3>5. s[n] + a[n + 1] <= u[n] + b[n + 1]
      <4>1. \A p, q, x, y \in Nat : p <= q /\ x <= y => x + p <= y + q
        OBVIOUS
      <4> QED BY <3>3, <3>4, <4>1
    <3>6. s[n + 1] <= u[n + 1]
      BY <3>2, <3>5
    <3> QED BY <3>6
  <2> QED BY <2>1
<1>3. Nat \subseteq S
  <2> HIDE DEF S
  <2> QED BY <1>1, <1>2, NumberInduction
<1> QED BY <1>3

(* Totals are natural numbers, grow with their amounts, and by each new one. *)
LEMMA TotalIsNatural ==
  ASSUME NEW a \in Seq(Nat)
  PROVE  Total(a) \in Nat
<1>1. Len(a) \in Nat /\ Len(a) \in 0..Len(a)
  OBVIOUS
<1>2. PICK s : Sums(s, a) /\ Total(a) = s[Len(a)]
  BY <1>1, TotalIsTheLastSum
<1> QED BY <1>1, <1>2, SumsAreNatural

LEMMA TotalIsMonotone ==
  ASSUME NEW a \in Seq(Nat), NEW b \in Seq(Nat), Len(a) = Len(b),
         \A n \in 1..Len(a) : a[n] <= b[n]
  PROVE  Total(a) <= Total(b)
<1>1. Len(a) \in Nat /\ Len(b) \in Nat /\ Len(a) \in 0..Len(a) /\ Len(a) <= Len(b)
  OBVIOUS
<1>2. PICK s : Sums(s, a) /\ Total(a) = s[Len(a)]
  BY <1>1, TotalIsTheLastSum
<1>3. PICK u : Sums(u, b) /\ Total(b) = u[Len(b)]
  BY <1>1, TotalIsTheLastSum
<1>4. \A n \in 0..Len(a) : s[n] <= u[n]
  BY <1>1, <1>2, <1>3, SumsAreMonotone
<1> QED BY <1>1, <1>2, <1>3, <1>4

LEMMA TotalOfAppend ==
  ASSUME NEW a \in Seq(Nat), NEW x \in Nat
  PROVE  Total(Append(a, x)) = Total(a) + x
<1> DEFINE b == Append(a, x)
           m == Len(a)
<1>1. /\ m \in Nat /\ Len(b) = m + 1 /\ b \in Seq(Nat) /\ b[m + 1] = x
      /\ \A n \in 1..m : b[n] = a[n] /\ a[n] \in Nat
  OBVIOUS
<1> HIDE DEF b
<1>2. PICK s : Sums(s, a) /\ Total(a) = s[m]
  BY <1>1, TotalIsTheLastSum
<1>3. PICK u : Sums(u, b) /\ Total(b) = u[m + 1]
  BY <1>1, TotalIsTheLastSum
<1>4. m <= Len(b) /\ m <= Len(a) /\ m \in 0..m /\ m \in 0..Len(b)
      /\ \A n \in 1..m : a[n] <= b[n] /\ b[n] <= a[n]
  BY <1>1
<1>5. s[m] <= u[m]
  BY <1>1, <1>2, <1>3, <1>4, SumsAreMonotone
<1>6. u[m] <= s[m]
  BY <1>1, <1>2, <1>3, <1>4, SumsAreMonotone
<1>7. s[m] \in Nat /\ u[m] \in Nat
  BY <1>1, <1>2, <1>3, <1>4, SumsAreNatural
<1>8. u[m + 1] = u[m] + x
  <2>1. m + 1 \in 1..Len(b) /\ (m + 1) - 1 = m
    BY <1>1
  <2> QED BY <1>1, <1>3, <2>1 DEF Sums
<1> QED BY <1>2, <1>3, <1>5, <1>6, <1>7, <1>8 DEF b

-----------------------------------------------------------------------------
(* The outlay.                                                             *)

CostsOf(txs) == [k \in DOMAIN txs |-> txs[k].cost]

Spent == Total(CostsOf(mined))

(* While no block is taken back, the chain has only what the journal wrote  *)
(* down, and only the last entry may still be in the pool; before a step is *)
(* sent nothing is, and its reservation fits beside what has been spent.    *)
Budgeted ==
  branch = 0 =>
    /\ \A k \in DOMAIN mined :
         mined[k].tx # None => k \in DOMAIN journal /\ mined[k].tx = journal[k].tx
    /\ \A t \in pool :
         /\ journal # <<>> /\ t = journal[Len(journal)].tx
         /\ \A k \in DOMAIN mined : mined[k].tx # t
    /\ pc = "send" => \A k \in DOMAIN mined : mined[k].tx # journal[intent].tx
    /\ pc \in {"sign", "send"} => pool = {} /\ Spent + Reserve <= OutlayLimit

OutlayInv == LiveInv /\ Budgeted /\ OutlayIsBounded

LEMMA CostOfOne ==
  ASSUME NEW r \in Receipt \cup Foreign
  PROVE  r.cost \in 0..Reserve /\ r.cost \in Nat /\ (r.tx = None => r.cost = 0)
<1>1. Costs \subseteq 0..Reserve /\ Reserve \in Nat /\ None \notin Transaction
  BY LiveAssumption DEF Transaction
<1>2. CASE r \in Receipt
  <2>1. r.cost \in Costs
    BY <1>2 DEF Receipt
  <2>2. r.cost \in 0..Reserve /\ r.cost \in Nat
    <3>1. r.cost \in 0..Reserve
      BY <1>1, <2>1
    <3> QED BY <1>1, <3>1
  <2>3. r.tx # None
    BY <1>1, <1>2 DEF Receipt
  <2> QED BY <2>2, <2>3
<1>3. CASE r \in Foreign
  <2>1. r.cost = 0
    BY <1>3 DEF Foreign
  <2> QED BY <1>1, <2>1
<1> QED BY <1>2, <1>3

LEMMA CostsAreNatural ==
  ASSUME LiveTypeOK
  PROVE  /\ CostsOf(mined) \in Seq(Nat) /\ Len(CostsOf(mined)) = Len(mined)
         /\ \A k \in DOMAIN mined : /\ mined[k].cost \in 0..Reserve
                                    /\ mined[k].tx = None => mined[k].cost = 0
         /\ Spent \in Nat
<1>1. \A k \in DOMAIN mined : mined[k] \in Receipt \cup Foreign
  BY DEF LiveTypeOK
<1>2. \A k \in DOMAIN mined : mined[k].cost \in 0..Reserve
  BY <1>1, CostOfOne
<1>3. \A k \in DOMAIN mined : mined[k].tx = None => mined[k].cost = 0
  BY <1>1, CostOfOne
<1>4. \A k \in DOMAIN mined : mined[k].cost \in Nat
  BY <1>1, CostOfOne
<1>5. CostsOf(mined) \in Seq(Nat) /\ Len(CostsOf(mined)) = Len(mined)
  <2>1. mined \in Seq(Receipt \cup Foreign)
    BY DEF LiveTypeOK
  <2> QED BY <1>4, <2>1 DEF CostsOf
<1>6. Spent \in Nat
  BY <1>5, TotalIsNatural DEF Spent
<1> QED BY <1>2, <1>3, <1>5, <1>6

LEMMA SpendingGrows ==
  ASSUME LiveTypeOK, NEW r \in Receipt \cup Foreign, mined' = Append(mined, r)
  PROVE  Spent' = Spent + r.cost
<1>1. r.cost \in Nat
  BY CostOfOne
<1>2. CostsOf(mined)' = Append(CostsOf(mined), r.cost)
  <2>1. mined \in Seq(Receipt \cup Foreign)
    BY DEF LiveTypeOK
  <2>2. /\ DOMAIN mined' = 1..(Len(mined) + 1)
        /\ \A k \in 1..Len(mined) : mined'[k] = mined[k]
        /\ mined'[Len(mined) + 1] = r
    BY <2>1
  <2>3. /\ DOMAIN Append(CostsOf(mined), r.cost) = 1..(Len(mined) + 1)
        /\ \A k \in 1..Len(mined) : Append(CostsOf(mined), r.cost)[k] = mined[k].cost
        /\ Append(CostsOf(mined), r.cost)[Len(mined) + 1] = r.cost
    <3>1. DOMAIN mined = 1..Len(mined) /\ \A k \in 1..Len(mined) : CostsOf(mined)[k] = mined[k].cost
      BY <2>1 DEF CostsOf
    <3> QED BY <1>1, <3>1, CostsAreNatural
  <2>4. /\ DOMAIN CostsOf(mined)' = 1..(Len(mined) + 1)
        /\ \A k \in 1..Len(mined) : CostsOf(mined)'[k] = mined[k].cost
        /\ CostsOf(mined)'[Len(mined) + 1] = r.cost
    <3>1. CostsOf(mined)' = [k \in DOMAIN mined' |-> mined'[k].cost]
      BY DEF CostsOf
    <3> QED BY <2>1, <2>2, <3>1
  <2>5. \A k \in 1..(Len(mined) + 1) : CostsOf(mined)'[k] = Append(CostsOf(mined), r.cost)[k]
    <3>1. \A k \in 1..(Len(mined) + 1) : k \in 1..Len(mined) \/ k = Len(mined) + 1
      BY <2>1
    <3> QED BY <2>3, <2>4, <3>1
  <2>6. CostsOf(mined)' = [k \in 1..(Len(mined) + 1) |-> CostsOf(mined)'[k]]
    BY <2>4 DEF CostsOf
  <2>7. /\ Append(CostsOf(mined), r.cost)
             = [k \in 1..(Len(mined) + 1) |-> Append(CostsOf(mined), r.cost)[k]]
    BY <1>1, <2>3, CostsAreNatural
  <2> QED BY <2>5, <2>6, <2>7
<1>3. Spent' = Total(CostsOf(mined)')
  BY DEF Spent
<1>4. Spent' = Total(Append(CostsOf(mined), r.cost))
  BY <1>2, <1>3
<1> QED BY <1>1, <1>4, CostsAreNatural, TotalOfAppend DEF Spent

(* What OutlayIsBounded says when at most one transaction is in the pool.   *)
LEMMA OutlayOfThePool ==
  ASSUME NEW costs \in Nat
  PROVE  /\ costs + Cardinality({}) * Reserve = costs
         /\ \A t : costs + Cardinality({t}) * Reserve = costs + Reserve
<1>1. Cardinality({}) = 0 /\ \A t : Cardinality({t}) = 1
  BY FS_EmptySet, FS_Singleton
<1>2. Reserve \in Nat
  BY LiveAssumption
<1>3. costs + 0 * Reserve = costs /\ costs + 1 * Reserve = costs + Reserve
  BY <1>2
<1> QED BY <1>1, <1>3

LEMMA ChainKeepsOutlay ==
  ASSUME OutlayInv, ChainStep
  PROVE  (Budgeted /\ OutlayIsBounded)'
<1> USE DEF OutlayInv, LiveInv
<1>1. UNCHANGED <<journal, lock, pc, intent, seen, out>>
  BY DEF ChainStep, Mine, MineForeign, Evict, Reorganise, runner
<1>2. ASSUME NEW depth \in 1..MaxDepth, Reorganise(depth)
      PROVE  (Budgeted /\ OutlayIsBounded)'
  <2>1. branch' # 0
    BY <1>2 DEF Reorganise, LiveTypeOK
  <2> QED BY <2>1 DEF Budgeted, OutlayIsBounded
<1>3. ASSUME branch = 0, NEW t \in pool, NEW status \in {"success", "reverted"},
             NEW cost \in Costs, Mine(t, status, cost)
      PROVE  (Budgeted /\ OutlayIsBounded)'
  <2> DEFINE r == [tx |-> t, status |-> status, cost |-> cost, branch |-> branch]
  <2>1. t \in Transaction /\ t # None
    BY LiveAssumption DEF LiveTypeOK, Transaction
  <2>2. r \in Receipt /\ r.tx = t /\ r.cost \in 0..Reserve
    BY <2>1, LiveAssumption DEF Receipt, LiveTypeOK
  <2>3. mined' = Append(mined, r) /\ pool' = pool \ {t} /\ branch' = branch
    BY <1>3 DEF Mine
  <2> HIDE DEF r
  <2>4. pool = {t} /\ journal # <<>> /\ t = journal[Len(journal)].tx
    BY <1>3 DEF Budgeted
  <2>5. pool' = {}
    BY <2>3, <2>4
  <2>6. Len(journal) \in DOMAIN journal /\ journal \in Seq(Entry)
    BY <2>4 DEF LiveTypeOK
  <2>7. t.intent = Len(journal)
    BY <2>4, <2>6 DEF LiveTypeOK
  <2>8. Len(mined) + 1 = Len(journal) /\ mined \in Seq(Receipt \cup Foreign)
    BY <1>3, <2>7 DEF Mine, Nonce, LiveTypeOK
  <2>9. pc \notin {"sign", "send"}
    BY <1>3, <2>4 DEF Budgeted
  <2>10. ASSUME NEW k \in DOMAIN mined', mined'[k].tx # None
         PROVE  k \in DOMAIN journal /\ mined'[k].tx = journal[k].tx
    <3>1. CASE k \in DOMAIN mined
      <4>1. mined'[k] = mined[k]
        BY <2>2, <2>3, <2>8, <3>1
      <4> QED BY <1>3, <2>10, <3>1, <4>1 DEF Budgeted
    <3>2. CASE k \notin DOMAIN mined
      <4>1. k = Len(mined) + 1 /\ mined'[k] = r
        BY <2>2, <2>3, <2>8, <3>2
      <4> QED BY <2>2, <2>4, <2>6, <2>8, <4>1
    <3> QED BY <3>1, <3>2
  <2>11. Budgeted'
    BY <1>1, <2>5, <2>9, <2>10 DEF Budgeted
  <2>12. Spent' = Spent + r.cost /\ Spent \in Nat
    BY <2>2, <2>3, SpendingGrows, CostsAreNatural
  <2>13. Spent + Reserve <= OutlayLimit
    <3>1. Spent + Cardinality(pool) * Reserve <= OutlayLimit
      BY <1>3 DEF OutlayIsBounded, Spent, CostsOf
    <3> QED BY <2>4, <2>12, <3>1, OutlayOfThePool
  <2>14. Spent' \in Nat /\ Spent' <= OutlayLimit
    BY <2>2, <2>12, <2>13, LiveAssumption
  <2>15. (Spent + Cardinality(pool) * Reserve <= OutlayLimit)'
    BY <2>5, <2>14, OutlayOfThePool
  <2>16. OutlayIsBounded'
    BY <2>15 DEF OutlayIsBounded, Spent, CostsOf
  <2> QED BY <2>11, <2>16
<1>4. ASSUME branch = 0, MineForeign
      PROVE  (Budgeted /\ OutlayIsBounded)'
  <2> DEFINE r == [tx |-> None, status |-> "success", cost |-> 0, branch |-> branch]
  <2>1. r \in Foreign /\ r.tx = None /\ r.cost = 0
    BY DEF Foreign, LiveTypeOK
  <2>2. mined' = Append(mined, r) /\ pool' = pool /\ branch' = branch
        /\ mined \in Seq(Receipt \cup Foreign)
    BY <1>4 DEF MineForeign, LiveTypeOK
  <2> HIDE DEF r
  <2>3. Spent' = Spent
    <3>1. Spent' = Spent + r.cost /\ Spent \in Nat
      BY <2>1, <2>2, SpendingGrows, CostsAreNatural
    <3> QED BY <2>1, <3>1
  <2>4. \A k \in DOMAIN mined' : (k \in DOMAIN mined /\ mined'[k] = mined[k]) \/ mined'[k] = r
    BY <2>1, <2>2
  <2>5. \A t \in pool : t # None
    BY LiveAssumption DEF LiveTypeOK, Transaction
  <2>6. pc = "send" => journal[intent].tx # None
    <3>1. SUFFICES ASSUME pc = "send" PROVE journal[intent].tx # None
      OBVIOUS
    <3>2. intent \in DOMAIN journal
      BY <3>1, StepsAreNumbered DEF InOrder, LiveTypeOK
    <3>3. journal[intent].tx \in Transaction
      BY <3>2, EntriesTyped
    <3> QED BY <3>3, LiveAssumption DEF Transaction
  <2>7. Budgeted'
    <3>1. ASSUME NEW k \in DOMAIN mined', mined'[k].tx # None
          PROVE  k \in DOMAIN journal /\ mined'[k].tx = journal[k].tx
      BY <1>4, <2>1, <2>4, <3>1 DEF Budgeted
    <3>2. ASSUME NEW t \in pool
          PROVE  /\ journal # <<>> /\ t = journal[Len(journal)].tx
                 /\ \A k \in DOMAIN mined' : mined'[k].tx # t
      BY <1>4, <2>1, <2>4, <2>5 DEF Budgeted
    <3>3. pc = "send" => \A k \in DOMAIN mined' : mined'[k].tx # journal[intent].tx
      BY <1>4, <2>1, <2>4, <2>6 DEF Budgeted
    <3>4. pc \in {"sign", "send"} => pool = {} /\ Spent + Reserve <= OutlayLimit
      BY <1>4 DEF Budgeted
    <3> QED BY <1>1, <2>2, <2>3, <3>1, <3>2, <3>3, <3>4 DEF Budgeted
  <2>8. OutlayIsBounded'
    BY <2>2, <2>3 DEF OutlayIsBounded, Spent, CostsOf
  <2> QED BY <2>7, <2>8
<1>5. ASSUME branch = 0, NEW t \in pool, Evict(t)
      PROVE  (Budgeted /\ OutlayIsBounded)'
  <2>1. pool' = {} /\ UNCHANGED <<mined, branch>> /\ pool = {t}
    BY <1>5 DEF Evict, Budgeted
  <2>2. Budgeted'
    BY <1>1, <1>5, <2>1 DEF Budgeted, Spent, CostsOf
  <2>3. Spent' = Spent /\ Spent \in Nat
    BY <2>1, CostsAreNatural DEF Spent, CostsOf
  <2>4. Spent <= OutlayLimit
    <3>1. Spent + Cardinality(pool) * Reserve <= OutlayLimit
      BY <1>5 DEF OutlayIsBounded, Spent, CostsOf
    <3>2. Spent + Reserve <= OutlayLimit
      BY <2>1, <2>3, <3>1, OutlayOfThePool
    <3> QED BY <2>3, <3>2, LiveAssumption
  <2>5. (Spent + Cardinality(pool) * Reserve <= OutlayLimit)'
    BY <2>1, <2>3, <2>4, OutlayOfThePool
  <2>6. OutlayIsBounded'
    BY <2>5 DEF OutlayIsBounded, Spent, CostsOf
  <2> QED BY <2>2, <2>6
<1>6. branch # 0 => (Budgeted /\ OutlayIsBounded)'
  <2>1. branch # 0 => branch' # 0
    <3>1. \A depth \in 1..MaxDepth : Reorganise(depth) => branch' # 0
      BY DEF Reorganise, LiveTypeOK
    <3>2. branch \in Nat
      BY DEF LiveTypeOK
    <3> QED BY <3>1, <3>2 DEF ChainStep, Mine, MineForeign, Evict
  <2> QED BY <2>1 DEF Budgeted, OutlayIsBounded
<1> QED BY <1>2, <1>3, <1>4, <1>5, <1>6 DEF ChainStep

(* The process.  Most steps leave chain and transactions alone.             *)
LEMMA QuietKeepsOutlay ==
  ASSUME OutlayInv, UNCHANGED chain, pc' \notin {"sign", "send"},
         Len(journal') = Len(journal), DOMAIN journal' = DOMAIN journal,
         \A k \in DOMAIN journal : journal'[k].tx = journal[k].tx
  PROVE  (Budgeted /\ OutlayIsBounded)'
<1> USE DEF OutlayInv, LiveInv
<1>1. UNCHANGED <<mined, pool, branch>>
  BY DEF chain
<1>2. OutlayIsBounded'
  BY <1>1 DEF OutlayIsBounded
<1>3. journal # <<>> => Len(journal) \in DOMAIN journal /\ journal' # <<>>
  <2>1. journal \in Seq(Entry)
    BY DEF LiveTypeOK
  <2>2. journal # <<>> => Len(journal) \in DOMAIN journal
    BY <2>1
  <2> QED BY <2>2
<1>4. Budgeted'
  BY <1>1, <1>3 DEF Budgeted
<1> QED BY <1>2, <1>4

(* The budget: with no entry pending nothing is in the pool, and the        *)
(* journal's costs are those on the chain.                                  *)
LEMMA PreflightKeepsOutlay ==
  ASSUME OutlayInv, Preflight
  PROVE  (Budgeted /\ OutlayIsBounded)'
<1> USE DEF OutlayInv, LiveInv
<1>1. UNCHANGED <<mined, pool, branch, journal, intent>> /\ pc' = "sign" /\ pc = "recheck"
  BY DEF Preflight, Enter, chain
<1>2. OutlayIsBounded'
  BY <1>1 DEF OutlayIsBounded
<1>3. SUFFICES ASSUME branch = 0 PROVE pool = {} /\ Spent + Reserve <= OutlayLimit
  BY <1>1, <1>2, <1>3 DEF Budgeted, Spent, CostsOf
<1>4. /\ Len(journal) = intent - 1 /\ \A k \in DOMAIN journal : ~Pending(journal[k])
      /\ Len(mined) = Len(journal)
      /\ journal \in Seq(Entry) /\ mined \in Seq(Receipt \cup Foreign)
  BY <1>1 DEF InOrder, Preflight, Nonce, LiveTypeOK
<1>5. \A k \in DOMAIN journal : journal[k].receipt \in ReceiptsOf(journal[k].tx)
  BY <1>3, <1>4 DEF Grounded
<1>6. pool = {}
  <2>1. SUFFICES ASSUME NEW t \in pool PROVE FALSE
    OBVIOUS
  <2>2. journal # <<>> /\ t = journal[Len(journal)].tx /\ \A k \in DOMAIN mined : mined[k].tx # t
    BY <1>3 DEF Budgeted
  <2>3. Len(journal) \in DOMAIN journal
    BY <1>4, <2>2
  <2> QED BY <1>5, <2>2, <2>3 DEF ReceiptsOf
<1> DEFINE amounts == [k \in DOMAIN journal |-> Reserved(journal[k])]
<1>7. ASSUME NEW k \in DOMAIN journal
      PROVE  Reserved(journal[k]) \in Nat /\ mined[k].cost <= Reserved(journal[k])
  <2>1. PICK j \in DOMAIN mined : mined[j].tx = journal[k].tx /\ journal[k].receipt = mined[j]
    BY <1>5 DEF ReceiptsOf
  <2>2. journal[k].tx \in Transaction /\ journal[k].tx.intent = k
    BY EntriesTyped DEF LiveTypeOK
  <2>3. mined[j].tx # None
    BY <2>1, <2>2, LiveAssumption DEF Transaction
  <2>4. j \in DOMAIN journal /\ mined[j].tx = journal[j].tx
    BY <1>3, <2>3 DEF Budgeted
  <2>5. j = k
    BY <2>1, <2>2, <2>4 DEF LiveTypeOK
  <2>6. Reserved(journal[k]) = mined[k].cost
    BY <1>4, <2>1, <2>5 DEF Reserved
  <2>7. mined[k].cost \in Nat
    BY <1>4, <2>5, CostOfOne
  <2> QED BY <2>6, <2>7
<1>8. amounts \in Seq(Nat) /\ Len(amounts) = Len(mined)
      /\ \A n \in 1..Len(mined) : CostsOf(mined)[n] <= amounts[n]
  <2>1. amounts \in Seq(Nat) /\ Len(amounts) = Len(journal)
    BY <1>4, <1>7
  <2>2. DOMAIN journal = 1..Len(mined) /\ DOMAIN mined = 1..Len(mined)
    BY <1>4
  <2> QED BY <1>4, <1>7, <2>1, <2>2 DEF CostsOf
<1>9. TotalReserved = Total(amounts)
  BY DEF TotalReserved
<1> HIDE DEF amounts
<1>10. Spent <= Total(amounts) /\ Spent \in Nat /\ Total(amounts) \in Nat
  BY <1>8, CostsAreNatural, TotalIsMonotone, TotalIsNatural DEF Spent
<1>11. Total(amounts) + Reserve <= OutlayLimit
  BY <1>9 DEF Preflight
<1> QED BY <1>6, <1>10, <1>11, LiveAssumption

LEMMA SignKeepsOutlay ==
  ASSUME OutlayInv, NEW fee \in Fees, Sign(fee)
  PROVE  (Budgeted /\ OutlayIsBounded)'
<1> USE DEF OutlayInv, LiveInv
<1> DEFINE entry == [tx |-> [intent |-> intent, fee |-> fee], receipt |-> None]
<1>1. entry \in Entry /\ entry.tx.intent = intent
  BY DEF Entry, Transaction, LiveTypeOK
<1>2. /\ journal' = Append(journal, entry) /\ Len(journal) = intent - 1
      /\ UNCHANGED <<mined, pool, branch, intent>>
      /\ pc = "sign" /\ pc' = "send"
  BY DEF Sign, Enter, chain, InOrder
<1> HIDE DEF entry
<1>3. /\ DOMAIN journal' = DOMAIN journal \cup {intent} /\ intent \notin DOMAIN journal
      /\ \A k \in DOMAIN journal : journal'[k] = journal[k]
      /\ journal'[intent] = entry
  BY <1>1, <1>2, StepsAreNumbered DEF LiveTypeOK
<1>4. OutlayIsBounded'
  BY <1>2 DEF OutlayIsBounded
<1>5. SUFFICES ASSUME branch = 0 PROVE Budgeted'
  BY <1>2, <1>4 DEF Budgeted
<1>6. pool = {} /\ Spent + Reserve <= OutlayLimit /\ Spent' = Spent
  BY <1>2, <1>5 DEF Budgeted, Spent, CostsOf
<1>7. \A k \in DOMAIN mined :
        mined[k].tx # None => k \in DOMAIN journal /\ mined[k].tx = journal[k].tx
  BY <1>5 DEF Budgeted
<1>8. ASSUME NEW k \in DOMAIN mined PROVE mined[k].tx # entry.tx
  <2>1. SUFFICES ASSUME mined[k].tx = entry.tx PROVE FALSE
    OBVIOUS
  <2>2. entry.tx # None
    BY <1>1, LiveAssumption DEF Entry, Transaction
  <2>3. k \in DOMAIN journal /\ journal[k].tx.intent = k /\ mined[k].tx = journal[k].tx
    BY <1>7, <2>1, <2>2 DEF LiveTypeOK
  <2> QED BY <1>1, <1>3, <2>1, <2>3
<1> QED BY <1>2, <1>3, <1>6, <1>7, <1>8 DEF Budgeted

LEMMA SendKeepsOutlay ==
  ASSUME OutlayInv, Broadcast \/ BroadcastUnanswered
  PROVE  (Budgeted /\ OutlayIsBounded)'
<1> USE DEF OutlayInv, LiveInv
<1>1. pc = "send" /\ Len(journal) = intent /\ intent \in DOMAIN journal /\ journal # <<>>
  BY StepsAreNumbered DEF Broadcast, BroadcastUnanswered, InOrder, LiveTypeOK
<1>2. /\ pool' = pool \cup {journal[intent].tx} /\ UNCHANGED <<mined, branch, journal, intent>>
      /\ pc' \notin {"sign", "send"}
  BY DEF Broadcast, BroadcastUnanswered, HandOut, Enter, Stops
<1>3. SUFFICES ASSUME branch = 0 PROVE (Budgeted /\ OutlayIsBounded)'
  BY <1>2 DEF Budgeted, OutlayIsBounded
<1>4. pool = {} /\ Spent + Reserve <= OutlayLimit
  BY <1>1, <1>3 DEF Budgeted
<1>5. pool' = {journal[intent].tx} /\ Spent' = Spent /\ Spent \in Nat
  BY <1>2, <1>4, CostsAreNatural DEF Spent, CostsOf
<1>6. Budgeted'
  BY <1>1, <1>2, <1>3, <1>5 DEF Budgeted
<1>7. (Spent + Cardinality(pool) * Reserve <= OutlayLimit)'
  BY <1>4, <1>5, OutlayOfThePool
<1>8. OutlayIsBounded'
  BY <1>7 DEF OutlayIsBounded, Spent, CostsOf
<1> QED BY <1>6, <1>8

LEMMA OutlayInitially == Init => OutlayInv
<1> SUFFICES ASSUME Init PROVE OutlayInv
  OBVIOUS
<1>1. LiveInv
  BY LiveInitially
<1>2. DOMAIN mined = {} /\ pool = {} /\ pc = "stopped" /\ Len(mined) = 0
  BY DEF Init, LiveInit
<1>3. Budgeted
  BY <1>2 DEF Budgeted
<1>4. Spent = 0
  <2>1. CostsOf(mined) \in Seq(Nat) /\ Len(CostsOf(mined)) = 0
    BY <1>1, <1>2, CostsAreNatural DEF LiveInv
  <2>2. PICK s : Sums(s, CostsOf(mined)) /\ Total(CostsOf(mined)) = s[0]
    BY <2>1, TotalIsTheLastSum
  <2> QED BY <2>2 DEF Sums, Spent
<1>5. Spent + Cardinality(pool) * Reserve <= OutlayLimit
  BY <1>2, <1>4, OutlayOfThePool, LiveAssumption
<1>6. OutlayIsBounded
  BY <1>5 DEF OutlayIsBounded, Spent, CostsOf
<1> QED BY <1>1, <1>3, <1>6 DEF OutlayInv

LEMMA OutlayKept == OutlayInv /\ LiveInv' /\ [Next]_vars => OutlayInv'
<1> SUFFICES ASSUME OutlayInv, [Next]_vars PROVE (Budgeted /\ OutlayIsBounded)'
  BY DEF OutlayInv
<1>1. CASE UNCHANGED <<chain, journal>> /\ pc' \notin {"sign", "send"}
  BY <1>1, QuietKeepsOutlay
<1>2. CASE ResumeIntent
  <2>1. PICK answer : journal' = [journal EXCEPT ![intent].receipt = answer]
    BY <1>2 DEF ResumeIntent
  <2>2. journal \in Seq(Entry) /\ \A k \in DOMAIN journal : journal[k] \in Entry
    BY EntriesTyped DEF OutlayInv, LiveInv, LiveTypeOK
  <2>3. DOMAIN journal' = DOMAIN journal /\ Len(journal') = Len(journal)
    BY <2>1, <2>2
  <2>4. \A k \in DOMAIN journal : journal'[k].tx = journal[k].tx
    BY <2>1, <2>2 DEF Entry
  <2>5. UNCHANGED chain /\ pc' \notin {"sign", "send"}
    BY <1>2 DEF ResumeIntent, Enter
  <2> QED BY <2>3, <2>4, <2>5, QuietKeepsOutlay
<1>3. DeployStep => UNCHANGED <<chain, journal>> /\ pc' \notin {"sign", "send"}
  <2>1. Advance => UNCHANGED <<chain, journal>> /\ pc' \notin {"sign", "send"}
    BY DEF Advance
  <2>2. Returned => UNCHANGED <<chain, journal>> /\ pc' \notin {"sign", "send"}
    BY DEF Returned, Enter
  <2>3. FailToStart => UNCHANGED <<chain, journal>> /\ pc' \notin {"sign", "send"}
    BY DEF FailToStart
  <2> QED
    BY <2>1, <2>2, <2>3 DEF DeployStep, Start, LiveIntent, Waited, VerifyPrerequisites, CreateSafe,
       Finish, Enter
<1>4. NewIntent \/ RecheckReceipt \/ Fail \/ Crash \/ Unlock
        => UNCHANGED <<chain, journal>> /\ pc' \notin {"sign", "send"}
  BY DEF NewIntent, RecheckReceipt, Fail, Crash, Unlock, Stops
<1>5. CASE UNCHANGED vars
  BY <1>5 DEF vars, chain, runner, OutlayInv, Budgeted, OutlayIsBounded, Spent, CostsOf
<1> QED
  BY <1>1, <1>2, <1>3, <1>4, <1>5, ChainKeepsOutlay, PreflightKeepsOutlay, SignKeepsOutlay,
     SendKeepsOutlay DEF Next, SubmitStep

(* For plans of any length and any reservations: as long as no block is     *)
(* taken back, what was paid and what may still be paid is within the       *)
(* limit, wherever the process failed between signing and reading receipts. *)
THEOREM OutlayStaysBounded == Spec => []OutlayIsBounded
<1>1. LiveInv /\ [Next]_vars => LiveInv'
  BY ChainKeepsInv, SubmitKeepsInv, DeployKeepsInv, LiveUnchanged DEF Next
<1>2. OutlayInv => LiveInv
  BY DEF OutlayInv
<1>3. OutlayInv /\ [Next]_vars => OutlayInv'
  BY <1>1, <1>2, OutlayKept
<1>4. OutlayInv => OutlayIsBounded
  BY DEF OutlayInv
<1> QED BY <1>3, <1>4, OutlayInitially, PTL DEF Spec

-----------------------------------------------------------------------------
(* Refinement: signing an intent writes its transaction down, sending it    *)
(* sends the last one written down, and nothing else shows in the ledger.   *)

Written == [k \in DOMAIN journal |-> journal[k].tx]

LEMMA SigningIntends ==
  ASSUME LiveInv, NEW fee \in Fees, Sign(fee)
  PROVE  \E t \in Ledger!Transaction : Ledger!Intend(t)
<1> DEFINE t == [intent |-> intent, fee |-> fee]
<1> DEFINE entry == [tx |-> t, receipt |-> None]
<1>1. t \in Ledger!Transaction /\ t.intent = intent
  BY DEF Ledger!Transaction, LiveInv, LiveTypeOK
<1>2. /\ journal \in Seq(Entry) /\ journal' = Append(journal, entry)
      /\ Len(journal) = intent - 1 /\ out' = out
  BY DEF LiveInv, LiveTypeOK, InOrder, Sign
<1>3. \A k \in DOMAIN journal : journal[k].tx \in out
  BY DEF LiveInv, InOrder, HandedOut, Sign
<1> HIDE DEF t
<1>4. /\ Written \in Seq(Transaction) /\ Len(Written) = Len(journal)
      /\ \A k \in DOMAIN Written : k \in DOMAIN journal /\ Written[k] = journal[k].tx
  <2>1. \A k \in DOMAIN journal : journal[k].tx \in Transaction
    BY EntriesTyped DEF LiveInv
  <2> QED BY <1>2, <2>1 DEF Written
<1>5. entry.tx = t /\ t \in Transaction
  BY <1>1 DEF Ledger!Transaction, Transaction
<1> HIDE DEF entry
<1>6. Written' = Append(Written, t)
  <2>1. /\ DOMAIN journal' = DOMAIN journal \cup {Len(journal) + 1}
        /\ \A k \in DOMAIN journal : journal'[k] = journal[k]
        /\ journal'[Len(journal) + 1] = entry
    BY <1>2
  <2>2. /\ DOMAIN Append(Written, t) = DOMAIN Written \cup {Len(Written) + 1}
        /\ \A k \in DOMAIN Written : Append(Written, t)[k] = Written[k]
        /\ Append(Written, t)[Len(Written) + 1] = t
    BY <1>4, <1>5
  <2> QED BY <1>4, <1>5, <2>1, <2>2 DEF Written
<1>7. intent = Len(Written) + 1
  BY <1>2, <1>4, StepsAreNumbered DEF LiveInv, LiveTypeOK
<1> QED
  BY <1>1, <1>2, <1>3, <1>4, <1>6, <1>7 DEF Ledger!Intend, Written

LEMMA BroadcastingSends ==
  ASSUME LiveInv, Broadcast \/ BroadcastUnanswered
  PROVE  Ledger!Send
<1>1. Len(journal) = intent /\ intent \in DOMAIN journal /\ journal \in Seq(Entry)
  BY StepsAreNumbered DEF Broadcast, BroadcastUnanswered, LiveInv, InOrder, LiveTypeOK
<1>2. Written # <<>> /\ Len(Written) = Len(journal) /\ Written[intent] = journal[intent].tx
  BY <1>1 DEF Written
<1>3. Written' = Written /\ out' = out \cup {journal[intent].tx}
  BY DEF Broadcast, BroadcastUnanswered, HandOut, Written
<1> QED BY <1>1, <1>2, <1>3 DEF Ledger!Send, Written

LEMMA ResumingStutters ==
  ASSUME LiveInv, ResumeIntent
  PROVE  Written' = Written /\ out' = out
<1>1. PICK answer : journal' = [journal EXCEPT ![intent].receipt = answer]
  BY DEF ResumeIntent
<1>2. journal \in Seq(Entry) /\ \A k \in DOMAIN journal : journal[k] \in Entry
  BY EntriesTyped DEF LiveInv, LiveTypeOK
<1>3. DOMAIN journal' = DOMAIN journal
  BY <1>1, <1>2
<1>4. \A k \in DOMAIN journal : journal'[k].tx = journal[k].tx
  BY <1>1, <1>2 DEF Entry
<1> QED BY <1>3, <1>4 DEF Written, ResumeIntent

LEMMA StepsAreLedgerSteps ==
  LiveInv /\ [Next]_vars => [Ledger!Next]_<<Written, out>>
<1> SUFFICES ASSUME LiveInv, [Next]_vars
             PROVE  Ledger!Next \/ UNCHANGED <<Written, out>>
  BY DEF Written
<1>1. CASE \E fee \in Fees : Sign(fee)
  BY <1>1, SigningIntends DEF Ledger!Next
<1>2. CASE Broadcast \/ BroadcastUnanswered
  BY <1>2, BroadcastingSends DEF Ledger!Next
<1>3. CASE ResumeIntent
  BY <1>3, ResumingStutters
<1>4. CASE UNCHANGED <<journal, out>>
  BY <1>4 DEF Written
<1>5. ChainStep => UNCHANGED <<journal, out>>
  BY DEF ChainStep, Mine, MineForeign, Evict, Reorganise
<1>6. DeployStep => UNCHANGED <<journal, out>>
  BY DEF DeployStep, Start, FailToStart, LiveIntent, Returned, Waited, Advance,
         VerifyPrerequisites, CreateSafe, Finish
<1>7. NewIntent \/ RecheckReceipt \/ Preflight \/ Fail \/ Crash \/ Unlock
        => UNCHANGED <<journal, out>>
  BY DEF NewIntent, RecheckReceipt, Preflight, Fail, Crash, Unlock
<1> QED BY <1>1, <1>2, <1>3, <1>4, <1>5, <1>6, <1>7 DEF Next, SubmitStep, vars

(* For plans of any length, whatever the chain does and wherever the        *)
(* process fails: one transaction per step, written down before it is sent, *)
(* and the one before it sent before that.                                  *)
THEOREM DeploymentImplementsStepLedger == Spec => ImplementsStepLedger
<1>1. Init => Ledger!Init
  <2>1. SUFFICES ASSUME Init PROVE Ledger!Init
    OBVIOUS
  <2>2. journal \in Seq(Entry) /\ Len(journal) = 0 /\ out = {}
    BY <2>1, LiveInitially DEF LiveInv, LiveTypeOK, Init, LiveInit
  <2>3. \A k \in DOMAIN journal : journal[k].tx \in Transaction
    BY <2>2
  <2>4. Written \in Seq(Transaction) /\ Len(Written) = 0
    BY <2>2, <2>3 DEF Written
  <2>5. Written = <<>>
    BY <2>4
  <2> QED BY <2>2, <2>5 DEF Ledger!Init, Written
<1>2. LiveInv /\ [Next]_vars => [Ledger!Next]_<<[k \in DOMAIN journal |-> journal[k].tx], out>>
  BY StepsAreLedgerSteps DEF Written
<1> QED BY <1>1, <1>2, LiveInvariant, PTL DEF Spec, Ledger!Spec, ImplementsStepLedger

=============================================================================
