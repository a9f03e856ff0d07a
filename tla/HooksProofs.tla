----------------------------- MODULE HooksProofs -----------------------------
(*****************************************************************************)
(* The two hooks of the guard make one atomic payment of what they enclose,  *)
(* for any assets, holders, amounts, queues and foreign code.                *)
(*****************************************************************************)
EXTENDS GuardHooks, TLAPS

Balances == [Assets -> [Others \cup {Safe} -> Nat]]

State == [balance: Balances, spent: [Assets -> Nat], checking: BOOLEAN,
          pending: Proof \cup {None}, txNonce: 0..Len(Queue)]

Frame == [path: {"owner", "module"}, payment: Payment, moved: BOOLEAN, saved: State]

(* What a frame has done so far to the state it would go back to: the Safe   *)
(* is short of its own payment at most, ...                                  *)
SafeKeeps(f) ==
  \A a \in Assets :
    balance[a][Safe] + (IF f.moved /\ a = f.payment.asset THEN f.payment.amount ELSE 0)
      >= f.saved.balance[a][Safe]

(* ... an owner's payment is counted, and a token's can be proven, ...       *)
OwnerFrame(f) ==
  f.path = "owner" =>
    /\ f.payment.amount \in Amounts
    /\ f.saved.spent[f.payment.asset] + f.payment.amount <= Limit
    /\ spent = [f.saved.spent EXCEPT ![f.payment.asset] = @ + f.payment.amount]
    /\ txNonce = f.saved.txNonce
    /\ pending = IF f.payment.asset \notin Tokens THEN None
                 ELSE [token |-> f.payment.asset, recipient |-> f.payment.recipient,
                       amount |-> f.payment.amount,
                       safeBalance |-> f.saved.balance[f.payment.asset][Safe],
                       recipientBalance |-> f.saved.balance[f.payment.asset][f.payment.recipient]]

(* ... and the Delay's payment is the item its nonce has passed.             *)
ModuleFrame(f) ==
  f.path = "module" =>
    /\ f.saved.txNonce < Len(Queue)
    /\ txNonce = f.saved.txNonce + 1
    /\ f.payment = Queue[txNonce]
    /\ spent = f.saved.spent
    /\ pending = None

(* At most one frame is ever open, and it started from rest.                 *)
HooksInv ==
  /\ HooksTypeOK
  /\ frames # <<>> =>
       /\ checking
       /\ frames = <<frames[1]>>
       /\ frames[1] \in Frame
       /\ ~frames[1].saved.checking /\ frames[1].saved.pending = None
       /\ SafeKeeps(frames[1]) /\ OwnerFrame(frames[1]) /\ ModuleFrame(frames[1])

LEMMA HooksInit == Init => HooksInv
<1> SUFFICES ASSUME Init PROVE HooksInv
  OBVIOUS
<1>1. frames = <<>>
  BY DEF Init
<1>2. balance \in [Assets -> [Others \cup {Safe} -> Nat]] /\ spent \in [Assets -> Nat]
  BY HooksAssumption DEF Init
<1>3. txNonce \in 0..Len(Queue) /\ moves \in 0..MaxMoves
  BY HooksAssumption DEF Init
<1>4. DOMAIN frames = {}
  BY <1>1
<1> QED BY <1>1, <1>2, <1>3, <1>4 DEF Init, HooksInv, HooksTypeOK

(* One open frame is the top, and closing it leaves none.                    *)
LEMMA OneFrame ==
  ASSUME NEW s, s = <<s[1]>>
  PROVE  /\ s # <<>> /\ Len(s) = 1 /\ DOMAIN s = {1}
         /\ Last(s) = s[1] /\ Front(s) = <<>>
<1> DEFINE f == s[1]
<1>1. s = <<f>>
  OBVIOUS
<1> HIDE DEF f
<1>2. Len(s) = 1 /\ s # <<>> /\ DOMAIN s = {1}
  BY <1>1
<1>3. SubSeq(s, 1, 0) = <<>>
  BY <1>1
<1> QED BY <1>2, <1>3 DEF Last, Front

(* The only frame is marked.                                                 *)
LEMMA MarkedFrame ==
  ASSUME NEW s, NEW f \in Frame, s = <<f>>
  PROVE  [s EXCEPT ![Len(s)].moved = TRUE] = <<[f EXCEPT !.moved = TRUE]>>
<1> DEFINE g == [f EXCEPT !.moved = TRUE]
<1>1. Len(s) = 1 /\ s[1] = f /\ DOMAIN s = {1}
  OBVIOUS
<1>2. [s EXCEPT ![Len(s)].moved = TRUE] = [s EXCEPT ![1] = g]
  BY <1>1, Zenon
<1> HIDE DEF g
<1>3. [s EXCEPT ![1] = g] = <<g>>
  OBVIOUS
<1> QED BY <1>2, <1>3 DEF g

(* Moving assets changes two balances and no type.                           *)
LEMMA GivesMoves ==
  ASSUME balance \in Balances, NEW asset \in Assets, NEW from \in Others \cup {Safe},
         NEW to \in Others \cup {Safe}, from # to, NEW n \in Nat, Gives(asset, from, to, n)
  PROVE  /\ balance' \in Balances
         /\ balance'[asset][from] = balance[asset][from] - n
         /\ balance'[asset][to] = balance[asset][to] + n
         /\ \A h \in Others \cup {Safe} : h \notin {from, to} => balance'[asset][h] = balance[asset][h]
         /\ \A a \in Assets \ {asset} : balance'[a] = balance[a]
<1>1. /\ balance[asset] \in [Others \cup {Safe} -> Nat]
      /\ balance[asset][from] \in Nat /\ balance[asset][to] \in Nat /\ n <= balance[asset][from]
  BY DEF Balances, Gives
<1> DEFINE new == [balance[asset] EXCEPT ![from] = @ - n, ![to] = @ + n]
<1>2. balance' = [balance EXCEPT ![asset] = new]
  BY <1>1 DEF Gives, Balances
<1>3. /\ new \in [Others \cup {Safe} -> Nat]
      /\ new[from] = balance[asset][from] - n /\ new[to] = balance[asset][to] + n
      /\ \A h \in Others \cup {Safe} : h \notin {from, to} => new[h] = balance[asset][h]
  BY <1>1
<1> HIDE DEF new
<1>4. balance'[asset] = new /\ \A a \in Assets \ {asset} : balance'[a] = balance[a]
  BY <1>2 DEF Balances
<1>5. balance' \in Balances
  BY <1>2, <1>3 DEF Balances
<1> QED BY <1>3, <1>4, <1>5

(* The fields of an open frame have their types.                             *)
LEMMA FrameFields ==
  ASSUME NEW f \in Frame
  PROVE  /\ f.path \in {"owner", "module"} /\ f.payment \in Payment /\ f.moved \in BOOLEAN
         /\ f.payment.asset \in Assets /\ f.payment.recipient \in Recipients
         /\ f.payment.amount \in Nat
         /\ f.saved.balance \in Balances /\ f.saved.spent \in [Assets -> Nat]
         /\ f.saved.txNonce \in 0..Len(Queue)
         /\ \A a \in Assets, h \in Others \cup {Safe} : f.saved.balance[a][h] \in Nat
<1>1. /\ f.path \in {"owner", "module"} /\ f.payment \in Payment /\ f.moved \in BOOLEAN
      /\ f.saved \in State
  BY DEF Frame
<1>2. f.payment.asset \in Assets /\ f.payment.recipient \in Recipients /\ f.payment.amount \in Nat
  BY <1>1 DEF Payment
<1>3. /\ f.saved.balance \in Balances /\ f.saved.spent \in [Assets -> Nat]
      /\ f.saved.txNonce \in 0..Len(Queue)
  BY <1>1 DEF State
<1> QED BY <1>1, <1>2, <1>3 DEF Balances

(* At rest, the state is one to go back to.                                  *)
LEMMA StateTyped ==
  ASSUME HooksTypeOK
  PROVE  /\ state \in State /\ balance \in Balances
         /\ state.balance = balance /\ state.spent = spent /\ state.txNonce = txNonce
         /\ state.checking = checking /\ state.pending = pending
BY DEF HooksTypeOK, State, state, Balances

-----------------------------------------------------------------------------
(* A frame is opened at rest only.                                           *)

LEMMA OpenedAtRest ==
  ASSUME HooksInv, ~checking, NEW path \in {"owner", "module"}, NEW payment \in Payment,
         Calls(path, payment)
  PROVE  /\ frames = <<>> /\ pending = None
         /\ frames' = <<frames'[1]>>
         /\ frames'[1] \in Frame
         /\ frames'[1].path = path /\ frames'[1].payment = payment
         /\ frames'[1].moved = FALSE /\ frames'[1].saved = state
<1>1. frames = <<>> /\ pending = None
  BY DEF HooksInv, HooksTypeOK
<1> DEFINE f == [path |-> path, payment |-> payment, moved |-> FALSE, saved |-> state]
<1>2. frames' = <<f>>
  BY <1>1 DEF Calls
<1>3. f \in Frame
  BY StateTyped DEF HooksInv, Frame
<1>4. frames'[1] = f
  BY <1>2
<1> HIDE DEF f
<1>5. frames' = <<frames'[1]>>
  BY <1>2, <1>4
<1> QED BY <1>1, <1>3, <1>4, <1>5 DEF f

LEMMA InvOwnerTransaction ==
  ASSUME HooksInv, NEW payment \in [asset: Assets, recipient: Recipients, amount: Amounts],
         OwnerTransaction(payment)
  PROVE  HooksInv'
<1>1. payment \in Payment /\ payment.amount \in Amounts /\ payment.asset \in Assets
        /\ payment.recipient \in Recipients /\ payment.amount \in Nat
  <2>1. Amounts \subseteq Nat
    BY HooksAssumption
  <2> QED BY <2>1 DEF Payment
<1>2. /\ frames = <<>> /\ pending = None /\ ~checking
      /\ frames' = <<frames'[1]>> /\ frames'[1] \in Frame
      /\ frames'[1].path = "owner" /\ frames'[1].payment = payment
      /\ frames'[1].moved = FALSE /\ frames'[1].saved = state
  <2>1. ~checking /\ Calls("owner", payment)
    BY DEF OwnerTransaction, CheckTransaction
  <2> QED BY <1>1, <2>1, OpenedAtRest
<1>3. state \in State /\ state.balance = balance /\ state.spent = spent
        /\ state.txNonce = txNonce /\ state.checking = checking /\ state.pending = pending
  BY StateTyped DEF HooksInv
<1>4. spent' \in [Assets -> Nat]
  BY <1>1 DEF OwnerTransaction, CheckTransaction, HooksInv, HooksTypeOK
<1>5. pending' \in Proof \cup {None}
  BY <1>1, <1>2, HooksAssumption DEF OwnerTransaction, CheckTransaction, HooksInv, HooksTypeOK, Proof
<1>6. HooksTypeOK'
  <2>1. frames' # <<>> /\ DOMAIN frames' = {1}
    BY <1>2, OneFrame
  <2> QED BY <1>2, <1>4, <1>5, <2>1, FrameFields
       DEF OwnerTransaction, CheckTransaction, HooksInv, HooksTypeOK
<1>7. SafeKeeps(frames[1])'
  BY <1>1, <1>2, <1>3 DEF OwnerTransaction, SafeKeeps, HooksInv, HooksTypeOK
<1>8. OwnerFrame(frames[1])'
  BY <1>1, <1>2, <1>3 DEF OwnerTransaction, CheckTransaction, OwnerFrame
<1>9. ModuleFrame(frames[1])'
  BY <1>2 DEF ModuleFrame
<1> QED BY <1>2, <1>3, <1>6, <1>7, <1>8, <1>9 DEF HooksInv, OwnerTransaction, CheckTransaction

LEMMA InvModuleTransaction == ASSUME HooksInv, ModuleTransaction PROVE HooksInv'
<1>1. /\ Queue[txNonce + 1] \in Payment /\ txNonce \in Nat /\ txNonce < Len(Queue)
      /\ Len(Queue) \in Nat
  <2>1. txNonce \in Nat /\ txNonce < Len(Queue) /\ Len(Queue) \in Nat
    BY HooksAssumption DEF ModuleTransaction, HooksInv, HooksTypeOK
  <2>2. Queue[txNonce + 1] \in Payment
    BY <2>1, HooksAssumption
  <2> QED BY <2>1, <2>2
<1>2. /\ frames = <<>> /\ pending = None /\ ~checking
      /\ frames' = <<frames'[1]>> /\ frames'[1] \in Frame
      /\ frames'[1].path = "module" /\ frames'[1].payment = Queue[txNonce + 1]
      /\ frames'[1].moved = FALSE /\ frames'[1].saved = state
  <2>1. ~checking /\ Calls("module", Queue[txNonce + 1])
    BY DEF ModuleTransaction, CheckModuleTransaction
  <2> QED BY <1>1, <2>1, OpenedAtRest
<1>3. state \in State /\ state.balance = balance /\ state.spent = spent
        /\ state.txNonce = txNonce /\ state.checking = checking /\ state.pending = pending
  BY StateTyped DEF HooksInv
<1>4. HooksTypeOK'
  <2>1. frames' # <<>> /\ DOMAIN frames' = {1}
    BY <1>2, OneFrame
  <2>3. txNonce' \in 0..Len(Queue)
    BY <1>1 DEF ModuleTransaction
  <2> QED BY <1>2, <2>1, <2>3, FrameFields
       DEF ModuleTransaction, CheckModuleTransaction, HooksInv, HooksTypeOK
<1>5. SafeKeeps(frames[1])'
  BY <1>2, <1>3 DEF ModuleTransaction, SafeKeeps, HooksInv, HooksTypeOK
<1>6. OwnerFrame(frames[1])'
  BY <1>2 DEF OwnerFrame
<1>7. ModuleFrame(frames[1])'
  BY <1>1, <1>2, <1>3 DEF ModuleTransaction, ModuleFrame
<1> QED BY <1>2, <1>3, <1>4, <1>5, <1>6, <1>7
     DEF HooksInv, ModuleTransaction, CheckModuleTransaction

-----------------------------------------------------------------------------
(* Inside the frame.                                                         *)

(* What the invariant says of an open frame.                                 *)
LEMMA OpenFrame ==
  ASSUME HooksInv, frames # <<>>
  PROVE  /\ checking /\ frames = <<frames[1]>> /\ frames[1] \in Frame /\ Top = frames[1]
         /\ Len(frames) = 1 /\ Front(frames) = <<>> /\ DOMAIN frames = {1}
         /\ ~frames[1].saved.checking /\ frames[1].saved.pending = None
         /\ SafeKeeps(frames[1]) /\ OwnerFrame(frames[1]) /\ ModuleFrame(frames[1])
BY OneFrame DEF HooksInv, Top

LEMMA InvTransfer == ASSUME HooksInv, NEW n \in 0..Limit, Transfer(n) PROVE HooksInv'
<1> DEFINE f == frames[1]
           g == [f EXCEPT !.moved = TRUE]
<1>1. frames # <<>>
  BY DEF Transfer
<1>2. checking /\ frames = <<f>> /\ f \in Frame /\ Top = f /\ Len(frames) = 1
  BY <1>1, OpenFrame
<1>3. /\ f.payment.asset \in Assets /\ f.payment.recipient \in Recipients
      /\ f.payment.amount \in Nat /\ f.path \in {"owner", "module"} /\ f.payment \in Payment
      /\ \A a \in Assets, h \in Others \cup {Safe} : f.saved.balance[a][h] \in Nat
  BY <1>2, FrameFields
<1>4. /\ ~f.moved /\ n <= f.payment.amount /\ n \in Nat
      /\ Gives(f.payment.asset, Safe, f.payment.recipient, n)
      /\ frames' = [frames EXCEPT ![Len(frames)].moved = TRUE]
  BY <1>2, HooksAssumption DEF Transfer
<1>5. balance \in Balances /\ Safe # f.payment.recipient /\ f.payment.recipient \in Others
  BY <1>3, HooksAssumption DEF HooksInv, HooksTypeOK, Balances
<1>6. /\ balance' \in Balances
      /\ balance'[f.payment.asset][Safe] = balance[f.payment.asset][Safe] - n
      /\ \A a \in Assets \ {f.payment.asset} : balance'[a] = balance[a]
  BY <1>3, <1>4, <1>5, GivesMoves
<1>7. /\ g \in Frame /\ g.moved /\ g.path = f.path /\ g.payment = f.payment
      /\ g.saved = f.saved
  BY <1>2 DEF Frame
<1>8. frames' = <<g>>
  BY <1>2, <1>4, MarkedFrame
<1> HIDE DEF g
<1>9. frames'[1] = g /\ frames' = <<frames'[1]>> /\ frames' # <<>> /\ DOMAIN frames' = {1}
  BY <1>8
<1>10. HooksTypeOK'
  <2>1. balance' \in [Assets -> [Others \cup {Safe} -> Nat]]
    BY <1>6 DEF Balances
  <2>2. UNCHANGED <<spent, checking, pending, txNonce, moves>>
    BY DEF Transfer
  <2>3. frames'[1].path \in {"owner", "module"} /\ frames'[1].payment \in Payment
          /\ frames'[1].moved \in BOOLEAN
    BY <1>3, <1>7, <1>9
  <2> QED BY <1>9, <2>1, <2>2, <2>3 DEF HooksInv, HooksTypeOK
<1>11. SafeKeeps(frames[1])'
  <2>1. \A a \in Assets : balance[a][Safe] >= f.saved.balance[a][Safe]
    BY <1>1, <1>3, <1>4, <1>5, OpenFrame DEF SafeKeeps, Balances
  <2>2. \A a \in Assets : balance[a][Safe] \in Nat /\ balance'[a][Safe] \in Nat
    BY <1>5, <1>6 DEF Balances
  <2>3. ASSUME NEW a \in Assets
        PROVE  balance'[a][Safe] + (IF a = f.payment.asset THEN f.payment.amount ELSE 0)
                 >= f.saved.balance[a][Safe]
    <3>1. CASE a = f.payment.asset
      <4>1. /\ balance'[a][Safe] = balance[a][Safe] - n
            /\ balance[a][Safe] >= f.saved.balance[a][Safe]
            /\ f.saved.balance[a][Safe] \in Nat
        BY <1>3, <1>6, <2>1, <3>1
      <4>2. balance[a][Safe] \in Nat
        BY <2>2
      <4> HIDE DEF f
      <4>3. balance'[a][Safe] + f.payment.amount >= f.saved.balance[a][Safe]
        BY <1>3, <1>4, <4>1, <4>2
      <4> QED BY <3>1, <4>3
    <3>2. CASE a # f.payment.asset
      BY <1>3, <1>6, <2>1, <2>2, <3>2
    <3> QED BY <3>1, <3>2
  <2> QED BY <1>7, <1>9, <2>3 DEF SafeKeeps
<1>12. OwnerFrame(frames[1])' /\ ModuleFrame(frames[1])'
  BY <1>1, <1>7, <1>9, OpenFrame DEF OwnerFrame, ModuleFrame, Transfer
<1> QED BY <1>1, <1>2, <1>7, <1>9, <1>10, <1>11, <1>12, OpenFrame DEF HooksInv, Transfer

(* Foreign code never takes from the Safe.                                   *)
LEMMA MoveSpares ==
  ASSUME HooksTypeOK, NEW asset \in Assets, NEW from \in Others, NEW to \in Others \cup {Safe},
         Move(asset, from, to)
  PROVE  /\ balance' \in Balances
         /\ \A a \in Assets : balance'[a][Safe] >= balance[a][Safe]
<1>0. balance \in Balances /\ from # to /\ Gives(asset, from, to, 1) /\ from # Safe
  BY HooksAssumption DEF Move, HooksTypeOK, Balances
<1>1. /\ balance' \in Balances /\ from \in Others \cup {Safe} /\ 1 \in Nat
      /\ balance'[asset][to] = balance[asset][to] + 1
      /\ \A h \in Others \cup {Safe} : h \notin {from, to} => balance'[asset][h] = balance[asset][h]
      /\ \A a \in Assets \ {asset} : balance'[a] = balance[a]
  BY <1>0, GivesMoves
<1>2. \A a \in Assets : balance[a][Safe] \in Nat /\ balance'[a][Safe] \in Nat
  BY <1>0, <1>1 DEF Balances
<1>3. balance'[asset][Safe] >= balance[asset][Safe]
  <2>1. CASE to = Safe
    BY <1>1, <1>2, <2>1
  <2>2. CASE to # Safe
    BY <1>0, <1>1, <1>2, <2>2
  <2> QED BY <2>1, <2>2
<1>4. \A a \in Assets \ {asset} : balance'[a][Safe] >= balance[a][Safe]
  BY <1>1, <1>2
<1> QED BY <1>1, <1>3, <1>4

LEMMA InvMove ==
  ASSUME HooksInv, NEW asset \in Assets, NEW from \in Others, NEW to \in Others \cup {Safe},
         Move(asset, from, to)
  PROVE  HooksInv'
<1>1. balance \in Balances /\ from # to /\ Gives(asset, from, to, 1) /\ from # Safe
  BY HooksAssumption DEF Move, HooksInv, HooksTypeOK, Balances
<1>2. /\ balance' \in Balances
      /\ \A a \in Assets : balance'[a][Safe] >= balance[a][Safe]
  BY MoveSpares DEF HooksInv
<1>3. HooksTypeOK'
  <2>1. moves' \in 0..MaxMoves
    BY HooksAssumption DEF Move, HooksInv, HooksTypeOK
  <2>2. balance' \in [Assets -> [Others \cup {Safe} -> Nat]]
    BY <1>2 DEF Balances
  <2>3. UNCHANGED <<spent, checking, pending, txNonce, frames>>
    BY DEF Move
  <2> QED BY <2>1, <2>2, <2>3 DEF HooksInv, HooksTypeOK
<1>4. ASSUME frames # <<>> PROVE SafeKeeps(frames[1])'
  <2>1. \A a \in Assets : balance[a][Safe] \in Nat /\ balance'[a][Safe] \in Nat
    BY <1>1, <1>2 DEF Balances
  <2>2. /\ frames[1].payment.amount \in Nat
        /\ \A a \in Assets, h \in Others \cup {Safe} : frames[1].saved.balance[a][h] \in Nat
    BY <1>4, OpenFrame, FrameFields
  <2> QED BY <1>2, <1>4, <2>1, <2>2, OpenFrame DEF SafeKeeps, Move
<1>5. ASSUME frames # <<>> PROVE OwnerFrame(frames[1])' /\ ModuleFrame(frames[1])'
  BY <1>5, OpenFrame DEF OwnerFrame, ModuleFrame, Move
<1> QED BY <1>3, <1>4, <1>5 DEF HooksInv, Move

-----------------------------------------------------------------------------
(* The end of the frame.                                                     *)

LEMMA InvFinish == ASSUME HooksInv, Finish PROVE HooksInv'
<1>1. frames # <<>> /\ frames' = <<>> /\ ~checking'
  BY OpenFrame DEF Finish, CheckAfterExecution, CheckAfterModuleExecution
<1>2. pending' = None
  <2>1. CASE frames[1].path = "owner"
    BY <1>1, <2>1, OpenFrame DEF Finish, CheckAfterExecution
  <2>2. CASE frames[1].path # "owner"
    <3>1. frames[1].path = "module"
      BY <1>1, <2>2, OpenFrame, FrameFields
    <3> QED BY <1>1, <3>1, OpenFrame DEF Finish, CheckAfterModuleExecution, ModuleFrame
  <2> QED BY <2>1, <2>2
<1>3. DOMAIN frames' = {}
  BY <1>1
<1>4. HooksTypeOK'
  <2>1. checking' = FALSE
    BY DEF Finish, CheckAfterExecution, CheckAfterModuleExecution
  <2>2. UNCHANGED <<balance, spent, txNonce, moves>>
    BY DEF Finish
  <2> QED BY <1>1, <1>2, <1>3, <2>1, <2>2 DEF HooksInv, HooksTypeOK
<1> QED BY <1>1, <1>4 DEF HooksInv

LEMMA InvRevert == ASSUME HooksInv, Revert PROVE HooksInv'
<1>1. frames # <<>> /\ frames' = <<>>
  BY OpenFrame DEF Revert
<1>2. DOMAIN frames' = {}
  BY <1>1
<1>3. /\ balance' \in Balances /\ spent' \in [Assets -> Nat] /\ txNonce' \in 0..Len(Queue)
      /\ ~checking' /\ pending' = None
  BY <1>1, OpenFrame, FrameFields DEF Revert, Restored
<1>4. checking' \in BOOLEAN
  BY <1>1, OpenFrame DEF Revert, Restored, Frame, State
<1> QED BY <1>1, <1>2, <1>3, <1>4 DEF HooksInv, HooksTypeOK, Revert, Balances

LEMMA HooksNext == HooksInv /\ [Next]_vars => HooksInv'
<1> SUFFICES ASSUME HooksInv, [Next]_vars PROVE HooksInv'
  OBVIOUS
<1>1. CASE UNCHANGED vars
  BY <1>1 DEF vars, HooksInv, HooksTypeOK, SafeKeeps, OwnerFrame, ModuleFrame
<1>2. CASE Next
  BY <1>2, InvOwnerTransaction, InvModuleTransaction, InvTransfer, InvMove, InvFinish, InvRevert
     DEF Next
<1> QED BY <1>1, <1>2

(* Between two transactions the guard waits for no hook and holds no proof, *)
(* for any tokens and any nesting (checkTransaction, checkAfterExecution,   *)
(* checkModuleTransaction, checkAfterModuleExecution).                      *)
THEOREM HooksAreTyped == Spec => []HooksTypeOK
<1>1. HooksInv => HooksTypeOK
  BY DEF HooksInv
<1> QED BY <1>1, HooksInit, HooksNext, PTL DEF Spec

-----------------------------------------------------------------------------
(* The steps of AtomicPayments.                                              *)

LEMMA CommittedIs ==
  /\ frames = <<>> => /\ Committed.balance = balance /\ Committed.spent = spent
                      /\ Committed.txNonce = txNonce
  /\ frames # <<>> => Committed = frames[1].saved
BY DEF Committed, state

LEMMA PaymentsInit == Init => Committed.txNonce = 0 /\ Committed.spent = [a \in Assets |-> 0]
BY CommittedIs DEF Init

Stutters == UNCHANGED <<Committed.balance, Committed.spent, Committed.txNonce>>

LEMMA OpeningStutters ==
  ASSUME HooksInv, ~checking, NEW path \in {"owner", "module"}, NEW payment \in Payment,
         Calls(path, payment)
  PROVE  Stutters
<1>1. frames = <<>> /\ frames' = <<frames'[1]>> /\ frames'[1].saved = state
  BY OpenedAtRest
<1>2. frames' # <<>>
  BY <1>1
<1>3. Committed = state /\ Committed' = state
  BY <1>1, <1>2 DEF Committed
<1> QED BY <1>3 DEF Stutters

LEMMA TransferStutters == ASSUME HooksInv, NEW n \in 0..Limit, Transfer(n) PROVE Stutters
<1> DEFINE f == frames[1]
<1>1. frames # <<>> /\ frames = <<f>> /\ f \in Frame
  BY OpenFrame DEF Transfer
<1>2. frames' = <<[f EXCEPT !.moved = TRUE]>>
  BY <1>1, MarkedFrame DEF Transfer
<1>3. [f EXCEPT !.moved = TRUE].saved = f.saved
  BY <1>1 DEF Frame
<1>4. frames' # <<>> /\ frames'[1].saved = f.saved
  BY <1>2, <1>3
<1>5. Committed' = Committed
  BY <1>1, <1>4 DEF Committed
<1> QED BY <1>5 DEF Stutters

LEMMA MoveIsElsewhere ==
  ASSUME HooksInv, NEW asset \in Assets, NEW from \in Others, NEW to \in Others \cup {Safe},
         Move(asset, from, to)
  PROVE  Payments!Elsewhere \/ Stutters
<1>1. CASE frames # <<>>
  <2>1. frames' = frames
    BY DEF Move
  <2>2. Committed' = Committed
    BY <1>1, <2>1 DEF Committed
  <2> QED BY <2>2 DEF Stutters
<1>2. CASE frames = <<>>
  <2>1. /\ balance' \in Balances /\ \A a \in Assets : balance'[a][Safe] >= balance[a][Safe]
        /\ balance \in Balances /\ UNCHANGED <<spent, txNonce, frames>>
    BY MoveSpares DEF HooksInv, HooksTypeOK, Balances, Move
  <2>2. /\ Committed.balance = balance /\ Committed'.balance = balance'
        /\ UNCHANGED <<Committed.spent, Committed.txNonce>>
    BY <1>2, <2>1 DEF Committed, state
  <2>3. \A a \in Assets : balance[a][Safe] \in Nat /\ balance'[a][Safe] \in Nat
    BY <2>1 DEF Balances
  <2> QED BY <2>1, <2>2, <2>3 DEF Payments!Elsewhere, Payments!LosesNothingOf, Payments!Loses
<1> QED BY <1>1, <1>2

LEMMA FinishIsPayment ==
  ASSUME HooksInv, Finish
  PROVE  \/ \E asset \in Assets, recipient \in Others, amount \in 1..Limit :
              Payments!PayInstantly(asset, recipient, amount)
         \/ Payments!PayNext
<1> DEFINE f == frames[1]
<1>1. frames # <<>>
  BY DEF Finish
<1>2. /\ Top = f /\ f \in Frame /\ frames' = <<>>
      /\ SafeKeeps(f) /\ OwnerFrame(f) /\ ModuleFrame(f)
  BY <1>1, OpenFrame DEF Finish
<1>3. /\ f.path \in {"owner", "module"} /\ f.payment.asset \in Assets
      /\ f.payment.recipient \in Recipients /\ f.payment.amount \in Nat
      /\ \A a \in Assets, h \in Others \cup {Safe} : f.saved.balance[a][h] \in Nat
  BY <1>2, FrameFields
<1>4. UNCHANGED <<balance, spent, txNonce>>
  BY DEF Finish
<1>5. /\ Committed = f.saved
      /\ Committed'.balance = balance /\ Committed'.spent = spent
      /\ Committed'.txNonce = txNonce
  BY <1>1, <1>2, <1>4 DEF Committed, state
<1>6. \A a \in Assets : balance[a] \in [Others \cup {Safe} -> Nat]
  BY DEF HooksInv, HooksTypeOK
<1> HIDE DEF f
<1>7. \A a \in Assets \ {f.payment.asset} : balance[a][Safe] >= f.saved.balance[a][Safe] - 0
  BY <1>2, <1>3, <1>6 DEF SafeKeeps
<1>8. balance[f.payment.asset][Safe] >= f.saved.balance[f.payment.asset][Safe] - f.payment.amount
  <2>1. CASE f.moved
    BY <1>2, <1>3, <1>6, <2>1 DEF SafeKeeps
  <2>2. CASE ~f.moved
    BY <1>2, <1>3, <1>6, <2>2 DEF SafeKeeps
  <2> QED BY <2>1, <2>2
<1>9. CASE f.path = "owner"
  <2>1. /\ f.payment.amount \in 1..Limit /\ f.payment.recipient \in Others
    BY <1>2, <1>3, <1>9, HooksAssumption DEF OwnerFrame
  <2>2. /\ f.saved.spent[f.payment.asset] + f.payment.amount <= Limit
        /\ spent = [f.saved.spent EXCEPT ![f.payment.asset] = @ + f.payment.amount]
        /\ txNonce = f.saved.txNonce
    BY <1>2, <1>9 DEF OwnerFrame
  <2>3. ASSUME f.payment.asset \in Tokens
        PROVE  /\ balance[f.payment.asset][Safe] =
                    f.saved.balance[f.payment.asset][Safe] - f.payment.amount
               /\ balance[f.payment.asset][f.payment.recipient] =
                    f.saved.balance[f.payment.asset][f.payment.recipient] + f.payment.amount
    <3>1. Proven
      BY <1>2, <1>9 DEF Finish, CheckAfterExecution
    <3>2. pending = [token |-> f.payment.asset, recipient |-> f.payment.recipient,
                     amount |-> f.payment.amount,
                     safeBalance |-> f.saved.balance[f.payment.asset][Safe],
                     recipientBalance |-> f.saved.balance[f.payment.asset][f.payment.recipient]]
      BY <1>2, <1>9, <2>3 DEF OwnerFrame
    <3>3. pending # None
      <4>1. Safe \in Others \cup {Safe} /\ f.payment.recipient \in Others \cup {Safe}
        BY <1>3, HooksAssumption
      <4>2. pending \in Proof
        BY <1>3, <2>3, <3>2, <4>1 DEF Proof
      <4> QED BY <4>2, HooksAssumption
    <3>4. /\ balance[f.payment.asset][Safe] + f.payment.amount =
               f.saved.balance[f.payment.asset][Safe]
          /\ balance[f.payment.asset][f.payment.recipient] =
               f.saved.balance[f.payment.asset][f.payment.recipient] + f.payment.amount
      BY <3>1, <3>2, <3>3 DEF Proven
    <3> QED BY <3>4, <1>3, <1>6
  <2>4. Payments!PayInstantly(f.payment.asset, f.payment.recipient, f.payment.amount)
    BY <1>5, <1>7, <1>8, <2>2, <2>3
       DEF Payments!PayInstantly, Payments!Exact, Payments!Loses, Payments!LosesNothingOf
  <2> QED BY <1>3, <2>1, <2>4
<1>10. CASE f.path = "module"
  <2>1. /\ f.saved.txNonce < Len(Queue) /\ txNonce = f.saved.txNonce + 1
        /\ f.payment = Queue[txNonce] /\ spent = f.saved.spent
    BY <1>2, <1>10 DEF ModuleFrame
  <2>2. Payments!PayNext
    BY <1>5, <1>7, <1>8, <2>1 DEF Payments!PayNext, Payments!Loses, Payments!LosesNothingOf
  <2> QED BY <2>2
<1> QED BY <1>3, <1>9, <1>10

LEMMA RevertStutters == ASSUME HooksInv, Revert PROVE Stutters
<1>1. frames # <<>> /\ Top = frames[1] /\ frames' = <<>>
  BY OpenFrame DEF Revert
<1>2. /\ balance' = frames[1].saved.balance /\ spent' = frames[1].saved.spent
      /\ txNonce' = frames[1].saved.txNonce
  BY <1>1 DEF Revert, Restored
<1> QED BY <1>1, <1>2 DEF Stutters, Committed, state

LEMMA PaymentsNext ==
  HooksInv /\ [Next]_vars
    => [Payments!Next]_<<Committed.balance, Committed.spent, Committed.txNonce>>
<1> SUFFICES ASSUME HooksInv, [Next]_vars PROVE Payments!Next \/ Stutters
  BY DEF Stutters
<1>1. CASE UNCHANGED vars
  BY <1>1 DEF vars, Stutters, Committed, state
<1>2. ASSUME NEW payment \in [asset: Assets, recipient: Recipients, amount: Amounts],
             OwnerTransaction(payment)
      PROVE  Stutters
  <2>1. payment \in Payment
    <3>1. Amounts \subseteq Nat
      BY HooksAssumption
    <3> QED BY <3>1 DEF Payment
  <2>2. ~checking /\ Calls("owner", payment)
    BY <1>2 DEF OwnerTransaction, CheckTransaction
  <2> QED BY <2>1, <2>2, OpeningStutters
<1>3. CASE ModuleTransaction
  <2>1. Queue[txNonce + 1] \in Payment
    BY <1>3, HooksAssumption DEF ModuleTransaction, HooksInv, HooksTypeOK
  <2>2. ~checking /\ Calls("module", Queue[txNonce + 1])
    BY <1>3 DEF ModuleTransaction, CheckModuleTransaction
  <2> QED BY <2>1, <2>2, OpeningStutters
<1>4. CASE Finish
  BY <1>4, FinishIsPayment DEF Payments!Next
<1>5. ASSUME NEW asset \in Assets, NEW from \in Others, NEW to \in Others \cup {Safe},
             Move(asset, from, to)
      PROVE  Payments!Next \/ Stutters
  BY <1>5, MoveIsElsewhere DEF Payments!Next
<1> QED BY <1>1, <1>2, <1>3, <1>4, <1>5, TransferStutters, RevertStutters DEF Next

(* Whatever runs inside the calls, the guard, the Safe and the Delay make of  *)
(* every transaction one authorised payment or nothing.                      *)
THEOREM HooksImplementAtomicPayments == Spec => ImplementsAtomicPayments
BY HooksInit, HooksNext, PaymentsInit, PaymentsNext, PTL
   DEF Spec, ImplementsAtomicPayments, Payments!Spec

=============================================================================
