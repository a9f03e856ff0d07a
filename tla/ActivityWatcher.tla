--------------------------- MODULE ActivityWatcher ---------------------------
(***************************************************************************)
(* The activity watcher (scripts/watch-activity.ts) and its durable ledger  *)
(* (src/monitoring/ledger.ts).  Each run of the script opens the ledger     *)
(* under a lock, drops what a reorganisation orphaned, reads the logs from  *)
(* the cursor on, verifies and records them one by one, derives what became *)
(* of queued items, and announces what is pending.  Between any two of      *)
(* these the chain may grow or reorganise and the process may die.          *)
(*                                                                         *)
(* The reads made for one log are one step; those made for one queued item  *)
(* are a step each.  A reorganisation makes new blocks: the chain does not  *)
(* come back to a block it gave up.  All transfers are of one token.  Item  *)
(* i of the queue has queue nonce i - 1.                                   *)
(***************************************************************************)
EXTENDS Integers, Sequences, FiniteSetsExt

CONSTANTS
  Confirmations,  (* depth from which a block counts (MONITOR_CONFIRMATIONS) *)
  Contents,       (* what a block can hold                                   *)
  MaxDepth,       (* how many blocks a reorganisation replaces at most       *)
  Faults,         (* may reads fail and the process die?                     *)
  MaxHeight,      (* bound on the chain                                      *)
  MaxReorgs       (* bound on the number of reorganisations                  *)

TxKinds == {"base", "stepUp", "queued", "cancelled", "executed", "skipped"}

(* Logs by which the watcher learns of an activity (a base transfer makes a *)
(* log too, but no alert), and transactions sent to Delay itself, of which  *)
(* it reads the receipts.  A cancellation is sent to the Safe.              *)
LogKinds == {"base", "stepUp", "queued", "cancelled"}
CallKinds == {"executed", "skipped"}

ASSUME WatcherAssumption ==
  /\ Confirmations \in Nat \ {0}
  /\ Contents \subseteq [txs: Seq(TxKinds), lapsed: Nat]
  /\ MaxDepth \in Nat
  /\ Faults \in BOOLEAN
  /\ MaxHeight \in Nat
  /\ MaxReorgs \in Nat

VARIABLES
  chain,      (* canonical blocks, the first at height 1                     *)
  branch,     (* number of reorganisations so far                            *)
  lock,       (* does the lock file exist?                                   *)
  cursor,     (* ledger file: height of the last record, 0 for none          *)
  records,    (* ledger file: every alert accepted and not orphaned          *)
  outbox,     (* ledger file: the alerts still to announce, oldest first     *)
  phase,      (* of the running script, "idle" when there is none            *)
  latest,     (* head of the chain when the run started                      *)
  start,      (* height from which the run reads logs                        *)
  todo,       (* logs read and not yet processed                             *)
  receipts,   (* confirmed calls to Delay                                    *)
  derivable,  (* records of queued items not yet looked at                   *)
  subject,    (* the one that is being looked at                             *)
  ahead,      (* the calls not yet compared with it                          *)
  evidence,   (* what has been read about the call it is compared with       *)
  fresh,      (* records made by this run: the others came from the file     *)
  deepest,    (* history: depth of the deepest reorganisation so far         *)
  sent,       (* history: alerts handed to the notifier                      *)
  unread      (* history: logs whose verification could not read the chain   *)

ledger == <<cursor, records, outbox>>
looking == <<subject, ahead, evidence>>
run == <<latest, start, todo, receipts, derivable, fresh, looking>>
history == <<sent, unread>>
environment == <<chain, branch, deepest>>
vars == <<environment, lock, ledger, phase, run, history>>

(* While a record is looked at, the phase is the read that comes next.      *)
Looking == {"canonical", "before", "after", "queue", "key"}
Phases == {"idle", "reconcile", "fetch", "logs", "derive", "notify", "mark"} \cup Looking

-----------------------------------------------------------------------------
(* The chain.  A block's hash stands for its height and branch.            *)

Block == [branch: Nat, txs: Seq(TxKinds), items: Nat, nonce: Nat,
          executed: SUBSET Nat, lapsed: SUBSET Nat]

Later(m, n) == IF m > n THEN m ELSE n

ItemsAt(c, h) == IF h = 0 THEN 0 ELSE c[h].items
NonceAt(c, h) == IF h = 0 THEN 0 ELSE c[h].nonce

CountOf(txs, kind) == Cardinality({i \in DOMAIN txs : txs[i] = kind})

(* What the first i transactions of a block do to the items queued before   *)
(* it, of which the first ones may have lapsed.  Anybody may call           *)
(* skipExpired at any time; an execution takes an item that has not lapsed; *)
(* a cancellation takes all that is left.                                  *)
Lapse(c, content) == NonceAt(c, Len(c)) + content.lapsed

After(s, kind, items, lapse) ==
  CASE kind = "executed" ->
         [nonce |-> s.nonce + 1, executed |-> s.executed \cup {s.nonce + 1}]
    [] kind = "skipped" -> [s EXCEPT !.nonce = Later(@, lapse)]
    [] kind = "cancelled" -> [s EXCEPT !.nonce = items]
    [] OTHER -> s

Effects(c, content) ==
  LET effect[i \in 0..Len(content.txs)] ==
        IF i = 0 THEN [nonce |-> NonceAt(c, Len(c)), executed |-> {}]
        ELSE After(effect[i - 1], content.txs[i], ItemsAt(c, Len(c)), Lapse(c, content))
  IN  effect

Fits(c, content) ==
  LET items == ItemsAt(c, Len(c))
      effects == Effects(c, content)
  IN  /\ Lapse(c, content) <= items
      /\ \A i \in DOMAIN content.txs :
           /\ content.txs[i] \in {"executed", "cancelled"} => effects[i - 1].nonce < items
           /\ content.txs[i] = "executed" => effects[i - 1].nonce >= Lapse(c, content)

Extended(c, content, b) ==
  LET h == Len(c)
      effect == Effects(c, content)[Len(content.txs)]
  IN  Append(c, [branch |-> b,
                 txs |-> content.txs,
                 items |-> ItemsAt(c, h) + CountOf(content.txs, "queued"),
                 nonce |-> effect.nonce,
                 executed |-> effect.executed,
                 lapsed |-> NonceAt(c, h) + 1 .. Lapse(c, content)])

Canonical(x) == chain[x.height].branch = x.branch

ConfirmedOneEarly(h) == latest - h + 2 >= Confirmations
ConfirmedOneLate(h) == latest - h >= Confirmations

Confirmed(h) == latest - h + 1 >= Confirmations

(* What is seen of the chain: a log, or a call to Delay.                    *)
Log == [height: Nat, branch: Nat, tx: Nat, kind: TxKinds, item: Nat]

(* The item that transaction i at height h is the queueing of, 0 for none.  *)
ItemOf(h, i) ==
  IF chain[h].txs[i] # "queued" THEN 0
  ELSE ItemsAt(chain, h - 1) + CountOf(SubSeq(chain[h].txs, 1, i), "queued")

(* The logs and calls of the given kinds in a range of heights.            *)
Found(kinds, from, to) ==
  UNION {{[height |-> h, branch |-> chain[h].branch, tx |-> i,
           kind |-> chain[h].txs[i], item |-> ItemOf(h, i)] :
            i \in {j \in DOMAIN chain[h].txs : chain[h].txs[j] \in kinds}} : h \in from..to}

Earlier(x, y) == x.height < y.height \/ (x.height = y.height /\ x.tx <= y.tx)

-----------------------------------------------------------------------------
(* The ledger.                                                             *)

(* The block is the one a record is filed under; its transaction was seen   *)
(* in a block of the same height, of the branch "seen".                     *)
Record == [height: Nat, branch: Nat, seen: Nat, tx: Nat, index: Nat, item: Nat,
           kind: {"stepUp", "queued", "cancelled", "executed", "skipped"}]

(* ledger.ts id(): block, transaction and log index, not the kind.         *)
Id(r) == <<r.height, r.branch, r.seen, r.tx, r.index>>

Recorded(r) == \E s \in records : Id(s) = Id(r)

AcceptAgain(r) ==
  /\ records' = records \cup {r}
  /\ outbox' = Append(outbox, r)
  /\ cursor' = Later(cursor, r.height)
  /\ fresh' = fresh \cup {r}

(* ActivityLedger.accept: a known id is left alone.                        *)
Accept(r) ==
  IF Recorded(r)
  THEN UNCHANGED <<ledger, fresh>>
  ELSE /\ records' = records \cup {r}
       /\ outbox' = Append(outbox, r)
       /\ cursor' = Later(cursor, r.height)
       /\ fresh' = fresh \cup {r}

LastHeight(rs) == IF rs = {} THEN 0 ELSE Max({r.height : r \in rs})

DropRecordsOnly(orphans) ==
  /\ records' = records \ orphans
  /\ cursor' = IF orphans = {} THEN cursor ELSE LastHeight(records \ orphans)
  /\ UNCHANGED outbox

(* What is left of a sequence, in its order.                               *)
Without(seq, gone) ==
  LET kept[i \in 0..Len(seq)] ==
        IF i = 0 THEN <<>>
        ELSE IF seq[i] \in gone THEN kept[i - 1] ELSE Append(kept[i - 1], seq[i])
  IN  kept[Len(seq)]

(* ActivityLedger.reconcileCanonical and rewindCursor.                     *)
Drop(orphans) ==
  /\ records' = records \ orphans
  /\ outbox' = Without(outbox, orphans)
  /\ cursor' = IF orphans = {} THEN cursor ELSE LastHeight(records \ orphans)

(* A record and a call that stand for none.                                *)
NoRecord == [height |-> 0, branch |-> 0, seen |-> 0, tx |-> 0, index |-> 0, item |-> 0,
             kind |-> "queued"]
NoCall == [height |-> 0, branch |-> 0, tx |-> 0, kind |-> "skipped", item |-> 0]

(* A call; was the deadline past when its block was read?  And the nonce    *)
(* before and after that block.                                            *)
Evidence == [call: Log, late: BOOLEAN, before: Nat, after: Nat]
NoEvidence == [call |-> NoCall, late |-> FALSE, before |-> 0, after |-> 0]

-----------------------------------------------------------------------------
Init ==
  /\ chain = <<>>
  /\ branch = 0
  /\ deepest = 0
  /\ lock = FALSE
  /\ cursor = 0 /\ records = {} /\ outbox = <<>>
  /\ phase = "idle"
  /\ latest = 0 /\ start = 1
  /\ todo = {} /\ receipts = {} /\ derivable = {} /\ fresh = {}
  /\ subject = NoRecord /\ ahead = {} /\ evidence = NoEvidence
  /\ sent = {} /\ unread = {}

(* The chain grows ...                                                     *)
Mine(content) ==
  /\ Len(chain) < MaxHeight
  /\ Fits(chain, content)
  /\ chain' = Extended(chain, content, branch)
  /\ UNCHANGED <<branch, deepest, lock, ledger, phase, run, history>>

(* ... and trades its newest blocks for as many others.                    *)
Reorganise(content, rest) ==
  LET depth == 1 + Len(rest)
      kept == SubSeq(chain, 1, Len(chain) - depth)
      first == Extended(kept, content, branch + 1)
  IN  /\ branch < MaxReorgs
      /\ depth <= Len(chain)
      /\ Fits(kept, content)
      /\ branch' = branch + 1
      /\ deepest' = Later(deepest, depth)
      /\ IF rest = <<>>
         THEN chain' = first
         ELSE /\ Fits(first, rest[1])
              /\ chain' = Extended(first, rest[1], branch + 1)
      /\ UNCHANGED <<lock, ledger, phase, run, history>>

ChainStep ==
  \/ \E content \in Contents : Mine(content)
  \/ MaxDepth >= 1 /\ \E content \in Contents : Reorganise(content, <<>>)
  \/ MaxDepth >= 2 /\ \E content, next \in Contents : Reorganise(content, <<next>>)

-----------------------------------------------------------------------------
(* One run of the script.                                                  *)

LetGo == subject' = NoRecord /\ ahead' = {} /\ evidence' = NoEvidence

Forget ==
  /\ latest' = 0 /\ start' = 1
  /\ todo' = {} /\ receipts' = {} /\ derivable' = {} /\ fresh' = {}
  /\ LetGo

Enter(next) == phase' = next

BeginAfterCursor ==
  /\ phase = "idle"
  /\ ~lock
  /\ lock' = TRUE
  /\ latest' = Len(chain)
  /\ start' = cursor + 1
  /\ Enter("reconcile")
  /\ UNCHANGED <<environment, ledger, todo, receipts, derivable, fresh, looking, history>>

(* Head of the chain, lock, ledger; where to read from is settled here.    *)
Begin ==
  /\ phase = "idle"
  /\ ~lock
  /\ lock' = TRUE
  /\ latest' = Len(chain)
  /\ start' = Later(cursor, 1)
  /\ Enter("reconcile")
  /\ UNCHANGED <<environment, ledger, todo, receipts, derivable, fresh, looking, history>>

Reconcile ==
  /\ phase = "reconcile"
  /\ Drop({r \in records : ~Canonical(r)})
  /\ Enter("fetch")
  /\ UNCHANGED <<environment, lock, run, history>>

FetchLogs ==
  /\ phase = "fetch"
  /\ todo' = Found(LogKinds, start, latest)
  /\ Enter("logs")
  /\ UNCHANGED <<environment, lock, ledger, latest, start, receipts, derivable, fresh, looking,
                 history>>

IsNext(log) == log \in todo /\ \A other \in todo : Earlier(log, other)

AlertOf(log) ==
  [height |-> log.height, branch |-> log.branch, seen |-> log.branch, tx |-> log.tx,
   index |-> log.tx, item |-> log.item, kind |-> log.kind]

(* decodeGuardLog, decodeDelayLog: which logs make an alert at all.        *)
Alertable(log) == log.kind # "base"

(* verifyGuardBinding reads the counters as the block left them: a later    *)
(* transfer in the block has moved them on.                                *)
Superseded(log) ==
  /\ log.kind = "stepUp"
  /\ Canonical(log)
  /\ \E i \in DOMAIN chain[log.height].txs :
       i > log.tx /\ chain[log.height].txs[i] \in {"base", "stepUp"}

Processed(log) ==
  /\ phase = "logs"
  /\ IsNext(log)
  /\ todo' = todo \ {log}
  /\ UNCHANGED <<environment, lock, phase, latest, start, receipts, derivable, looking, sent>>

(* Confirmed and verified.  Of an orphaned log the reads at its height say  *)
(* anything.                                                               *)
RecordLog(log) ==
  /\ Processed(log)
  /\ Confirmed(log.height)
  /\ Alertable(log)
  /\ ~Superseded(log)
  /\ Accept(AlertOf(log))
  /\ UNCHANGED unread

(* No alert, not confirmed, or not verified: the log is passed over.       *)
PassOverLog(log) ==
  /\ Processed(log)
  /\ \/ ~Confirmed(log.height)
     \/ ~Alertable(log)
     \/ ~Canonical(log)
     \/ Superseded(log)
  /\ UNCHANGED <<ledger, fresh, unread>>

(* A read fails; the error is logged as if the log were malformed.         *)
FailToReadLog(log) ==
  /\ Faults
  /\ Processed(log)
  /\ Confirmed(log.height)
  /\ Alertable(log)
  /\ unread' = unread \cup {log}
  /\ UNCHANGED <<ledger, fresh>>

ProcessLog == \E log \in todo : RecordLog(log) \/ PassOverLog(log) \/ FailToReadLog(log)

(* Past the last log: the receipts of all confirmed calls to Delay.        *)
ReadReceipts ==
  /\ phase = "logs"
  /\ todo = {}
  /\ receipts' = {c \in Found(CallKinds, 1, latest) : Confirmed(c.height)}
  /\ derivable' = {r \in records : r.kind = "queued"}
  /\ Enter("derive")
  /\ UNCHANGED <<environment, lock, ledger, latest, start, todo, fresh, looking, history>>

(* deriveDelayLifecycle takes up a record, with the calls after it.          *)
TakeRecord(r) ==
  /\ phase = "derive"
  /\ r \in derivable
  /\ derivable' = derivable \ {r}
  /\ subject' = r
  /\ ahead' = {c \in receipts : c.height > r.height}
  /\ Enter("canonical")
  /\ UNCHANGED <<environment, lock, ledger, latest, start, todo, receipts, fresh, evidence, history>>

Looked == UNCHANGED <<environment, lock, ledger, latest, start, todo, receipts, derivable, fresh,
                      subject, history>>

IsNextCall(c) == c \in ahead /\ \A d \in ahead : Earlier(c, d)

(* Is the deadline of the subject past at height h?  Of an item that was    *)
(* gone from the queue by then it is not known.                            *)
LateAt(h) ==
  IF NonceAt(chain, h - 1) < subject.item THEN {subject.item \in chain[h].lapsed} ELSE BOOLEAN

(* The first read about a call: its block, which must be the canonical one.  *)
CheckCanonical(c) ==
  /\ phase = "canonical"
  /\ IsNextCall(c)
  /\ Canonical(c)
  /\ ahead' = ahead \ {c}
  /\ \E late \in LateAt(c.height) :
       evidence' = [call |-> c, late |-> late, before |-> 0, after |-> 0]
  /\ Enter("before")
  /\ Looked

PassOverCall(c) ==
  /\ phase = "canonical"
  /\ IsNextCall(c)
  /\ ~Canonical(c)
  /\ ahead' = ahead \ {c}
  /\ Looked
  /\ UNCHANGED <<phase, evidence>>

ReadBefore ==
  /\ phase = "before"
  /\ evidence' = [evidence EXCEPT !.before = NonceAt(chain, evidence.call.height - 1)]
  /\ Enter("after")
  /\ Looked
  /\ UNCHANGED ahead

ReadAfter ==
  /\ phase = "after"
  /\ evidence' = [evidence EXCEPT !.after = NonceAt(chain, evidence.call.height)]
  /\ Enter("queue")
  /\ Looked
  /\ UNCHANGED ahead

OutcomeByCoverage ==
  LET passed == evidence.before < subject.item /\ subject.item <= evidence.after
  IN  CASE evidence.call.kind = "executed" /\ passed -> "executed"
        [] evidence.call.kind = "skipped" /\ passed /\ evidence.late -> "skipped"
        [] OTHER -> "none"

(* What the call made of the item, "none" when it cannot be told.  The      *)
(* nonce is known before and after the block, not the call: an execution    *)
(* must move it over this item and no other, an expiry over this item and   *)
(* maybe others, in a block past its deadline.                             *)
Outcome ==
  CASE /\ evidence.call.kind = "executed"
       /\ evidence.before = subject.item - 1
       /\ evidence.after = subject.item -> "executed"
    [] /\ evidence.call.kind = "skipped"
       /\ evidence.before < subject.item /\ subject.item <= evidence.after
       /\ evidence.late -> "skipped"
    [] OTHER -> "none"

(* Does the queue as it was just before the call hold exactly this record?   *)
(* The creation time agrees only while it is a number, and when the item    *)
(* was queued in a block that is gone, it may or may not.                   *)
MayMatch == subject \in fresh /\ subject.item <= ItemsAt(chain, evidence.call.height - 1)
MustMatch == MayMatch /\ Canonical(subject)

Decide ==
  /\ phase = "queue"
  /\ MayMatch
  /\ Outcome # "none"
  /\ Enter("key")
  /\ Looked
  /\ UNCHANGED <<ahead, evidence>>

LeaveCall ==
  /\ phase = "queue"
  /\ ~MustMatch \/ Outcome = "none"
  /\ evidence' = NoEvidence
  /\ Enter("canonical")
  /\ Looked
  /\ UNCHANGED ahead

(* A derived record has no log of its own: its index is 0.  It is filed      *)
(* under the block that is now at the height of the call.                  *)
DerivedAlert ==
  LET call == evidence.call
  IN  [height |-> call.height, branch |-> chain[call.height].branch, seen |-> call.branch,
       tx |-> call.tx, index |-> 0, item |-> subject.item, kind |-> Outcome]

DropSubject ==
  /\ LetGo
  /\ Enter("derive")
  /\ UNCHANGED <<environment, lock, latest, start, todo, receipts, derivable, history>>

StoreDerived ==
  /\ phase = "key"
  /\ Accept(DerivedAlert)
  /\ DropSubject

(* No call decides, or a read fails: the record is passed over.             *)
PassOverRecord ==
  /\ \/ phase = "canonical" /\ ahead = {}
     \/ Faults /\ phase = "canonical" /\ ahead # {}
     \/ Faults /\ phase \in Looking \ {"canonical"}
  /\ DropSubject
  /\ UNCHANGED <<ledger, fresh>>

LookAtRecord ==
  \/ \E r \in derivable : TakeRecord(r)
  \/ \E c \in ahead : CheckCanonical(c) \/ PassOverCall(c)
  \/ ReadBefore \/ ReadAfter
  \/ Decide \/ LeaveCall
  \/ StoreDerived \/ PassOverRecord

Announce ==
  /\ phase = "derive"
  /\ derivable = {}
  /\ Enter("notify")
  /\ UNCHANGED <<environment, lock, ledger, run, history>>

(* publicAlert admits numbers where numbers belong, and no text.           *)
Deliverable(r) == r \in fresh

Notify ==
  /\ phase = "notify"
  /\ outbox # <<>>
  /\ Deliverable(Head(outbox))
  /\ sent' = sent \cup {Head(outbox)}
  /\ Enter("mark")
  /\ UNCHANGED <<environment, lock, ledger, run, unread>>

MarkDelivered ==
  /\ phase = "mark"
  /\ outbox' = Tail(outbox)
  /\ Enter("notify")
  /\ UNCHANGED <<environment, lock, cursor, records, run, history>>

(* The script ends and gives the lock back: done, or by an error nothing    *)
(* catches - a malformed alert, or a failed read between the two loops.    *)
End ==
  /\ \/ phase = "notify" /\ outbox = <<>>
     \/ phase = "notify" /\ outbox # <<>> /\ ~Deliverable(Head(outbox))
     \/ Faults /\ phase \in {"reconcile", "fetch"}
     \/ Faults /\ phase = "logs" /\ todo = {}
  /\ lock' = FALSE
  /\ Enter("idle")
  /\ Forget
  /\ UNCHANGED <<environment, ledger, history>>

(* The process dies and leaves the lock file behind ...                    *)
Crash ==
  /\ Faults
  /\ phase # "idle"
  /\ Enter("idle")
  /\ Forget
  /\ UNCHANGED <<environment, lock, ledger, history>>

(* ... until somebody deletes it.                                          *)
Unlock ==
  /\ phase = "idle"
  /\ lock
  /\ lock' = FALSE
  /\ UNCHANGED <<environment, ledger, phase, run, history>>

RunStep ==
  \/ Begin \/ Reconcile \/ FetchLogs
  \/ ProcessLog
  \/ ReadReceipts
  \/ LookAtRecord
  \/ Announce \/ Notify \/ MarkDelivered \/ End

Next == ChainStep \/ RunStep \/ Crash \/ Unlock

Spec == Init /\ [][Next]_vars

-----------------------------------------------------------------------------
(* Invariants.                                                             *)

(* Types; and what is still to be announced is on record, so that a         *)
(* record that reconcileCanonical drops is not announced any more.         *)
WatcherTypeOK ==
  /\ chain \in Seq(Block) /\ branch \in Nat /\ deepest \in 0..MaxDepth
  /\ lock \in BOOLEAN
  /\ cursor \in 0..Len(chain)
  /\ records \subseteq Record
  /\ \A i \in DOMAIN outbox : outbox[i] \in records
  /\ phase \in Phases
  /\ latest \in 0..Len(chain) /\ start \in 1..(Len(chain) + 1)
  /\ derivable \subseteq Record /\ fresh \subseteq Record
  /\ subject \in Record /\ evidence \in Evidence
  /\ sent \subseteq Record

(* What the watcher should announce of the canonical chain up to a height.  *)
Reportable(to) ==
  {log \in Found(LogKinds, 1, to) : Alertable(log) /\ ~Superseded(log)}

(* The cursor never passes a log that was neither recorded nor skipped      *)
(* because it could not be read, whatever the moment the process dies and   *)
(* the chain grows: since a run starts at the cursor's own block, this      *)
(* bears reorganisations as deep as the confirmed depth.                   *)
CursorPassesNothing ==
  deepest <= Confirmations =>
    \A log \in Reportable(cursor - 1) : Recorded(AlertOf(log)) \/ log \in unread

(* What was announced stays true: as long as reorganisations stay below the *)
(* confirmed depth, no alert ever names an orphaned block.                 *)
AlertsAreFinal == deepest < Confirmations => \A r \in sent : Canonical(r)

(* What an alert on a canonical block says of an item is what became of it:  *)
(* it was executed in that very block; or it had passed its deadline there  *)
(* and was executed in no block at all (deriveDelayLifecycle).  Block,       *)
(* nonces, queue and the hash to file under are read one after the other:   *)
(* if the hash is another one than that of the block the call was seen in,  *)
(* the alert may be wrong, and that takes a reorganisation of the confirmed  *)
(* depth.                                                                  *)
LifecycleIsTrue ==
  \A r \in records :
    /\ deepest < Confirmations => r.seen = r.branch
    /\ Canonical(r) /\ r.seen = r.branch =>
         /\ r.kind = "executed" => r.item \in chain[r.height].executed
         /\ r.kind = "skipped" =>
              /\ r.item \in chain[r.height].lapsed
              /\ \A h \in DOMAIN chain : r.item \notin chain[h].executed

-----------------------------------------------------------------------------
(* Action properties.                                                      *)

(* No alert is announced a second time, in this run or a later one, however *)
(* often its log is read again and wherever the process died.              *)
AnnouncedOnce ==
  [][phase = "notify" /\ phase' = "mark" => Head(outbox) \notin sent]_vars

-----------------------------------------------------------------------------
(* Progress.  The script is started again whenever it has ended, a stale    *)
(* lock file is removed, and from some time on no run is cut short before   *)
(* it starts to notify.                                                    *)

CutShort == phase' = "idle" /\ phase \notin {"idle", "notify"}

FairSpec == Spec /\ WF_vars(RunStep) /\ WF_vars(Unlock) /\ <>[][~CutShort]_vars

(* Every confirmed log of the canonical chain gets on record in the end,    *)
(* unless reading it failed: whatever crashes and reorganisations came      *)
(* before, and even if the alerts themselves are never accepted.           *)
ConfirmedGetsRecorded ==
  []<>(\A log \in Reportable(Len(chain) - Confirmations + 1) :
         Recorded(AlertOf(log)) \/ log \in unread)

=============================================================================
