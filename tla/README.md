# Verification of the personal vault

The repository is a personal vault: a Safe account owned by one passkey, whose
spending is limited by a Safe guard (`TieredSpendingGuard`) and whose large or
sensitive changes wait in a Zodiac Delay queue. Around the contracts there are
scripts that deploy and watch the vault, a small backend that provisions and
submits, and a web application.

This directory holds TLA+ modules translated from that code, the TLC
configurations that check them, and proofs checked by TLAPS. `PROJECT.json`
lists, for every definition, the source lines it stands for.

## 1. Inventory

Paths are relative to `src/packages/security-core/` unless they start with `apps/`.

| part | state it keeps | operations | what makes it correct |
|---|---|---|---|
| Spending guard `contracts/TieredSpendingGuard.sol` | per token: policy (five limits, recipients, commitment), base and instant counters with their window; signers; frozen flag; pending transfer between the two hooks | `checkTransaction`/`checkAfterExecution` (lanes Base and StepUp, queue proposals, owner actions), `checkModuleTransaction` (delayed execution), `setAssetPolicy`, `repairAssetPolicy`, `configureSafeContractSecondary`, `repairSigner`, `freeze` | the two instant lanes together never exceed the daily limit; a limit or a recipient is only ever widened through the queue; a frozen vault pays nothing; recipients are checked when money moves |
| Delay queue `contracts/test/ZodiacDelayV1_1_1.sol` | `txNonce`, `queueNonce`, hash and creation time of every item, cooldown, expiration | `execTransactionFromModule`, `executeNextTx`, `setTxNonce`, `skipExpired`, `setTxCooldown`, `setTxExpiration` | an item runs at most once, never before its cooldown, never after it was cancelled |
| Maintenance helper `contracts/GuardReplacementMaintenance.sol` | none of its own; runs by delegatecall in the Safe | `replaceGuards`, `replaceSigner` | owner of the Safe and primary of the guard stay one address; a new guard demands the same factors |
| Setup helper `contracts/SafeAtomicSetupHelper.sol` | none | one atomic setup call | its result is the initial state of the modules |
| Signatures `contracts/libraries/*` | none | decode an envelope, hash a policy | an accepted envelope names exactly the configured factors |
| Activity watcher `src/monitoring/*`, `scripts/watch-activity.ts` | ledger file: cursor, records, outbox; lock file | one run: reconcile, read logs, verify, derive lifecycle, notify | each confirmed log is announced once, through crashes and reorganisations |
| Classifier and policy configuration `src/policy`, `src/config/policy.ts`, `src/queue` | none | predict a lane, compute a fingerprint | predicts a lane the guard admits |
| Relayer transport `src/transport` | client: payload of each idempotency key | submit with a timeout; validate, recheck, broadcast, reconcile | broadcasts only what was just read to hold; answers are true of the chain |
| Live submission `scripts/live` | journal file with pending and settled intents, lock | submit, resume, per-nonce deployment | never two transactions for one intent, none lost, nothing sent before what it rests on |
| Topology `src/topology`, `src/config/*` | none | build and verify addresses and calldata | pure comparison; the checks before and after the Safe's creation |
| Signer adapters `src/signers` | none | encode signatures | pure encoding |
| Backend `apps/backend/src` | in memory: sessions, credentials, approval requests; on disk: submission journal | register, authenticate, provision, create/approve/submit | one broadcast per approved transaction; an outcome is not forgotten |
| Web application `apps/app/src/lib` | snapshot of the vault, derived activity | refresh, submit through the backend | shows one consistent state of the chain |
| Landing page, user interface, gates, build scripts | presentation, command line | | not part of the vault's logic |

**How they interact.** The Safe calls the guard before and after every owner
transaction and before and after every module transaction. The guard reads its
own policy and the owner's signatures; the one call to the Delay module it lets
an owner make is an exact queue proposal (or a cancellation). Anyone may call
the Delay module to execute the head of the queue; the Safe then calls the guard
again, as a module transaction. The maintenance helper runs inside the Safe as a
delayed delegatecall and rewrites the guard slots, the owner and the guard's
signers. Scripts, backend and web application reach the vault only over RPC, in
separate processes that keep their own files.

**What is hard here.** On chain every transaction is atomic, but *which*
transaction comes next is open: owner, canceller, executor and passage of time
interleave freely, the queue executes calls that were authorised days earlier
against a state that has changed, settings reach back to items already queued,
and repairs change the very component that authorised them. Off chain: crashes
between a write and a broadcast, files read back with other types than were
written, chain reorganisations, and reads that are seconds old when used. The
`hazards` of `PROJECT.json` list each of these at its line.

## 2. Plan

Order of work; the most important behaviour first.

| step | modules | question | state |
|---|---|---|---|
| 1 | `SpendingPolicy`, `TieredSpendingGuard`, `ZodiacDelay`, `GuardReplacementMaintenance`, composed by `Vault` | limits, queue, freeze, repairs, on one chain | done |
| 2 | `VaultProofs`, `AuthorityProofs` | the same for every constant | done for the safety properties of step 1 |
| 3 | `ActivityWatcher`, `WatcherProofs` | are all events announced, through crashes and reorganisations | done |
| 4 | `SubmissionService` (backend `vault.ts` + `journal.ts`), `SubmissionProofs` | what is broadcast was approved, and is not broadcast again once its broadcast has ended, under concurrent calls and restarts | done |
| 5 | `LiveSubmission` (`scripts/live/submission.ts`, `runtime.ts`), `VaultDeployment` (`vault-runner.ts`, `deploy-disposable.ts`), abstract `StepLedger`, `LiveProofs` | write-ahead journal: crash before and after broadcast, receipts under reorganisation; refines the ledger | done |
| 6 | `RelayerTransport`, `TransportProofs` | recheck before broadcast against a moving chain, timeouts, retries | done |
| 7 | `GuardHooks`, abstract `AtomicPayments`, `HooksProofs` | one transaction split at the two hooks: re-entrancy flag, token balance proof; refines the atomic payments step 1 takes for granted | done |
| 8 | `WalletBackend`, `WalletProofs` | registration, concurrent provisioning, preparation, with the web application and scripts as clients | done |
| 9 | `LaneClassifier` | the lane predicted off chain against the lane the guard admits | done |
| 10 | `SafeEnvelope` | which signatures an accepted envelope holds, Safe nonce and replay | open: mostly byte layout |
| 11 | web application's refreshes | unpinned parallel reads, overlapping refreshes | open: what is displayed is advisory and the guard decides |
| - | liveness of the queue | head-of-line blocking | dropped: no fairness is justified (section 4) |

Every safety property of a passing run is proved (section 6). What is left to TLC is
liveness: `ConfirmedGetsRecorded`.

## 3. Modules and how they correspond to the code

`SpendingPolicy` - pure operators: the window of a time (`CurrentWindow`), the
counters as the guard reads them (`SpentIn`: zero when the stored window is an
earlier one), the guards of the two instant lanes, and the comparison of two
policies that decides whether the passkey alone may write the second one
(`Tightens`). A policy is a record of five limits and a set of recipients; its
keccak commitment is the policy itself.

`TieredSpendingGuard` - the guard's storage, each variable a function of the guard
instance (`assetPolicy` with the allowlist, `spendState`, `frozen`,
`maintenance`, `signers`), the authorisation half of its hooks (`AuthorizeTransfer`,
`AuthorizeQueueProposal`, `AuthorizeDelayedExecution`, ...) and its configuration
functions. Where the code reverts, the operator is FALSE.

`ZodiacDelay` - the queue (`queue` with creation times, `txNonce`, `txCooldown`,
`txExpiration`), one action per operation, and the history `fate` of every item.

`GuardReplacementMaintenance` - the two delegatecalls, over the Safe's owner and
guard slots and the guards.

`LaneClassifier` - `classifyAction` for a transfer, over the same policy and counters
as the guard, as an operator beside `Vault`; its one property compares the two.

`GuardHooks` - one payment from the inside: `checkTransaction` or
`checkModuleTransaction`, the call, `checkAfterExecution`. `frames` is the call stack
with the state each frame falls back to when it reverts. While a frame is open, foreign
code may start another transaction (a signed one of the owner's, the next of the queue), and
tokens move less than asked. `AtomicPayments` is what the guard promises: each
transaction that goes through is one payment within the limit, or the next of the queue. The
refinement maps the state before the outermost frame to the abstract state, so a
transaction takes effect when that frame closes.

`Vault` - composes the first four. Its variables are the Safe (`owner`, installed
guard), every guard, the queue, balances and the clock, and the history
variables `outflow`, `peak`, `received` and `fate`, which no guard reads. One
action per operation that an actor can start: the owner's payments, queue
proposals and immediate actions; the executor's `ExecuteNext` and
`SkipExpired`; and the passage of time. One step is one
chain transaction: a reverted transaction changes nothing and is no step.

`VaultClaims` - sentences of the comments and documents of the repository, as
properties of `Vault` that the code turns out not to have.

`ActivityWatcher` - one run of `scripts/watch-activity.ts` after another, as phases
(`Begin`, `Reconcile`, `FetchLogs`, `ProcessLog`, `ReadReceipts`, the derivation,
`Notify`, `MarkDelivered`, `End`), with the ledger file (`cursor`, `records`,
`outbox`, `lock`), the memory of the run, and the chain it reads. In the derivation each
read `deriveDelayLifecycle` awaits is a step, and the chain may be reorganised between any
two: `TakeRecord` takes a queued item (`subject`) and the calls `ahead` of it;
`CheckCanonical` or `PassOverCall` reads a call's block; `ReadBefore` and `ReadAfter` the
nonces around it, kept in `evidence`; `Decide` or `LeaveCall` the queue; and `StoreDerived`
reads the block at the call's height once more, for the hash the record is filed
under. `fresh` is the
set of alerts made by the running process: all others were read from the file, where
numbers are text. `Crash` loses the run's memory and leaves file and lock. `sent`
and `unread` are history. The chain (`Mine`, `Reorganise`) is modelled from what
the script asks of it; a block's hash is its height and branch.

`SubmissionService` - the backend's approvals and broadcasts. A call is a record with a
program counter, and runs from one `await` to the next: `verifying`, `broadcasting`,
`reconciling`. `requests` and `approvals` are memory and lost by `Crash`; `journal` and
`bound` are the file. `attempted`, `ended` and `halfway` are history. `SubmissionClaims` - what a
plan says of it and the code does not do.

`LiveSubmission` - `submitLiveIntent` between its awaits (`ResumeIntent`, `NewIntent`,
`RecheckReceipt`, `Preflight`, `Sign`, `Broadcast`, ...) over the journal file, beside a
chain that mines, evicts and reorganises. `VaultDeployment` extends it with the
runner: which step comes next, when the Safe may be created, and when a new process may
take the journal up. `StepLedger` is the abstract promise: transactions are written
down before they are sent, one for each step and for good.

`RelayerTransport` - the client's `submit` (key, post, timeout, reply) and the relayer's
handler, whose `relay` record walks through the `Facts` of a request one read at a
time, twice, before it broadcasts. `Drift`, `OtherSafeTransaction`, `OtherQueueStep` and
`Tick` are the chain under it. The server between the two is not in the repository;
a post is handled once or never, or its handler dies.

`WalletBackend` - sessions, credentials and the vault record of the backend, and its
clients: a browser tab walks through `provision()`, as
far as its registration gets (section 5); the connections of a script use the
HTTP interface in any order, and post a ceremony's response again under another role if they
like. A client's `call` record says how far the backend has got with its request:
`verifying`, `deploying`, `mined` and `preparing` are awaits.

`MCWatcher`, `MCSubmission`, `MCDeployment`, `MCTransport`, `MCWallet`, `MCHooks` - the
inputs of each run.

`MCVault` - constants for TLC. The mutants stand beside the definitions they change, in
the modules: for each property an operator that changes one definition the way a
plausible bug would.

Abstractions, and why they are safe:

* Signatures: an owner transaction carries the set of factors that signed it;
  `EnvelopeValid` says which sets the guard accepts. The byte layout of envelopes
  and the Safe's nonce are left out: a replayed transaction would be a transaction
  of the same signers, which the model lets the same signers send at any time anyway.
* Tokens: in `Vault` transfers move exactly the amount or revert. That a
  transaction split at the hooks comes to that is what `GuardHooks` shows: the check of
  the token's balances and the flag against re-entrance only reject transactions.
* Calls: of the calls an owner can ask the Safe for, the ones the guard knows are
  in the menu. Every other call falls through to `_authorizeTransfer` and reverts.
* `uint256`: amounts stay far below 2^256, no sum of the runs can overflow; the
  checked subtraction of the guard's allowance, which *can* revert, is kept.
* A replacement guard is an instance of the same code, freshly deployed: its
  policies, counters and frozen flag are those of its constructor. The runtime
  code hash check of `replaceGuards` is what makes this so.

Of the watcher:

* The reads made for one log are one step, and of an orphaned log they may say anything. One
  step are also the reads of `Reconcile`, the two calls of `getLogs`, and the loop that
  reads the receipts block by block. A reorganisation in the midst of one of these mixes what
  two branches say. For `Reconcile` that is as if it came right after. Of the logs, below the
  confirmed depth only unconfirmed ones are mixed, and they are passed over; at that depth also
  those of the highest confirmed block, which the cursor does not pass and the
  next run reads again. Of the receipts each is compared with its block in
  `CheckCanonical`. The reads for a queued item are one step each.
* The chain never returns to a block it has abandoned, and a transaction mined again in
  another block counts as another transaction: the transaction of a record is named
  by its place in the block it was seen in (`seen`), which need not be the block the
  record is filed under.
* A reorganisation keeps the length of the chain; the filter never marks logs as
  removed; all transfers are of one token; the deadlines the watcher computes
  are the chain's. Executions and expiries are sent to Delay directly.
* A cursor recomputed from records that were read back compares heights as
  text; that can only put it further back, and is left out.
* Notifications go to standard output, as the script does.

Of the rest off chain:

* Signatures are correct or not: `verifySignature` and the WebAuthn verifier answer
  yes only to what the role's key signed. An authenticator makes a fresh key per ceremony.
* Hashes are the values they stand for (request hash, intent hash, queue fingerprint).
* In `LiveSubmission` intent i of the plan has nonce i - 1, as the planner numbers them, and
  whatever makes `sign` or a read throw ends the run. In `RelayerTransport` a round
  reads its facts in the code's order; facts that only their own holder changes
  (chain, owners, guard, policy) are members of one set, which `Drift` can lose.
  The relayer works out whether an item is ripe from the cooldown and the expiration the
  *request* names (`relayer.ts:162`-`:164`); of the three times it only compares the
  creation time with Delay's (`:159`). The model takes requests to name Delay's own
  cooldown and expiration, so `Ripe` serves both the check and the mining. With a request
  that names others, `BroadcastWasCurrent` says what it says anyway: the facts held as the
  request states them.
* Of the web application, what is on screen is left out; the state that reaches the backend is
  the credentials it holds and the vault it saved.

## 4. Runs

`limits`, `delay` and `maintenance` use module `MCVault`; the others the module of their own.

| run | shows |
|---|---|
| `limits` | `CountersExact` (the counters of every guard equal what it let out through each lane in the running window), `DailyLimitsHold` (one guard never lets out more in one window than the largest limit that was in force in it), `PredictedLaneIsAdmitted` (the lane the classifier predicts is one the guard admits), `WideningIsDelayed` (a policy in force gets wider only by a step that executes a queued call), `TypeOK` |
| `delay` | `OnlyAllowedArePaid`, `FrozenMovesNothing`, `NoticeGiven` (no queued call executes before the deployment's cooldown has passed), `FateIsFinal` (executed, cancelled and skipped are final) |
| `maintenance` | `OwnerIsPasskey`, `FactorsNeverShared`, `ReplacementKeepsFactors`, `SecondaryBroadeningIsDelayed` |
| `hooks` | `ImplementsAtomicPayments` (every transaction that goes through is one authorised payment, whatever the called code did), `HooksTypeOK` (also: nothing is pending between transactions) |
| `watcher` | crashes and failed reads at every step, reorganisations that reach recorded blocks: `WatcherTypeOK` (also: what is pending is on record), `CursorPassesNothing`, `LifecycleIsTrue` (of a record filed under the block its call was seen in: what it says of the item is what that block did), `AnnouncedOnce` |
| `watcher_progress` | reorganisations below and at the confirmed depth: `CursorPassesNothing`, `AlertsAreFinal` (as long as they stay below), and under fairness `ConfirmedGetsRecorded` |
| `submission` | `BroadcastIsAuthorized` (what is broadcast carries the approvals of its tier, for its digest), `OutcomeIsRemembered` (an id once broadcast is in flight, settled, or marked uncertain on disk), `EndedIsNotRepeated` (once a broadcast of an id has ended, in an answer or an error, the id is not broadcast again, across restarts; broadcasts still running and broadcasts cut off by a crash are excepted), `SubmissionTypeOK` (also: a request in memory is bound to its digest on disk) |
| `live` | `StepsRestOnSuccess` (without reorganisations no step is sent before every step below it has succeeded), `OutlayIsBounded` (what was and may still be spent stays within the phase's limit), `ImplementsStepLedger` (one transaction per step, written before it is sent, also under reorganisations), `LiveTypeOK` |
| `relayer` | `BroadcastWasCurrent` (each fact a broadcast rests on held at a moment of its second round of reads), `AnswersAreTrue` (rejected means not sent by this call, confirmed means executed), `ExecutionsFit` (a request executes its own Safe nonce, and in the queue its own item or a later equal one), `KeysNameOnePayload`, `TransportTypeOK` |
| `wallet` | `OnlyProvenKeysOwnVaults`, `HeldVaultHasHeldKeys` (vault and credentials of the backend belong together, although a deployment is awaited between comparing and storing), `EveryVaultIsItsOwners` (concurrent deployments are never mixed up), `WalletTypeOK` (also: one session per role) |

`PredictedLaneIsAdmitted` is about what *is* predicted. The classifier predicts
"blocked" for an amount between the rest of the daily limit and the limit, which the guard
would queue, and for every instant transfer of a token whose stored window is still 0.

In `hooks`, two things stop a transaction inside a transaction: `checking` in the first hooks and
`NoPendingCheck` in the second. With the first taken away nothing is violated: the inner
transaction clears the flag, and the outer one fails for it. Either suffices.

`LifecycleIsTrue` says nothing of a record whose block was replaced between the first look at it
and the filing of the record; without that condition TLC finds it violated (section 5).

The preparation of a transfer is in `WalletBackend` for its effect on the other calls. That a
request is prepared for the vault that is held is not stated as a property: the comparison
(`handlers.ts:103`) and the answer are one synchronous step, and the property would be
that comparison.

`AnnouncedOnce` holds for a reason its authors may not have meant: an alert that was
announced and not marked is refused when it is read back (section 5). Once that
is repaired, the property fails, as at-least-once delivery would have it.

Bounds, and why they are enough for these questions:

* `limits` - one token (counters of tokens are independent), two recipients, three
  policies that are pairwise wider, narrower and incomparable, amounts 1 and 2
  against limits of 1 to 4, so that every lane is refused for each of its reasons;
  window length 2, anchor 2 (a multiple of it, as `assertValidVaultPolicy` demands)
  and clock up to 6, so there is time before the anchor and two window boundaries are
  crossed; one queued repair.
* `delay` - queue of two (order, cancellation of the first, of both), cooldown
  that can be raised, expiration that can be changed, a clock of 3.
* `maintenance` - three guards, one replacement of each kind, rotation of the
  primary and of the contract secondary, queue of three: every order of
  two rotations and a replacement.
* `watcher` - two blocks: one can hold two queued items, a step-up transfer, an
  execution, an expiry together with an execution, or an execution together with a
  cancellation, so that two items end in one block and have to be told apart.
  Confirmed depth 1, so every block counts at once, and one reorganisation of one block,
  which any record can fall to.
* `watcher_progress` - three blocks with a transfer, two transfers, a queued item or a
  cancellation; confirmed depth 2, so blocks wait to be confirmed; one reorganisation
  of one block (below the depth) or two (at the depth, with records dropped).
* `submission` - three calls, so that two race on one id while a third changes it; two
  ids; a digest prepared twice with different counters, whose tier changes from one
  approval to two, and another digest of the queue's tier. Calls are used again and again.
* `live` - a plan of two contracts and the Safe: a step, one that rests on it, and the one
  that rests on all. Two fees, so that signing again would make another transaction;
  costs below the reservation; one transaction of somebody else; one reorganisation of
  up to two blocks; any number of crashes.
* `relayer` - two calls over two identical queue items, a direct request and one for
  another chain, sharing keys and not; two moves of others on the chain, enough to lose a
  fact and to take the item or the nonce.
* `wallet` - one tab against two connections of a script, four challenges (both roles
  for each), two deployments, one restart.
* `hooks` - a native asset and a token, two recipients, an owner limit of 3 against
  amounts of 1 and 2, a queue of one payment of each asset, two moves by foreign code.

Deadlock is checked in the runs of the vault (the owner can always lengthen the cooldown
or tighten a policy), of the watcher and of the submission service. It is not in `live`,
where a finished deployment stops, nor in `relayer`, `wallet` and `hooks`,
which stop when calls, challenges and deployments or the queue are used up.

Fairness is assumed in `watcher_progress` alone: the script is started again
whenever it has ended (it has no loop of its own and is meant for a scheduler), a
stale lock file is removed, and from some time on no run is cut short before its
notifications. None of the three is in the code; the property says what the code adds.
Nothing in the code schedules a call to `executeNextTx` or `skipExpired`, a retry of a
submission, or another start of a deployment: no fairness is justified under which the
queue, a submission or a deployment would have to end, and none is claimed.

Each property of a passing run has a mutant in `PROJECT.json`: a changed
definition under which TLC finds the property violated.

## 5. Where the code and its documents disagree

Two are runs that TLC ends with a counterexample.

| run | the text | what the code does |
|---|---|---|
| `claim_freeze_maintenance` | comment on `freeze`: "The delayed repair paths remain available so the Safe is not permanently bricked" | with the contract secondary cleared, `replaceGuards` and `replaceSigner` both refuse; together with a freeze the vault can never move again |
| `claim_submission_duplicate` | backend plan (`2026-10-16-eurc-wallet-backend.md:28`): "Duplicate registration/submission and uncertain broadcast reconcile against the journal before any retry." | the journal is read before the broadcast and written after it (`vault.ts:165`, `:180`): two calls with the last approval both broadcast |

Met while modelling, in the modules as the code has them, without a run of their own; first
those that differ from a text of the repository:

* Test roadmap, line 182: "a cancelled or expired delayed item never executes". The deadline
  is computed from the settings at execution, and the passkey alone may raise the cooldown:
  an expired item comes back to life (`ZodiacDelayV1_1_1.sol:83`).
* Test roadmap, line 180: "combined base-plus-step-up immediate outflow never exceeds Y". A
  replaced guard starts with zero counters in the running window
  (`GuardReplacementMaintenance.sol:111`); `DailyLimitsHold` is about each guard.
* `project-memory.md:42`: "Values above Y use the delayed Z lane." After a tightening below
  what was already spent, the subtraction reverts and nothing can be queued until the
  window ends (`TieredSpendingGuard.sol:600`).
* `call-graph.md:106`: the ledger "retries undelivered alerts after restart". Numbers come back
  from the file as text, the notifier refuses them, and the run ends (`ledger.ts:36`).
* `ledger.test.ts:89`: "reconciles records against canonical block hashes before replay".
  Where the replay starts is fixed before the reconciliation (`watch-activity.ts:41`).
* Comment on `deriveDelayLifecycle` (`delay-events.ts:27`): "Derive lifecycle records only from
  canonical successful Delay calls and exact queue state transitions." The block of the call
  is compared with the canonical one first (`:35`), then the nonces and the queue are read
  (`:38`-`:40`), and the script reads the block's hash once more and files the record under that
  (`watch-activity.ts:135`). A reorganisation of the confirmed depth in between leaves a record that
  says "executed" or "expired" under a canonical block that did nothing of the kind, where no
  later reconciliation removes it. The same reads may also mix the nonces of two branches.
* Backend plan (`2026-10-16-eurc-wallet-backend.md:28`) once more: a process that dies while it
  broadcasts, before the first write of the journal (`vault.ts:176`-`:180`) or between the
  two (`:180`-`:181`), leaves "prepared" or "submitted". After the restart the id is prepared
  and approved again, and broadcast again without reconciliation. `EndedIsNotRepeated`
  excepts this.
* `guard-events.test.ts:63`: counters are read "at the event block instead of suppressing a
  valid prior event with latest state". The end of the block has other counters once a
  second transfer is in it (`guard-events.ts:18`).
* Transport plan (`2026-09-28-two-owner-atomic-deployment-transport.md:33`): "Relayer times
  out after broadcast: Task 6 returns `submitted`/`confirmed` from canonical
  reconciliation". When the broadcaster returned a hash and the receipt cannot be read, the
  error has no hash and the answer is `transport-unavailable` (`relayer.ts:220`-`:224`).
* `testnet-runbook.md:54`: "`plan`, `preflight`, `resume`, and `evidence` never broadcast". `resume`
  calls the same `submitLiveIntent`, which broadcasts when the intent is not journaled
  (`scripts/live/runner.ts:68`; the check of `LIVE_SUBMIT` at `:38` is for `submit` alone).
* Backend design (`2026-10-16-eurc-wallet-backend-design.md:86`, `:166`): the tab registers its
  passkeys. The store posts `registration.response` (`vault-store.tsx:122`), which has no
  `credentialId`, and `webauthn.ts:77` demands one: the session is consumed, the
  role stays reserved, and registration fails until the backend restarts. `NamesCredential`
  has it, so the tabs of `WalletBackend` get no further than that; scripts do.

And those no text speaks of:

* A queued policy repair is a delayed CALL, and every delayed CALL is refused while
  frozen (`TieredSpendingGuard.sol:613`).
* The first policy of a token is compared with nothing and needs the passkey alone
  (`TieredSpendingGuard.sol:168`).
* A crash of the watcher leaves its lock file, and later runs refuse to start
  (`ledger.ts:25`).
* The creation time of a record read back from the file is text and never equals the
  chain's number: only items queued and ended before one and the same run are
  reported (`delay-events.ts:41`).
* Two items skipped by one call share a key; the second is taken for known
  (`delay-events.ts:50`, `ledger.ts:57`).
* A failed read of one log is treated as a malformed log, and the cursor moves on
  (`watch-activity.ts:103`).
* Receipts are those of transactions sent to Delay, while a cancellation is sent to the
  Safe, so the branch for cancellations in `deriveDelayLifecycle` is never
  reached (`watch-activity.ts:113`).
* A read of a receipt that fails is taken for a receipt that is not there
  (`runtime.ts:134`): a settled entry goes back to pending, and its reservation to the
  full amount.
* What `deploy-disposable.ts` does between taking the journal's lock and `try` (`:37`-`:50`) leaves the
  lock when it throws; a pending entry, or a finished plan, makes every restart refuse
  (`:33`); and a restart without `VAULT_DEPLOYMENT_START_NONCE` opens another journal (`:27`).
* A process that dies after journaling a transaction and before broadcasting it leaves an
  entry that is pending for good: `submitLiveIntent` never broadcasts it again (`submission.ts:80`).
* A second primary approval while the first is being broadcast is answered
  "awaiting_secondary", also for the tier that needs none (`vault.ts:208`).
* The journal confirms with the hash of the broadcast, without a receipt (`vault.ts:181`).
* `RegistrationSessions.clear` is never called: a role whose ceremony failed is taken until the
  backend restarts (`session.ts:46`).

## 6. Proofs

TLAPS proves the properties below for every value of the constants: any sets of tokens,
recipients, amounts, policies, guards, clients, calls and ids, queues and plans of any
length, any period. The assumptions are those named in the modules that declare the
constants.

* `VaultProofs` - first windows and queue: `CurrentWindow` is monotone in time, a natural
  number, and a multiple of the period from the anchor (the two facts on
  division they rest on are proved from the definition); every operation of the queue keeps
  its type and `QueueInv` (an item's fate is decided exactly when the nonce has passed it, and
  the cooldown is never below the deployment's), and execution takes the head. Then
  `TypeCorrect` and `LimitsAreKept`. `DailyLimitsHold` is not
  inductive: a step-up payment is admitted against the stored counter, so the
  counter has to equal the outflow (`CountersExact`), the limit it is compared
  with has to lie below the recorded peak (`LimitsBelowPeak`), and stored windows
  must not lie in the future (`WindowsPast`), or a rollover would erase
  spending of the running window. `CountingInv` is their conjunction;
  `CountersAreExact` follows from it. `PredictionsHold` (`PredictedLaneIsAdmitted`) follows
  from types: both sides read the same counters, so it is a comparison of two case
  distinctions at every time.
* `AuthorityProofs` - the action properties (`FateNeverChanges`, `NoticeIsGiven`,
  `WideningWaits`, `OnlyAllowedPaid`, `FrozenIsStill`, `ReplacementIsFaithful`,
  `BroadeningWaits`) and `FactorsAreKept`, whose invariant `FactorInv` speaks of
  all guards, not only of the installed one: a guard that is still to be
  installed must already have distinct factors. `FactorsAreNeverShared` follows.
* `HooksProofs` - `HooksImplementAtomicPayments`, the refinement. Its invariant
  `HooksInv`: at most one frame is open, because the flag refuses a second; it was started
  from a state of rest; the Safe is short of its own payment at most; an
  owner's frame has counted its amount within the limit and holds the balances from before;
  a module's frame is the next item of the queue. A step that closes the frame is then a
  payment, a revert is a stutter, and every other step inside is one too.
* `SubmissionProofs` - `BroadcastsAreAuthorized`, `OutcomesAreRemembered`,
  `EndedAreNotRepeated`. `SubmissionInv` adds what a call holds across its await (the request
  it read is the one in memory as long as the process lives, `CallsFit`) and that approvals are for the
  digest on disk (`ApprovalsFit`, `DiskFits`).
* `LiveProofs` - `DeploymentImplementsStepLedger`, `NothingIsSentEarly`, `OutlayStaysBounded`.
  `LiveInv` adds that what is in the pool, mined or settled was handed out (`HandedOut`), where
  the runner is in the journal (`InOrder`), and that receipts in the journal are on the chain
  (`Grounded`). `OutlayIsBounded` is not inductive: what the preflight adds up is the journal, what
  the property adds up is the chain and the pool. `Budgeted` ties them: without reorganisations
  the chain holds the journal's transactions at their own places and the pool at most the last
  entry's, and from the preflight to the broadcast the pool is empty with room
  for one reservation. Only then may a receipt free the rest of its reservation.
* `WatcherProofs` - `CursorNeverPasses`, `AlertsStayFinal`, `LifecycleIsTold`,
  `AnnouncedOnceOnly`, for chains of any length, blocks of any number of transactions and
  any depth. None of the four is inductive. `WatcherInv` adds that whatever was
  seen is of the chain as it is or was (`Sighted`, `Deep`), that between the run's phases each log
  above the cursor is still to do (`Covered`, `InHand`), that what is announced is off the
  outbox but for the moment before it is marked, or was made by another process (`Told`), that
  what has been read about a call still is what its block did, or that block is gone (`Held`), and that
  a block's outcome follows from its transactions and the nonce before them (`BlockFits`). The last
  needs what a sequence of transactions does to the queue: `EffectsAreOrderly`, by induction.
* `TransportProofs` - the five properties of the run. `BroadcastIsCurrent` needs what a handler
  has seen at each place of its two rounds (a fact that held in the first round need
  not hold in the second, which starts anew); `AnswersAreTrueAlways` and `ExecutionsAlwaysFit` that
  a transaction is handed out once, and only after all facts were seen, that a mined one has moved
  the Safe's nonce or the queue's head past its own, and that answers are only made of what a
  handler that is still alive, or the chain, says. `KeysAlwaysNameOnePayload` rests on the map of
  keys being the client's, not the relayer's.
* `WalletProofs` - the four properties of the run. `WalletInv` adds that
  a deployment under way is for the credentials held (they are never replaced within a run of the
  backend), and that no two clients are ever told of one vault (`ClaimsAreApart`).

Induction. The library's induction theorems take an operator as a parameter, which the provers
cannot instantiate. Where a proof needs induction it is for a set of numbers:
the least number outside the set (`WFMin` with `NatLessThanWellFounded`) contradicts the step
(`NumberInduction` in `WatcherProofs` and `LiveProofs`). With it a recursive function is shown to
exist and to satisfy its equation (`EffectsDefined`, `WithoutDefined`, `TotalIsTheLastSum`), and
then what it computes. The modules therefore fold with recursive functions of their own where a
theorem depends on the fold.

Only model-checked: `ConfirmedGetsRecorded`, since liveness under fairness and `ENABLED` are out
of the prover's reach, and the counterexamples of section 5. The theorems on
`ActivityWatcher` are about `Spec`, and hold of `FairSpec`, which only adds fairness. What was
strengthened for a proof was first checked by TLC as an invariant of the component's run.

## 7. Not modelled

* Encoding and cryptography: signatures and their envelopes, hashes, calldata, addresses,
  bytecode comparison (`src/signers`, `src/topology`, `src/config`, `contracts/libraries`).
  Sequential pure functions, without a state that a sequence of steps could bring into disorder.
* What is displayed: the landing page, the components and routes of the application, the
  snapshot `vault-chain.ts` reads, derived statuses (`activity-model.ts`), local storage, overlapping
  refreshes (`vault-store.tsx:178`: the older answer may arrive last and stay on screen until
  the next one). It is advisory; the guard decides.
* The bootstrap runner (`scripts/live/runner.ts`), gate and build scripts, and the legacy guard, which
  nothing deploys.
* Inside `provisioner.ts`: the deployment of a backend's vault is one external step. The classification
  of calls other than transfers. The webhook notifier, which the watcher does not use.

About seven tenths of the implementation's lines are of these kinds - more than half alone are
user interface components and pages - so the map covers a small share of the lines although the
control of every stateful component but the bootstrap runner and the display is modelled. Within a modelled
file the definitions name the lines they translate, not the file.
