# Daftar: a TLA+ model of the collections desk, the closing agent and the sync

Daftar is a Flutter ledger for small shops. A closing agent proposes debts,
payments and collections; the merchant confirms with a tap, and the app writes
its own SQLite (Drift) database or asks a small FastAPI server to telephone or
e-mail the customers. The devices of a workspace write their own books offline and
exchange their operations through a log on the server. This directory holds TLA+
models of the parts of that program where taps, `await`s, replicas, time-outs and
separate transactions meet, of the server's rules that decide whom it calls and what it
takes from speech, and of push, pull and merge; the TLC runs that check them; and TLAPS
proofs that most of what they check holds for every size of the system.

| Module | What it is |
|---|---|
| `CallContract` | what Confirm & Call promises, in two variables |
| `CallRail` | taps, `plan-batch` / `run-batch`, replicas, CALL-E |
| `CallRailProofs` | types and "rings once per attempt", proved |
| `CallRailContractProofs` | the rail implements `CallContract`, proved |
| `CallDesk` | the desk on the device: taps, poll loops, call tables |
| `CallDeskProofs` | all invariants of `CallDesk`, proved |
| `ProposalContract` | what Confirm and Skip promise of a card |
| `ProposalCommit` | Confirm and Skip on the capture cards |
| `ProposalCommitProofs` | all invariants of `ProposalCommit` that hold, and that it implements `ProposalContract`: proved |
| `EmailContract` | what Confirm & Send promises |
| `EmailRail` | Confirm & Send: taps, dispatch, `send-batch`, SMTP, the saved queue |
| `EmailRailProofs` | all properties of `EmailRail`, `EmailContract` among them, proved |
| `SpokenAmount` | amounts in the merchant's speech |
| `AgentTools` | the tools of the agent (extends `SpokenAmount`) |
| `CallGate` | whom the device, the server and the preview script let be called, in which language |
| `CallStatus` | what a GET of a call means on the server and on the device |
| `CallOutcome` | one call from the gate to its promise (extends both) |
| `AgentServer` | `AgentTools` and `CallOutcome` side by side |
| `AgentServerProofs` | gates, promises, and whom a proposal names, proved |
| `SyncContract` | what offline-first sync promises about an operation |
| `MergeEngine` | the rows of the books: cascades, balances, the merge of one remote operation |
| `SyncEngine` | local writes, push, the server's log, pull and merge (extends `MergeEngine`) |
| `SyncEngineProofs` | logged once, settled is kept, nothing skipped: proved |
| `SyncMergeProofs` | the balances are the books through any merge, edits converge, and the sync implements `SyncContract`: proved |
| `MCCallRail`, `MCCallDesk`, `MCProposalCommit`, `MCEmailRail` | symmetry sets for TLC |
| `MCAgentServer` | what is said, which desks and which results TLC tries |
| `MCSyncEngine` | the books, the clocks and what the merchants may do in each sync run |

Paths below are relative to the repository's root. *ctl* is
`lib/presentation/providers/closing_agent_controller.dart`.

## 1. Inventory

### 1.1 Call rail server (`agent/calls/`) - partly modelled
*State.* `handles.py` keeps, in the memory of one Cloud Run process, snapshots
(batch, contact, handle) of planned calls and the run ids of the calls it has
placed, attempt 0 and attempt 1 apart. `CALLE_ALLOW_DIAL` is the kill switch.
*Operations.* `plan-batch` mints a handle per accepted contact; `run-batch`
checks handle, duplicate and retry, and posts to CALL-E with an idempotency key
made of batch, contact and attempt; GET maps a run to a status, a review and the
fields of a promise. Both batches pass a gate: do-not-call, E.164, region,
allowlist; the create has a language.
*Hard.* Replicas do not share the store, a restart empties it, a `create` can
time out after CALL-E accepted it, and plan and run may meet different replicas.
The same rules stand in Dart and in a preview script, kept in step by hand, and
a result of CALL-E passes two mappings in two languages.
*Correct when* no customer is telephoned twice for one attempt, a retry
follows an unanswered call, a row shows the call it stands for, the copies of the
rules agree, and a promise is on its card as the customer made it.

### 1.2 Closing-agent controller: calls and desk (*ctl*) - partly modelled
*State.* One mutable Riverpod state (`phase`, `callConsented`, `callProgress`,
`collectionsBatchId`, `pendingSendAfterCall`, `collectionsDispatching`, ...) and
`_callPollEpoch`. *Operations.* Confirm & Call, Retry, Approve & Send, commit
outreach (both), retry sending, finish, opening of a closing or credit-limit
desk; poll loops with an initial delay, GETs, writes and a drain at time-out.
*Hard.* No method owns the state: each resumes after its `await` on whatever
desk is open by then, and several poll loops run at once. *Correct when* what a
loop learnt is stored whatever happened to the desk, and no send or call is made
on a desk where nobody asked for it.

### 1.3 Call persistence (`collection_call_local_ds.dart`) - partly modelled
*State.* `collection_call_batches.status`, `collection_call_runs.raw_status`,
promises. *Operations.* `persistQueuedBatch` (a batch is opened, or reopened, with
its runs), `persistTerminalWrite` (one run is filed; the last one closes the
batch). *Hard.* A retry adds runs to a closed batch, several loops write.
*Correct when* a closed batch has no open run, a clean batch no failed run, and
a run is filed once.

### 1.4 Agent proposal commit (`lib/application/agent/`) - partly modelled
*State.* `agent_turns.confirm_state`, contacts, transactions, the journal, the
in-memory `AgentConfirmGate`, and the controller's `confirmingProposalId`,
`committedIds`, `skippedIds`, `contactIdByProposal`. *Operations.* Confirm one
card, confirm a bundle (contact first, its id threaded into the money cards),
Skip, a new goal. *Hard.* Money, journal and turn are three transactions; a tap
acts on the last frame; cards show again when a goal fails. *Correct when* a sale
is recorded once, a card that says "confirmed" was written, and no card stays
locked.

### 1.5 Email rail server (`agent/email_send/`) - partly modelled
*State.* A store of (batch id, address) in the memory of one process; per request
the flags `halt_auth` and `needs_human` and the list of results. *Operations.*
`send-batch`: a row per recipient, an SMTP conversation over 587 and, before a
login, over 465; a rejected password halts the rest. *Hard.* A reply that comes
too late, a request that arrives after the device gave it up, a failure after
Gmail has taken the message, two contacts with one mailbox. *Correct when*
nobody is mailed twice for one approval, a row that says sent was mailed, and
nothing leaves after a rejection.

### 1.6 Collections send queue (*ctl*, dispatch use case) - partly modelled
*State.* `deskRows`, `collectionsDispatching`, the persisted rows. *Operations.*
`approveAndSend`: token, preparation of each row, request, merge of the answer,
save of the queue; `finishDesk`. *Hard.* Taps overlap: the buttons are disabled
only while `isDispatching`, which is set after the await of the token. The client has
no HTTP retry and draws a new batch id for every approval (ctl:1858).
*Correct when* a dispatch that is over leaves no row spinning and no button
disabled, and the saved queue is the desk.

### 1.7 Ledger core (`lib/data/repositories/`) - partly modelled
*State.* Ledgers, contacts and transactions with soft deletes and `updatedAt`,
`contact_balances`, `audit_logs`. *Operations.* Create, update, delete, restore,
archive, each with its cascade, its balances and its audit row in one database
transaction. *Hard.* A delete takes the rows under it and stamps them; a restore finds
them by that stamp; a clock may stand still or run ahead. *Correct when* a stored balance
is the sum of the live transactions, and a restore brings back what the delete took.

### 1.8 Sync and merge - partly modelled
*State.* On a device: the audit log as the push queue, the acknowledged ids
(`sync_outbound_acks`), the operations merged (`sync_operations`), the pull watermark
(`syncPullWatermarkOpSeq`), the conflicts shown to the merchant, and one slot for a
cycle. On the server: the log with its `op_seq`, a mirror of the rows, the running
`push-sync-ops` handlers. *Operations.* A cycle pushes what is pending, retries,
settles what was accepted and what was refused, then pulls page after page, merges
each in one transaction and moves the watermark. *Hard.* An answer is lost
while its handler goes on; a cycle dies between the merge and the watermark; remote
operations meet local edits that wait; a device gets its own operations back; rows keep
whole seconds; an archived ledger's operations are withheld. *Correct when* an operation
is logged once and none is skipped or dropped, devices that exchanged everything
agree, and a queue drains.

### 1.9 Backup and auto-backup - perhaps later
*State.* An upload queue, a flight lock shared with the background isolate.
*Correct when* two runners never upload at once, and a stale lock is broken.

### 1.10 Agent tools (`agent/closing_agent/`) - modelled
*State.* None between two calls: a tool sees the turn's request (goal, voice hints,
ledgers, currency) and its arguments. *Operations.* `parse_goal`, debt, payment,
contact, ledger, closing plan, WhatsApp drafts, statement; under them the search
of a contact by a folded name and the repair of an amount by what was spoken,
in digits or in English or Arabic words. *Hard.* Names that contain each other,
namesakes, several amounts in one goal, currencies without decimals. *Correct
when* the card has the amount that was said for that customer, and a contact is
never chosen between two of one name.

### 1.11 Not planned
* *Auth and session*: a token that hydrates or fails is an input of the models.
* *Workspace invites and deep links*: edge functions over Postgres rows, whose
  invariants are constraints of the database schema.
* *ADK agent, speech, statement rendering*: a language model behind an HTTP call
  and pure rendering; which tool it calls with which arguments is an input of
  `AgentTools`, its proposals are the inputs of `ProposalCommit`.
* *Screens, localisation, platform runners*: no state of the protocols. The
  conditions that enable a button are guards of the models.

### 1.12 How they interact
The controller (1.2) calls the rail (1.1) over HTTP and gets queued runs; it
saves them (1.3) and polls each until it ends, painting the desk and filing the
outcome. The same controller confirms the agent's proposals (1.4), which write
contacts and transactions (1.7). A send tapped beside a call waits in
`pendingSendAfterCall` until the calls are over and then goes through 1.6 to
1.5. The proposals of 1.4 are the answers of 1.10. Ledger writes are pushed and pulled by 1.8 and uploaded by 1.9. State is
shared in one Dart isolate, so code runs undisturbed between two `await`s: an
action of the device modules is such a stretch of code.

## 2. How the modules correspond to the code

### 2.1 `CallRail`
| Variable | Code |
|---|---|
| `consented`, `batch`, `row` | `callConsented`, `collectionsBatchId`, `callProgress` of the state in *ctl* |
| `flow` | one tap of `confirmAndCall` or `retryUnansweredCalls`, and the `await` of `_planThenRun` at which it stands |
| `req`, `rep` | the HTTP request and reply of that tap |
| `dialEnv` | `CALLE_ALLOW_DIAL` in each replica |
| `snaps`, `runIds` | the stores of `handles.py`, per replica |
| `job` | a `run_batch` handler at work, row by row, in `router.py` |
| `posts`, `calls`, `unanswered` | CALL-E: requests under way, calls placed, calls that ended in no answer or voicemail |

`TapConfirm`, `ConfirmHydrated`, `TapRetry`, `RetryHydrated`, `HydrateFails`,
`RecvPlan`, `RecvRun`, `GiveUp` are the device; `ServePlan`, `ServeRun`,
`RunRow`, `CreateOK`, `CreateFails`, `FinishRun`, `Restart` the server; `Accept`
is CALL-E, and external. A call is named by the handle it was dialled
under; a handle by its tap and plan round (a flow plans at most twice);
a batch by the tap that drew its UUID. CALL-E keeps one call per idempotency
key: that is what `agent/calls/client.py` relies on. `CallEnds` stands for the
whole poll loop of one row, which `CallDesk` opens up.

### 2.2 `CallDesk`
| Variable | Code |
|---|---|
| `phase`, `trigger`, `consented`, `prog`, `batch`, `pendingSend`, `dismissed`, `failure`, `dispatching`, `mail` | fields of the controller's state named beside each in the module |
| `current` | the loop whose epoch equals `_callPollEpoch` |
| `flow` | a call tap: token, rail, save, initial delay, polling, persisting, draining |
| `send` | an execution of `approveAndSend` |
| `runSt`, `batchSt` | `collection_call_runs.raw_status`, `collection_call_batches.status` |
| `session`, `sendTaps`, `mailed`, `deaths` | history: desks opened, desks with a send tap, desks mailed, app deaths |

The taps (`TapCall`, `TapSend`, `TapSeal`, `TapRetrySend`, `TapRetry`, `TapDone`,
`OpenClosingDesk`, `OpenCreditLimitDesk`) have the guards of their button and of
their method; `PollRuns`, `PollEnds`, `PollFails`, `Persist`, `PollTimeout`,
`Drain` are the steps of `_pollQueuedCalls`; the credit-limit prompt looks at the
phase before its awaits and its sheet only, so `OpenCreditLimitDesk` may replace
any desk and the close of the day such a one; the rail is two actions, an answer
for some contacts or a failure. `AppDies` ends all code and keeps the tables.

### 2.3 `ProposalCommit`
| Variable | Code |
|---|---|
| `turn` | `agent_turns.confirm_state` |
| `person`, `txs` | the contact and the transactions in the books |
| `gate` | `AgentConfirmGate._inFlight` |
| `confirming`, `committed`, `skipped`, `contactOf`, `failure`, `phase` | fields of the controller's state |
| `painted` | the last frame: a tap can only hit what it shows |
| `flow` | a tap and the `await` at which its handler stands |

`TapConfirm`, `TapBundle`, `TapSkip` start a handler; `Find`, `WriteContact`,
`JournalContact`, `WriteMoney`, `Journal`, `Mark` are the transactions of
`commit_agent_proposal_use_case.dart`, each of which may fail (`Refuse`, and a
bounded number of faults); `CancelFind`, `CancelMark` those of the cancel use case.
`Submit`, `TurnFails`, `TurnAnswers` are a new goal: if it fails the old cards
show again.

`ProposalContract` is what the merchant may rely on, without handlers, gate or frames: the
customer is created once, no sale is without one, and nothing leaves the books; a sale is
recorded again only after its confirm reported failure or Skip was tapped on the card; a
card is confirmed, and shown so, only when it is in the books; it is skipped only by a Skip.
The mapping keeps `turn`, `person`, `txs` and `committed`; `failed` are the taps of Confirm that
ended in a report (`bad`), and `skips` the cards of the frames on which Skip was tapped.
`Mark` and the noop of `Find` are `Confirm`, `WriteContact` is `CreateContact`,
`WriteMoney` is `CreateContact` or `Record`, `CommitFails` and `Refuse` are `Fail`, `CancelMark`
is `Skip`, and a new goal is `Forget`. A confirmed turn can become skipped there, because the code
lets it: cancel looks at the gate only before its first `await`.

### 2.4 `EmailRail`
| Variable | Code |
|---|---|
| `row`, `phase`, `dispatching` | `deskRows`, `phase`, `collectionsDispatching` of the state in *ctl* |
| `saved` | the rows of the persisted queue |
| `pc`, `work`, `now` | a tap of `approveAndSend`, `working` of its dispatch and the row it prepares |
| `handler`, `left`, `halt`, `human`, `result` | the request of that tap and the locals of its `send_batch` |
| `smtp` | the conversation of the handler: recipient, port, how far |
| `store` | the idempotency store, keyed by batch (the tap) and address |
| `mails` | history: what Gmail accepted, by tap and contact |
| `mailbox`, `emailRows` | the addresses and the rows with e-mail of this desk, chosen at the start |

`ApproveAndSend`, `TokenFails`, `StartDispatch`, `CapExceeded`, `Prepare`,
`SendBatchFails`, `SendBatchAnswers`, `FinishDesk` are the device, with the
early return of an execution that has nothing pending or finds another dispatch;
`Arrive`, `RowWithoutSmtp`, `StartSend`, `SmtpDone`, `SmtpFails`, `Reply` are the
handler; `Login` and `Data` the steps of a conversation, of which `SmtpFails` may
break any. `SendBatchFails` is free to happen while the request is on the wire or
its handler at work, which then goes on: that is the late answer.

`EmailContract` leaves out the dispatch, the handler and SMTP: an approval is for rows
that are not shown as sent; it mails only those, each once, and none once a human must settle it;
a row is shown as sent only by an approval that was for it and mailed its address, and it ceases
to be shown so only when two approvals were for it. The last clause is the weak spot of the code, not of
the contract: with two taps past the check before the token, the second dispatch sets rows
back that the first has sent. Of the mapping, `asked` is `Batch` (the rows of `work`), `mails` is
`mails`, `halted` the taps with `human`, `told` the rows that are sent. `ApproveAndSend` is
`Approve`, `Data` is `Mail`, a rejected password or a missing sender is `Halt`, every step of a dispatch
on the device is a `Tell`, and all else is a stutter.

### 2.5 `SpokenAmount` and `AgentTools`
A text is a sequence of tokens, as the regular expressions and the word tables of
`proposal.py` see it: digits, number words with their value, scales, currency,
letters of a name. `ParseSpokenMajor` is the cascade of the four parsers,
`FromEnglishWords` and `FromArabicWords` are folds over the tokens,
`GoalSlice` is the part of the goal that belongs to a contact, and
`CorrectZeroDecimalScale` scales an amount of the model to the spoken one.
`AgentTools` has one operator per tool, and its three variables are a turn's
request, one call and its answer; a call that fails a check answers `Error`.
`MCAgentServer` spells amounts by the grammar of the two languages, not by the
tables of the code, so `MoneyAsSpoken` compares two readings of a number.

### 2.6 `CallGate`, `CallStatus`, `CallOutcome`, `AgentServer`
`CallGate` has each rule three times because the code has: `PlanRow`,
`SnapshotGate` and `RegionGate` are the server's (`router.py`, `j10.py`),
`OmitReason`, `DeviceRegionGate` and `PlanRecipient` the device's, `ValidateIntake` the preview
script's. Each side has tables of its own, copied from its source: `SupportedRegions`,
`CallingPrefixes` and `ArabicCapableRegions`, `DeviceSupportedRegions`,
`DeviceCallingPrefixes` and `DeviceArabicRegions`, `PreviewSupportedRegions`; that they agree
is checked and proved, not assumed. `CallStatus` reads a GET twice: `MapCallGetResponse` on the
server, `NeedsHuman`, `DeskStatus`, `Review`, `ShouldUpsertPromise` on the device.
`CallOutcome` takes one contact through them: `OpenDesk`, `OmitRow` or
`PlanBatch`, `RunBatch` or `RunFails`, CALL-E's own steps (`Advance`, `TaskDone`,
`EndCall`, external), `PollCall` and `PollTimeout`. `AgentServer` is the tools and
the calls under one server; they share no state, so that a behaviour of it is one
of the tools or one of a call.

### 2.7 `MergeEngine` and `SyncEngine`
| Variable | Code |
|---|---|
| `rows`, `bal` | the tables of ledgers, contacts and transactions, and `contact_balances`, of each device |
| `audit`, `acked` | `audit_logs` in the order of `getPendingPushLogs`, and `sync_outbound_acks` |
| `applied`, `cursor` | `sync_operations` and `syncPullWatermarkOpSeq`; the watermark is the later of the two |
| `conflicts` | `merge_conflicts` |
| `cycle` | the cycle that holds `_claimSyncSlot`, and where it stands |
| `log`, `mirror` | the server's `audit_logs` in `op_seq` order, and its entity tables |
| `handlers` | the executions of `push-sync-ops`; `heard` while a client still listens, else `lost` is the number of the fault that cut it off, so that two of them never fall together |
| `now`, `writes`, `faults` | true time, and the two bounds |

`CreateRow`, `UpdateRow`, `DeleteRow`, `RestoreRow`, `ArchiveLedger` are the
repositories, with the guards of `ledger_archived_guard.dart`, which the delete of a ledger
does not ask: an archived one may be deleted. A delete and a restore write the ledger's row
anew and `isUserArchived` falls to its default. `StartCycle`,
`PushFailed`, `AnswerLost`, `PushAnswered`, `RecordAcks`, `RecordRejections`, `PullPage`,
`Merge`, `RecordPullWatermark` are `sync_engine_repository_impl.dart` and its retry
policy; `Append1` (`append_sync_audit_op`), `Project` (`applyEntityOp`) and `Unheard` the
handler; `HandlerDies`, `AnswerLost` and `CycleDies` the faults. `MergeEngine` has one
operator per verb of `merge_engine_local_ds.dart`; `ApplyOp` is a pass of its loop, and
`Merge` folds it over a page.

`SyncContract` says what the merchant relies on without a queue, a handler or a
cycle: the server takes an operation at most once and leaves it where it is; a device
lets go of an operation only if the server has it or the merchant is shown that it was
refused; what was refused the server never takes; and a device is given the log in order,
each entry once and none left out but what lies in an archived ledger.
| Contract | `SyncEngine` |
|---|---|
| `made` | `audit` |
| `log` | the operations of `log` |
| `settled` | what is in `audit` and not `Pending` |
| `refused` | what is in `audit` and has a conflict `rejectedByServer` |
| `place` | `Watermark` |
| `got` | `applied` |

`Append1` is `Take`, or a stutter if the id is logged already; `RecordAcks` and `RecordRejections` are `Settle`, a local write is
`Make`, `Merge` and `RecordPullWatermark` are each a `Deliver`; every other step is a stutter.

### 2.8 Abstractions
* `CallRail`, `CallDesk`, `ProposalCommit`, `EmailRail`: amounts, names, texts,
  telephone numbers and languages are left out: no property of theirs speaks of them.
* `EmailRail`: rows are prepared and visited in any order; the store never
  forgets within a request, since no later request has its batch id; the
  Hybrid E buttons, which no screen shows, and the PDF are left out.
* `AgentTools`: a name is a word of a few letters, of which the alefs may vary; an
  id is well formed, blank or malformed; texts count as blank or not.
* `CallOutcome`: one row; a number is its calling code; the settings of the server
  last as long as the call. What several rows, replicas and lost answers do is in
  `CallRail`.
* `CallRail`: the device's guard has already selected the contacts; a restart
  may change a replica's kill switch, as a deployment does.
* `CallDesk`: the e-mail rows of a desk share one status; local database writes
  succeed; the queue's rows complete with their dispatch; the poll
  time-out may come at any time. `SpareSender` bounds the sends.
* `SyncEngine`: a local write is one step, the read before its transaction included
  (`contact_repository_impl.dart:238`, a hazard); a pull of a page is one step. The value of
  a field is the number of the write that set it, the id of an operation the number of
  its write. Drift keeps whole seconds (`Stored`), the server's time is exact and grows
  with `op_seq`. Devices start with the same rows. Which operations the server refuses
  (`validateEntityDeltas`) is decided when they are made. Left out: who may sync
  (entitlement, tokens, roles, caps), the limits of 500 operations, 25 pages and 10
  scans, `ACTIVATE_ARCHIVED`, `CARRY_FORWARD`, malformed payloads, and
  `resolveConflict`, which no code calls.
* `ProposalCommit`: one customer, not yet in the books; no candidate picks; the
  closing ritual, the local ask path and the credit-limit prompt after a confirm
  are left out. A crash of the app is left out: it takes the cards away.

## 3. The runs

| Run | Instance | States | Shows |
|---|---|---|---|
| `CallRailOne` | 1 contact, 2 replicas, 1 confirm, 2 retries, 1 restart | 336 thousand | `TypeOK`, `OneCallPerAttempt`, `RetryOnlyUnanswered`, `RowShowsItsCall`; `ContractHolds` (refinement of `CallContract`); `RowsSettle` |
| `CallDesk` | 2 contacts, 1 confirm, 1 retry, 1 sender, 2 desks, 1 death | 757 thousand | `TypeOK`, `BatchClosesLast`, `CompletedIsClean`, `RunFiledOnce` |
| `CallDeskLive` | 1 contact, 2 confirms, 1 retry, 2 desks | 166 thousand | `PolledRunIsFiled` |
| `CallDeskConsent` | 1 contact, 1 confirm, 2 senders, 2 desks | violation | `SendNeedsConsent` fails |
| `ProposalCommit` | 1 contact card, 2 money cards, 3 taps, 1 fault, 1 new goal | 1.2 million | `TypeOK`, `TwiceOnlyAfterFailure`, `CommittedIsWritten`, `BusyHasOwner`; `ProposalContractHolds` (refinement of `ProposalContract`) |
| `ProposalTwice` | 1 contact card, 1 money card, 2 taps, 1 fault | violation | `MoneyOncePerProposal` fails |
| `EmailRail` | 3 contacts, 2 mailboxes, 2 taps, a cap of 2 | 475 thousand | `TypeOK`, `OneMailPerApproval`, `SentRowWasMailed`, `NothingLeftSending`, `SavedIsTheDesk`; `EmailContractHolds` (refinement of `EmailContract`) |
| `AgentServer` | see below | 380 thousand | `TypeOK`; `MoneyAsSpoken`, `IdNeedsUniqueName`, `DraftsReachTheNamed`; `SpokenAsComposed`, `TwinGatesAgree`, `OnlyAllowedCalls`, `PreviewAgrees`, `PromiseIsWhatWasSaid` |
| `SyncEngine` | edits and deletes of a transaction, 2 writes, 1 fault, a second of 2 ticks, fair | 133 thousand | `Converged`, `SlotIsReleased`, `QueueDrains` |
| `SyncFaults` | contact and ledger edited, deleted, restored, archived, a second transaction created; 2 writes, 1 fault, refusals, pushes and pulls apart | 979 thousand up to symmetry | `TypeOK`, `LoggedOnce`, `NothingSkipped`, `SettledIsKept`, `BalanceIsTheBooks`; `SyncContractHolds` (refinement of `SyncContract`) |
| `SyncDeleteEdit` | edits and deletes of a contact | violation | `Converged` fails |
| `SyncStuck` | 1 device: a contact and its transaction created within a second | violation | `QueueDrains` fails |

*Why the bounds are enough.* Two replicas and one restart give every case of
the store: present, on the other replica, lost. A second retry tap meets rows that
are already retried. More contacts, replicas and restarts are in the proofs.
Two contacts on the desk make a response partial. Two desks
are one that an old flow outlives and one that it meets. Three taps are a
double tap and a Skip, or a confirm inside a bundle and a repetition. One fault at each
place is enough, as every write has its own action. In `EmailRail` three
contacts with two mailboxes have two that share one, two taps are the two that
pass the check before the token, and a cap of two is met and exceeded. The proofs
remove the bounds of both rails, of `CallDesk` and of `ProposalCommit`.

The sync runs have two devices (where the table does not say otherwise), one ledger,
one contact and one transaction, pages of one operation and two attempts of a push. Two
devices are the two sides of every conflict; a third only repeats one. One row of each
kind gives each cascade. Pages of one put a page's end between any two operations,
which is where a watermark can go wrong. Two writes are every pair of an edit and
a delete that cross each other, within one second or not, and one fault meets each of
their steps. `Converged` is checked in `SyncEngine` with the operations for which the
code keeps it, edits and deletes of transactions, and fails for a contact that is
deleted (`SyncDeleteEdit`). It does not hold either with a clock that is ahead
or, when a row may be created and edited within one second, with creates in the menu:
the queue may then push the edit first. `SyncMergeProofs` proves it for what is left (section 5).
`SyncFaults` starts pushes and pulls as
cycles of their own, so that anything may come between them; a full cycle is a push and
a pull in one slot, which `SyncEngine` has. Everything `SyncFaults` checks is proved
without any bound. What `SyncContractHolds` adds to the invariants beside it is about steps: the
log only grows, what is settled or refused stays so, a watermark never goes back, and nothing
merged is merged again.

*What `AgentServer` tries.* Amounts: every number up to 120, the boundaries of
hundreds and thousands, some larger ones, in digits, with a scale, with a currency, in
English and in Arabic words, with and without a year beside them, in a currency with two
decimals and in one without; goals with two customers whose names begin alike or
contain each other, with the amounts behind the names; and for each the right amount,
the slips of a model by a factor of the currency, and a wrong one. Names: three
hints, of which any two may be namesakes. Desks: seven numbers (five
countries, one that no rule knows, one that is no number), do-not-call, and every pair of
configurations with the kill switch, the allowlist and two regions; and, with everyone
allowed, one number of each calling code that either side's table has. Results: 960, at
the desks with one number only (the constraint `Apart`: no gate reads a
result), and one good result at the others.

*Symmetry* permutes contacts (or taps and money cards, in `SyncFaults` the devices) and is used
only where a run has no temporal property other than an action property. The ranks of two
devices differ, but `SyncFaults` never asks for them: no clock is skewed and a second is one tick, so two
operations never compete with one stamp. The run has the same states when the rank decides
for the one device, for the other, or not at all.

*Deadlock* is not checked: the taps are bounded, and a merchant who has tapped
everything leaves the system at rest.

*`RowsSettle` has `Allowlisted = Contacts`.* A contact that the plan rejects has no
result in the run response, so its row stays planned (a hazard in `PROJECT.json`).
The device's guard applies the same allowlist, and the two are kept equal by hand.

## 4. Fairness

* `CallRail`: a completed `await` resumes (`ConfirmHydrated`, `RetryHydrated`,
  `HydrateFails`), a request is answered or times out (`RecvPlan`, `RecvRun`,
  `GiveUp`: the HTTP client has a time-out), and a row that is polled ends
  (`CallEnds`: the loop has a time-out). Nothing is assumed of the merchant, of
  the replicas or of CALL-E.
* `CallDesk`: weak fairness of each flow's `PollStep` only: timers fire, local
  transactions commit, and a GET that never ends a call meets the poll time-out.
  Taps, networks and sends are not fair.
* `EmailRail` and `AgentServer` have safety properties only: a dispatch waits for
  a time-out that the client sets, and a merchant need not tap again.
* `SyncEngine` (`FairSpec`): weak fairness of the server's steps and of each device's
  next step, which is one of its cycle or, when it is idle, the start of a full one. A request is answered, fails or times out, and
  the app starts cycles on resume, on reconnect, on a wake-up and by Sync Now. What is
  lost or dies is bounded by `MaxFaults` and not fair.
* `ProposalCommit` has no liveness property; `BusyHasOwner` says instead that
  whoever must release a key is still running.

## 5. What is proved

`CallRailProofs` and `CallRailContractProofs`, for any sets of contacts, replicas
and taps and any number of restarts. Assumptions: those of `CallRail` (the two
kinds of taps are disjoint, `None` is no tap, the allowlist is within the
contacts, the restart bound is a natural number).

1. **`Invariance`, `TypeCorrect`.** `IInv` is `TypeOK`, `BatchKnown` (whatever
   is planned belongs to a batch a confirm drew) and `RunsPlaced` (every run in a
   store, a result or a row is a placed call to that contact). Types alone are not
   inductive: a retry reads `batch`, which is `None` until a confirm.
2. **`RingsOncePerAttempt`** (`OneCallPerAttempt`). It is inductive as it
   stands and needs no part of `IInv`: `Accept` places a call only where no call
   has its key. That is the point: the guarantee rests on CALL-E's key alone, whatever
   the replicas forgot.
3. **`RowsShowPlacedCalls`.** A row that names a run names a placed call.
4. **`RetriesOnlyUnanswered`, `RowsShowTheirCall`, `RailImplementsContract`.**
   These have the hypothesis `OneConfirm`: the desk has one Confirm & Call. It is
   what the code intends by `callConsented`, and it is needed: with two confirms
   the rows may mix two batches, and a retry
   under one may follow an unanswered call of the other. `JInv` adds to `IInv`:
   attempts agree with the kind of tap, a retry wants only unanswered contacts,
   handles and results stay within what was asked, rows and results tell the call
   of their attempt, and the taps take turns. The refinement then maps `Accept` to
   `Place` or `Redial`, `CallEnds` to `HangUp` or a stutter, and every
   other action to a stutter.

`EmailRailProofs`, for any finite set of contacts, any mailboxes and taps and any
cap, proves every property of run `EmailRail`. Assumption: `EmailAssumption` (the
contacts are a finite set without `None`, the cap is a natural number). The
invariants are proved one after another:

1. **`EmailTypes`.** `TypeOK` is inductive.
2. **`OneMail`** (`OneMailPerApproval`). `HandlerOK`: a tap that has not sent its
   request has no handler, a conversation needs an open handler and a
   recipient the loop has left behind. `MailedOnce` adds that a mailed recipient is
   behind the loop and its conversation past the DATA. Without the last part the
   fallback to 465 is not excluded: it needs a conversation before the login.
3. **`NoneAfterRejection`** (`NoMailAfterRejection`, in the run a part of the contract). `HaltOK`: what needs a human is
   halted and has no conversation open.
4. **`SentIsMailed`** (`SentRowWasMailed`). `SentOK` follows the word "sent" from
   the conversation through the store and the results list to the rows of a dispatch
   and of the desk. Mails are never taken back (`MailsStay`), so each link lasts.
5. **`NothingSpins`** (`NothingLeftSending`). `SpinOK`: a spinning row belongs to a
   dispatch that is under way. With two dispatches at once the flag may be off while
   one goes on; the invariant holds although the flag is not a lock.
6. **`QueueIsTheDesk`** (`SavedIsTheDesk`) is inductive as it stands.
7. **`EmailImplementsContract`** (`EmailContractHolds`), by refinement. `AskOK` adds that
   whatever a tap prepares, asks for, mails or has mailed is among the rows of its approval, and
   `ToldOK` that "sent" in a dispatch means that the dispatch is over and that a sent row of the
   desk comes from one. With these `DeviceTells` shows every step of a dispatch to be one `Tell`: a
   new "sent" has its mail by `SentOK`, and a row that ceases to be sent came from a
   tap that is done, so it is not the tap that moves. `ServerMails` uses `MailedOnce` and
   `HaltOK` where the contract asks that a mail be the first and the approval not halted.

`SyncEngineProofs`, for any devices, books, clocks, page size, attempts, writes and
faults. Assumptions: `MergeAssumption` (a finite set of rows of three disjoint kinds, each
under its parent; devices have distinct ranks) and `SyncAssumption` (the ranges of the
bounds). One invariant, `IInv`, serves three theorems, since each of the properties leans on
the parts before it:

1. **`LoggedOnceCorrect`.** `QueueOK` (ids are new and belong to one device), `LogOK` (an
   entry's `seq` is its place in the log) and `WorkOK` (handlers and cycles
   work on operations that were made). An append probes for the id in the same
   statement, so a second handler with the same batch does no harm.
2. **`SettledIsKeptCorrect`.** `PushOK`: a cycle that pushes listens to one handler, and
   whatever that handler has left behind is logged. So an answer that arrives
   acknowledges logged operations only, whichever earlier attempts still run.
3. **`NothingSkippedCorrect`.** `InboxOK` (what is merged is in the log, cursors lie
   within it), `MirrorOK` (an archived ledger was archived by an operation) and
   `PullOK`: up to the end of the page at hand every entry is merged, on the page or
   withheld. `PullOK` is what makes a death between merge and cursor harmless.

None of this depends on what a merge does to the rows.

`SyncMergeProofs`, under the same assumptions, proves what it does to them:

4. **`BalanceCorrect`** (`BalanceIsTheBooks`). A stored balance is recomputed only for the
   contacts that a write or a merge names as affected; the theorem is that no cascade, no
   conflict rule and no revival changes the books of a contact it does not name. For one entry that
   is `Follows(s, r)`: whose books differ between `s` and `r` is among the
   affected of `r`. There is a lemma for each verb of the merge engine
   (`CreateFollows`, `UpdateFollows`, `DeleteFollows`, `RestoreFollows`,
   `ArchiveFollows`). A page is a fold of them; `MergedInSteps` gives the fold as a sequence of
   states, and `PageFollows` looks at the least step that would break `Follows`, which takes the
   place of an induction. `BooksInv` adds to `IInv` what the merge lemmas ask for: rows,
   operations and clocks of their types. Without it the stamp of a delete, the
   maximum over the rows it takes, need not be a number, and a restore finds nothing by it.
5. **`TypeCorrect`** (`TypeOK`). The same invariant, whose parts are the types
   of the rows, the conflicts and the attempts.
6. **`ConvergedCorrect`** (`Converged`), for any devices, books, pages, seconds, lost answers and
   deaths, under the hypothesis `EditsAndDeletes`: merchants update rows and delete transactions,
   the server refuses nothing, and no device's clock is ahead of the server's. Each part is
   needed: the runs and section 6 show the property fail with a contact that is deleted, with
   creates, with restores and with a fast clock. `SyncEngine` is an instance of it.
   `HistoryOK`: an operation was made before the server logged it, and entries are logged one
   after the other. `TablesOK` speaks of each row of each device. While one of the
   device's own operations on the row has not come back in a merge, nothing is claimed but that
   the row's stamp comes from an entry or an own operation. As soon as all of them are back,
   the row is as the last merged entry for it has it: `InTime` shows that its stamp is then older
   than the next entry, so the merge's comparison of times lets that entry win
   (`EntrySettles`), and `NothingSkippedCorrect` that the next entry merged comes after all
   others (`EditMerge`). When all is pushed and pulled, every device has the whole log and no own
   operation is outstanding, so every row is as the last entry for it has it.

7. **`SyncImplementsContract`** (`SyncContractHolds`), by refinement, with no hypothesis beyond the
   two assumptions. `IInv` knows what is logged and what is settled; it does not know that a
   refusal is final. `PromiseInv` adds that: no handler works on and no log holds an operation that
   the server refuses (`RefusalOK`), and a device shows as refused only such operations of its
   own, pushes only its own and has on its page only what lies behind its watermark (`OwnOK`).
   The last is why an entry is given once: with it `Delivered` turns a merge, and the storing of
   a cursor, into one `Deliver`, and `PullOK` tells it that what is left out was withheld. A merge
   must not write a refusal, so `PageMerges` follows the conflicts through the fold of a page.
   There is a lemma for each kind of step (`PromiseWrite`, `PromiseAppend`, `PromiseAnswer`,
   `PromiseMerge`, `PromiseMark`, `PromiseCycle`, `PromiseHandler`), each of which shows both
   that `PromiseInv` stays and which step of the contract it is.

`CallDeskProofs`, for any contacts, taps, sends, desks and deaths of the app. Assumptions:
confirms and retries are disjoint, `None` is neither of them nor a contact, at least one
desk may be opened.

1. **`TypeCorrect`**. `TypeOK` is not inductive alone: `SavedOK` says that a retry on its way
   has rows to put back, `SendOK` that a send under way knows its desk.
2. **`RunFiledOnceCorrect`**. `RunsOK` relates a poll loop to the tables: whatever it still
   polls, and the run whose write is under way, is open in Drift; before its save it has no run there. So a
   drain at the time-out and a late answer never meet a filed run, even when the desk is
   another by then. It is an action property, proved of each step from `RunsOK`.
3. **`BatchClosesLastCorrect`, `CompletedIsCleanCorrect`**. The two are inductive together on top
   of `RunsOK`. A save reopens the batch it joins, and `RunsStayInBatch` says that no
   run that is saved changes its batch; so the count that closes a batch is not stale.

`ProposalCommitProofs`, for any money cards, taps, failures and goals. Assumptions: money
and contact cards are disjoint, there is one contact card at most, `None` and the turn's id are no
cards. The invariant is `TypeOK`, `GateInv` and `BooksInv`, which need each other:

1. **`GateCorrect`, `BusyHasOwnerCorrect`**. `SingleFlight`: a confirm under way holds its card in
   `AgentConfirmGate` and no other one is about that card. `GateHasOwner`: a card is locked only by
   a confirm under way.
2. **`CommittedIsWrittenCorrect`**. A handler that has passed its transaction has written
   (`FlowShape`), whoever else has tapped meanwhile; the theorem covers the stored turn as
   well as the card on the screen.
3. **`TwiceOnlyAfterFailureCorrect`**. `SalesOK`: a sale in the books has a turn that is confirmed
   or about to be, or one of the two excuses: its confirm reported failure, or Skip was tapped on
   the card. Run `ProposalTwice` shows that the first excuse happens, and this theorem that
   nothing but the two does it. `SingleFlight` is what keeps a
   second writer out between the sale and the mark.
4. **`ProposalImplementsContract`** (`ProposalContractHolds`), by refinement. It says more than 3:
   the excuse comes before the second sale, not after it (`RecordAgain`). `SaleTaps`
   adds to the invariant that a sale comes from a tap of Confirm, and `MarksOf` follows the reported
   failures and the Skips through a step. The lemmas of effects that the invariants rest on
   (`StepEffects`) then give one step of the contract for each.

`AgentServerProofs`, for any desks, results and requests. Assumptions: `DesksAssumption`
(switches are Booleans, the interface is Arabic or English, results are records of the
schema) and `RequestsAssumption` (what is called a list is one).

1. **`TwinGatesAgreeCorrect`, `OnlyAllowedCallsCorrect`, `SpokenAsComposedCorrect`,
   `PreviewAgreesCorrect`**. `CallInv` says that a plan is what the device makes of the desk, and
   that a created call has passed both of the server's gates for it; the rest is about the rule
   tables, for every number, region and allowlist (`GatePasses`: a gate lets pass exactly what
   passes each of its checks). The two sides have tables of their own, so that
`TwinGatesAgreeCorrect` rests on `TablesAgree`, that these say the same today, and on
`TwinRegionGates`, that the region checks over them then do. `PreviewAgreesCorrect` has a hypothesis,
   `NanpConfigured`: the server's region for +1 numbers is the United States or Canada, as its
   default and its documentation have it. The code does not enforce it, and with another value
   the preview refuses what the server calls (section 6).
2. **`PromiseIsWhatWasSaidCorrect`**. `ReportInv`: a report has a result only when the call is over,
   and what is filed is what the device makes of the last report. The rest is that the server's
   mapping and the device's reading together keep amount, currency and date.
3. **`IdNeedsUniqueNameCorrect`, `DraftsReachTheNamedCorrect`**. `ToolsInv`: an answer is what
   its tool makes of the call. `ResolvedIsUnique` is the point: an id comes from a name only when
   the matches of that name have one id.

Only model-checked:

* liveness (`RowsSettle`, `PolledRunIsFiled`, `SlotIsReleased`, `QueueDrains`), which is out of the
  prover's reach;
* `MoneyAsSpoken`: it speaks of goals that follow a grammar, which is in `MCAgentServer`, and of
  folds over their words, an induction over data;
* `TypeOK` of `AgentServer`, whose amounts come out of the same folds. What its
  properties need of types is in `CallInv` and `ToolsInv`.

## 6. What the runs found

Four runs end in a violation, each of a sentence that the repository itself says.
The traces are what TLC prints for the run.

* **A send on another desk** (`CallDeskConsent`). `pendingSendAfterCall` outlives
  its desk. `docs/roadmap_v3.md:234` says that nothing is sent silently.
* **A sale recorded twice** (`ProposalTwice`). The money is written, the journal or
  the turn fails, and the second Confirm writes it again. `agent/README.md:195`
  calls the proposal id an idempotency key.
* **A delete crosses an edit** (`SyncDeleteEdit`). The deleter ignores the echo of its delete and
  then revives the contact for the edit, without its transactions; the editor keeps contact and
  transactions. `test/data/merge_engine_hardening_test.dart:138` says that two devices must
  reach identical state.
* **A queue that never drains** (`SyncStuck`). A contact and its transaction of one second
  may be pushed child first; the projection breaks a foreign key, and so does every
  later push. `push-sync-ops/index.ts:12` says that one operation does not abort the batch.

Behaviour the models have and no run singles out. The first four are in the calls and
the proposals, the others in the sync, whose *roadmap* is
`docs/archive/product_roadmap_phase2_v3.6.md`. Most are hazards in `PROJECT.json`.

* *Two taps, two batches.* `confirmAndCall` reads `callConsented`, awaits the token and sets
  it after: two taps may ring a contact twice. `docs/project_log.md:4761` says that the flag
  blocks a double confirm.
* *A saved run nobody files.* A loop that loses the epoch in its initial delay returns
  without filing; `docs/project_log.md:4697` says that the epoch guards the screen only.
* *A turn's id threaded as a contact.* A contact card that is already confirmed returns its
  turn's id, which the bundle hands on (comment at ctl:466).
* *A fraction that no human sees.* The server drops a promised amount with a fraction and
  asks for a human; the device does not read that of a completed call
  (`docs/roadmap_v3.md:702`).
* *A fast clock wins.* A local write stamps its row with the device's clock, and the merge
  compares the server's time with that stamp: a device that is ahead rejects newer edits.
  *roadmap*:1582 calls the order clock-skew safe.
* *One of two edits is lost.* An update carries every field; *roadmap*:1583 says that
  edits of different fields both succeed.
* *A sale behind the cursor.* What is pushed into an archived ledger is withheld and passed
  by the cursors; after the unarchiving nothing sends it again. *roadmap*:1579 says that no
  transaction may be lost.
* *A restore that forgets.* A transaction is deleted and restored on one device and edited on
  another before that. The restore stamps the row later than the server logged the edit, which
  therefore loses there; the editor keeps its edit, since the merge of a restore revives the row
  and takes no value from the payload. The devices end with different values.
* *A conflict with oneself.* The echo of a create no longer matches the row that was edited
  since, and is filed as ambiguous; *roadmap*:1590 says what conflicts are for.
* *A restore without its transactions.* The echoes of an edit and a delete re-stamp the
  contact, not its transactions, and a restore then finds none by the stamp
  (comment at `merge_engine_local_ds.dart:597`).
* *An archived ledger comes back open.* Deleted and restored, it is no longer archived on the
  device that did it; the others, who merge a DELETE and a RESTORE, keep the flag.
* A change of `doNotCall` or `avatarColor` alone stays on its device: neither is in the payload of
  a contact's update (`contact_repository_impl.dart:270-277`), and `Fields` are the fields that are.
* Digits before the spelling of hundred with alef and ha are read as 100, whatever they say: the
  spelling is in the word table (`proposal.py:168`) but not in the pattern for digits with a scale
  (60-62), on the device likewise.
* An amount said before its name is read for the next customer; an allowlist region outside
  the North American plan is accepted by the server and refused by the preview script; a
  call whose task is done but which is still under way ends the poll.

## 7. Plan

Done since the first version: `EmailRail`, the agent tools, the gates
and the outcome of a call, the sync of the books, and the proofs of every module.
`CallRailTwo`, a run with two contacts, was dropped:
its three properties are theorems, and run `CallRailOne` checks them. Runs that
only repeated a known finding were dropped as well, to keep one run per question. Next, in this order:

1. The merchant's resolution of a promise beside the terminal write.
2. The read before the transaction of a local write (`contact_repository_impl.dart:238`)
   as a step of its own in `SyncEngine`.
3. The backup queue and its flight lock.

## 8. Not modelled, and why

* Of the ledger core: carry-forward, the free tier's archive and its promotion, reports
  and search; of the sync: see 2.8.
* Backup and auto-backup: see the plan.
* Auth and session, invites and deep links, screens: see 1.11.
* `agent/scripts/` and `tool/`: smoke tests and generators that call the modelled
  endpoints or draw icons; they keep no state.
* `agent/email_send` MIME assembly and PDF screening, `agent/calls` task text: texts
  and bytes that no property speaks of.
