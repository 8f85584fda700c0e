# Verification of the Distribution Engine

TLA+ models of the referral pipeline of the Distribution Engine, of the
settlement and sponsor funding behind it, and of the campaigns and people of
the referral SaaS that runs on it, model-checked with TLC on small instances
and proved with TLAPS where a theorem is in its reach. Paths below are relative to the repository root.

## 1. The system

A referral is one row of `referral_instances`. Source systems report progress
facts about it; workers apply them to the row under the rules of its journey;
the delivery that completes the row issues base rewards, each of which asks
for a fulfilment; fulfilment reserves and settles money. Settlement batches
what was fulfilled for approval and payment. Beside this pipeline the referral
SaaS lets a customer's administrators set up campaigns and invite people; a
command there is one HTTP request that reads rows, decides, and writes.

```
 API /v1/progress --> referral_progress_events --+
 (progress_service)                              |   SQS      POST /worker/referral-events
                                                 +--------->  journey_orchestrator
 IDS connector ----> enterprise_event_inbox -----+              |  row UPDATE + audit
 (ids_consumer)      ^ replay_enterprise_event                  |  base rewards --> rewards
                                                                |  REWARD_FULFILMENT_REQUESTED
 replay_service: rebuilds the row from                          v
 referral_progress_events                         failed events -> DLQ -> replay_dlq_event
```

### Inventory

| Component | State it keeps | Operations | What makes it correct |
|---|---|---|---|
| Journey rules (`services/journey_definitions.py`, pure part of `journey_orchestrator.py`) | none | classify, apply, derive milestone and completion | a row never skips a milestone or goes back; replay and live handling agree |
| Progress intake (`progress_service.py`, `utils/queue.py`) | `referral_progress_events` | record once per dedupe key, enqueue | a fact is recorded once and handled |
| IDS connector and inbox (`apps/Workers/ids_consumer.py`, `enterprise_event_inbox_service.py`) | `enterprise_event_inbox` | ingest once, route, enqueue, replay | the same |
| Worker and orchestrator (`apps/api/routers/worker.py`, `journey_orchestrator.py`) | `referral_instances`, `referral_processing_audit` | one delivery: load, classify, update, audit, reward, answer | redelivery and overlap are harmless; every message leaves a trace |
| Base rewards (`reward_service.py`) | `rewards` | insert under `uq_rewards_base`, request fulfilment | paid once, only for a completed journey, and paid at all |
| Rebuild (`replay_service.py`) | the same row | read facts, fold, write | reproduces the row |
| DLQ (`dlq_service.py`, `dlq_replay_service.py`) | dead letter queue | publish, replay | failed events are kept |
| Database pool (`utils/db.py`) | at most 20 connections | acquire, release | no wait that never ends |
| Funding (`funding_service.py`, `services/funding/`) | wallets, reservations | reserve, release, settle | no money held twice, released after settlement or left without a reservation |
| Fulfilment (`services/fulfilment/`, `fulfilment_*_service.py`) | `fulfilment_audit`, circuit breakers | fulfil, fail, retry, replay | a reward is delivered and settled once; a retry really retries |
| Settlement (`services/fulfilment/settlement/`) | batches, items, approvals, reversals, ledger rows, periods | create, add, submit, request, approve, reject, execute, reverse, mark a row, open and close a period | nothing settles twice or unapproved, totals count the items, an execution reverses only what was approved |
| Sponsor wallets (`services/marketplace_funding/sponsor_*`) | wallet balances, ledger, allocations | top up, reserve, release, debit, reverse | never overdrawn, ledger explains the balances, no allocation without its ledger rows |
| SaaS campaigns (`referral_saas_campaign_service.py`) | `marketing_campaigns` (one attributes document each), policies, programme versions | bind, override, set policy, submit, decide, launch, pause, resume, end, archive | active only when approved by another than the submitter; an ended campaign is not used again |
| SaaS people and access (`referral_saas_account_membership_service.py`, seats of the account foundation) | memberships, acceptance links, seats | invite, mail, issue link, edit, cancel, accept, activate, seat, log in | a cancelled person stays out; seats and roles agree with what was decided |
| Referral codes (`referral_code.py`) | codes, the row's identity columns | validate (creates the row), capture UCN | one row per referral, no self-referral |
| Polling worker, failure governance | failure records | poll, retry, record | a failure is recorded |
| Sponsor contracts and billing; missions, badges, leaderboard; webhooks; distribution; outcomes; onboarding; SaaS journeys, programme drafts, support, integrations, reporting; privacy; HTTP; frontend; operations | see `PROJECT.json` and section 5 | | |

What is hard in it: SQS delivers at least once and unordered; a worker reads
the row without a lock and writes it back whole; audits, rewards and sends
happen on other connections or after the commit; a process may stop between
any two awaits; a rebuild runs beside the workers. In settlement and sponsor
funding every statement commits by itself, and in the SaaS services a command
decides on rows it has read before its transaction. `PROJECT.json` lists each
of these hazards at its line, with the properties aimed at it.

## 2. Modules

| Module | Models | Kind |
|---|---|---|
| `JourneyRules` | the journeys and the transition rules as operators | pure |
| `JourneyReplay` | one referral whose events are handled one at a time, against a replay of them | state machine |
| `ReferralProgress` | one referral, its facts, queue, deliveries, rewards, DLQ, rebuild | state machine |
| `DeliveryPool` | connections and row locks of concurrent deliveries | state machine |
| `RewardFulfilment` | the requests to fulfil rewards: audit rows, funding account, reservations, provider, retry, operator's replay | state machine |
| `BatchLifecycle` | what settlement promises of a batch | abstract specification |
| `Settlement` | batches, approval requests, reversals and ledger rows under overlapping calls; implements `BatchLifecycle` | state machine |
| `SponsorWallet` | a sponsor's balances, ledger and allocations under overlapping calls | state machine |
| `SaaSCampaign` | one campaign, its policy and its programme versions under overlapping commands | state machine |
| `SaaSMembership` | one person's memberships, links and seats under overlapping commands | state machine |
| `JourneyRulesProofs` | theorems about `JourneyRules` and `JourneyReplay` | proofs |
| `ReferralProgressProofs` | theorems about `ReferralProgress` and `DeliveryPool` | proofs |
| `*Proofs` of `RewardFulfilment`, `Settlement`, `SponsorWallet`, `SaaSCampaign`, `SaaSMembership` | theorems about each | proofs |
| `SumTheorems` | sums of integers over a finite set: type, zero, one value changed, monotony | lemmas |
| `MC*` | TLC instances | model checking |

`JourneyReplay` and `ReferralProgress` extend `JourneyRules`; `Settlement`
instantiates `BatchLifecycle` with a refinement mapping. The other components
meet only through rows the modelled operations of the next one merely read, so
they are checked apart. Definitions whose name ends in `Mutant` are altered
copies used to test that a property can fail; no specification uses them.

### JourneyRules

An instance of the row is its `status`, the set `marks` of events whose
timestamp column is not NULL, and `complete`. The rules only ask whether a
timestamp is NULL, so the times are left out; so are the displayed progress,
the platform status and `completed_at`, which the rules derive and never read.
`Classify`, `Marked`, `Milestone`, `Completed` are the functions of
`journey_orchestrator.py` in the order of their returns: several conditions of
`_classify_transition` may hold of one event, and the first decides. `Persisted` keeps
only the columns the UPDATE lists: all of the banking and insurance journeys'
(`Persistent`), none of the retail journey's; `Defined` is all three. Migrations
016 and 017 allow in `referral_instances.status` and
`referral_progress_events.event_type` only the banking statuses and events,
COMPLETED and CANCELLED, so under the repository's own schema the UPDATE of an
insurance or retail referral between its start and its completion fails. That
failure is not modelled: on these two journeys the results say what the rules
in the code do where the database can store the statuses. `Normalized` is
`EVENT_TYPE_MAPPING`, `Routed` the renaming of `ids_consumer.py`.

### ReferralProgress

The rows of two referrals never meet, so one row is modelled. A step is one
committed transaction, or one local decision, of one actor:

| Code | Action |
|---|---|
| `handle_progress_event`: INSERT, then `enqueue_event` | `Record`, `Enqueue`, `LoseSend` |
| `ingest_event`; `replay_enterprise_event` | `Ingest`, `Enqueue`, `LoseSend`; `ReplayInbox` |
| delivery starts: `_load_referral_instance`, no FOR UPDATE | `Receive`, `ReplayDlq` (through `Load`) |
| ignored: duplicate, backward, out of order, invalid, self-referral | `Ignore` |
| UPDATE (takes the row lock) and the PROCESSED audit on its own connection | `Update` |
| the transaction commits | `Commit` |
| `apply_reward`: INSERT ON CONFLICT, then the fulfilment request | `InsertReward`, `PublishRequest` |
| exception while rewarding, swallowed | `AbandonRewards` |
| exception before the commit: rollback, FAILED audit, DLQ, answer 200 | `Fail` |
| answer 200, sqsd deletes the message | `Acknowledge` |
| process stops | `Crash` |
| `rebuild_referral_instance(dry_run=False)` | `RebuildLoad`, `RebuildCommit`, `RebuildAbort` |

A delivery holds its own image of the row (`before`) from the load on; that is
where overlaps go wrong. `recorded` is kept in `occurred_at` order, the order
a rebuild reads; as `occurred_at` is taken when the API call starts, a fact
may be inserted before others (`MaxLate` bounds before how many). IDS facts
(`Inbound`) go to `inbox` and never to `recorded`, as in the code. Whether a
fact whose payload names the referrer is refused depends on the referee the
row already has, which is not modelled: both verdicts are possible.

Not in this model: badges, missions and the leaderboard, which run after the
rewards and only read; the branches of the worker route for other event types;
`capture_referee_ucn` and the privacy erasure, which write columns the model
leaves out; the handler's early return for a missing row (rows are not
deleted).

### DeliveryPool

A delivery holds the connection of its transaction and takes a second one for
the audit before it commits (`write_processing_audit` uses the pool), so what
matters is the order in which connections and row locks are taken. Rows and
facts are left out: whether an event is valid is a choice. Issuing rewards
takes one connection at a time while none is held, like `arrived` to `open`,
and adds no new way to wait.

### RewardFulfilment

It begins where `ReferralProgress` ends: each reward applied there has put one
REWARD_FULFILMENT_REQUESTED message on the queue. `fulfil_reward`
(`services/fulfilment/service.py`) opens a transaction per statement group, so
each is a step, and `step[w]` says which one worker `w` is at:

| Code | Action |
|---|---|
| message delivered; SQS may deliver it again | `Take` |
| look up the audit row by idempotency key: skip, or create one, or lose the race to the UNIQUE index | `Skip`, `Check`, `Create`, `CreateRefused` |
| `mark_fulfilment_processing` | `MarkProcessing` |
| `reserve_reward_funding`: existing reservation or exceeded limit (result ignored), no account with the balance (raises), balance moved, reservation inserted | `ReserveSkipped`, `ReserveRefused`, `ReserveFunds`, `InsertReservation` |
| the provider is asked; audit SUCCESS | `Pay`, `MarkSuccess` |
| `settle_reward_funding`: balance, then reservation; then `record_pending_settlement` raises | `SettleFunds`, `SettleRefused`, `MarkSettled` |
| `except`: `release_reward_funding`, its exceptions swallowed | `ReleaseFunds`, `ReleaseRefused`, `MarkReleased` |
| attempt counted, retry scheduled, audit marked failed, DLQ when final, exception raised again | `CountAttempt`, `ScheduleRetry`, `MarkFailed` |
| worker route: the exception goes to the DLQ, answer 200 | `Park` |
| `replay_failed_fulfilment`: reads a failed audit row, later marks it PENDING and publishes | `ReadForReplay`, `Replay` |
| a statement fails, or no provider can be routed to; the process stops | `Raise`, `Crash` |

A reward has two idempotency keys: the key of its own request names the
milestone, that of a replay names none (`KeyOf`, `ReplayKeyOf`), because the
replay's payload has no `milestone_code`; a replay also carries the value 0.
That the keys of different rewards may coincide is the code's (a mission bonus
and a replayed base reward of the same beneficiary), so `FulfilmentAssumption`
does not forbid it.

What the code makes simple, and the model therefore leaves out: no code calls
`credit_account` or `debit_account`, so the account only changes here; no code
writes `funding_exposure`, so a limit is compared with one amount; the sponsor
branch needs a `sponsor_code` that `fulfil_reward` never passes;
`replay_dlq_event` refuses fulfilment events. The provider
stubs never fail: an exception of one is a `Raise` like another. The circuit
breaker and the choice of a provider are only seen as a `Raise` before the
hold. `record_pending_settlement` casts the reward's id, a BIGSERIAL, to a
UUID column and always raises; the model follows the code there, so every
delivery that settles ends in the handler.

### BatchLifecycle and Settlement

`BatchLifecycle` is the promise: a batch goes DRAFT, READY_FOR_APPROVAL,
APPROVED, PROCESSING, SETTLED, may be sent back from approval, and its items
are settled once, while it is processed. `Settlement` is the code: no function
of `services/fulfilment/settlement/` opens a transaction, so each statement
commits, and a call is a sequence of steps. `call[c]` says which operation call
`c` performs (`op`), on which row (`on`) and how far it is (`at`):

| Code | Action |
|---|---|
| a call starts and reads its row | `CreateBatch`, `ReadBatch`, `ReadApproval`, `CreateReversal`, `ReadReversal` |
| `create_settlement_batch` | `InsertBatch` |
| `add_settlement_to_batch`: INSERT, then the totals | `InsertItem`, `RaiseTotal` |
| `submit_batch_for_approval`, `approve_batch`: one guarded UPDATE | `SubmitBatch`, `ApproveBatch` |
| `execute_batch`: claim, settle the items, close | `ClaimBatch`, `SettleItems`, `CloseBatch` |
| `request_batch_approval`: look for a pending request, insert one | `FindPending`, `InsertApproval` |
| `approve_batch_request`, `reject_batch_request`: the request, then the batch | `GrantRequest`, `ApproveRequested`; `RejectRequest`, `RejectRequested` |
| `create_`, `approve_`, `execute_settlement_reversal` | `InsertReversal`; `ApproveReversal`; `ReverseRow`, `CloseReversal` |
| `update_settlement_status` and the `mark_...` functions around it: one unguarded UPDATE of a ledger row | `UpdateStatus` |
| process stops, statement fails | `Die` |

The statuses and counts are kept, the amounts are not: a total is a count like
`total_count`. `lost`, `overlapped` and `undone` are history the properties
refer to. Left out: exports, reconciliation, listings, and settlement periods.
`settlement_batches` has no `period_id` column in any migration (055 dates the
ledger only), so `_has_batch_period_id` is false and every operation on a batch
or an approval skips the period's check; `create_settlement_batch` checks a
period it is given and does not store it; no caller dates a ledger row. That
"Closed periods block modifications in service logic."
(`docs/sa/LIVE_CRITICAL_STATE_INVENTORY.md:67`) therefore holds of no batch or
row that exists.

### SponsorWallet

`sponsor_funding_service` reads the allocation of a reward, calls
`sponsor_wallet_balance_service`, and then writes the allocation; the balance
service reads the wallet, computes both balances and writes them back as
absolute values, and a ledger row follows. Each is a commit: `TopUp`,
`ReadAllocation`, `ReadWallet`, `WriteWallet`, `RecordTopup` and
`RecordTransaction`, `InsertAllocation` and `UpdateAllocation`,
`ReverseAllocation`, `Die`. `seen` is the pair of balances a call has read.
`raced` records that a balance was written over a change its writer had not
read, `torn` the rewards on which two calls met or one died, `unrecorded` the
changes whose call died before its ledger row; lost updates do happen, and the
properties say what remains true in spite of them: `Solvent` and the first half
of `StepsRecorded` always, `LedgerExplains` up to the first lost update, the
second half of `StepsRecorded` of rewards that are not torn.

`get_allocation_by_reward` answers None for an id that is not a UUID, and
`create_allocation` then fails on its UUID column, after the money was held.
`rewards.id` is a BIGSERIAL, so `Uuids`, the rewards whose id is a UUID, is a
constant: a reward outside it can be reserved again and again, and never
released or debited. `TopUp` models `topup_wallet`; the route that is meant to
call it (`apps/api/routers/marketplace_funding/sponsor_wallets.py:66-79`) leaves
out the required `tenant_code`, so that such a request raises TypeError; the
balance is what calls of the function itself pay in, as its tests make them.

### SaaSCampaign

A command of `referral_saas_campaign_service` reads the campaign's row, its
policy and its programme version without a transaction, decides, and then
writes the whole `attributes` document back. `call[c].next` is the document it
is about to write; the two halves are `Bind`/`WriteBinding`,
`RecordOverride`/`WriteOverride`, `StartPolicy`/`CommitPolicy`,
`SubmitReview`/`WriteReview`, `DecideReview`/`WriteDecision`,
`Activate`/`WriteActivation`, `LifecycleCommand`/`WriteLifecycle`;
`PublishVersion` and `RetireVersion` are the programme service's, and
`WithdrawPolicy` is the administrators' `PUT /campaigns/{code}/policy` with
`is_active` false; that the same route writes a policy is `StartPolicy` and
`CommitPolicy`. A campaign has one policy version here where the code takes the
latest `updated_at` of all active ones. `stale` marks
a command whose row has changed since it was read, `raced` that such a command
has written.

Times are compared only between the policy's `updated_at` (the start of the
transaction that writes it) and the approval's time, so the clock moves with
these. Left out: replays of an idempotency key and refusals, which change
nothing; campaigns that the admin API creates active; whether a campaign is
scheduled or past its end, which admits the commands of an active one or
none. A launch takes the evidence verdict as an argument of the function; the
HTTP route of this commit always passes it as stale
(`referral_saas_accounts.py`, around line 12724), so over HTTP the launch is
refused for now and the model, the finding `saas_campaign_relaunched` included,
shows the function as its tests call it.

Observed while modelling, and admitted by the properties: binding another
version keeps the review and the override; a paused campaign may be bound anew
and resumed without a launch's gates. That an ended or archived campaign may be
launched anew is a finding (`saas_campaign_relaunched`).

### SaaSMembership

The memberships of one person in one account, each with its role, mail, seat
and login. A command reads outside any transaction and writes in one; `call[c]`
is what it is about to write. Most UPDATEs name the status again in their WHERE
clause (`Write`'s `where`), those of a mail's outcome, a link's expiry and a
login do not.

| Code | Actions |
|---|---|
| invitation, its mail, its edit and its cancellation | `Invite`, `Deliver`, `Edit`, `Cancel` and the `Write...` of each |
| `issue_..._acceptance_token`; `validate_...` | `IssueLink`, `WriteLink`; `FindLapsed`, `WriteExpiry` |
| `accept_...`: the link is read, the membership is read and activated, the link is marked, on three connections | `Accept`, `CheckAccepted`, `WriteActivation`, `SpendLink` |
| an operator's `request_..._activation` | `RequestActivation`, `WriteActivation` |
| foundation activation (account and missing seats) | `ActivateFoundation` |
| access provisioning; login completion | `Provision`, `WriteSeat`; `CompleteLogin`, `WriteLogin` |
| a link's time passes; a process stops | `Lapse`; `Die` |

The unique indexes of migration 082 are the guards `Usable` and `SeatHolds`.
The account has one seat of each type, which is what the foundation creates.
Refusals, BLOCKED audits and replays change no modelled row and are left out;
the intents of a login other than the platform's need no seat and are one
value. After a crash between activation and marking, the retry is answered
from the audit as a replay and the link is never marked; `lost` remembers it.
`crossed` remembers a role edited under an activation that had read the other
role, and `via` and `audited` the link and the role of an activation.
Observed, and admitted: cancelling revokes no link (activation needs INVITED,
so `CancelledStaysOut` holds); an edit keeps the mail's SENT status and the
links of the earlier role; a link once found lapsed is overwritten with EXPIRED
even when it has been accepted meanwhile.

## 3. What TLC checks

| Run | Instance | Shows |
|---|---|---|
| `journey_replay` | the three journeys, every sequence of at most 6 events (repeats included) | a replay in handling order reproduces the row, also for the retail journey whose timestamps are never stored; in sequence nothing goes back; completion needs every milestone |
| `progress` | two starts: account open, funded and IDS salary facts to come, no faults; account funded, the salary fact completes it, 2 faults; 2 workers, rebuild, inbox and DLQ replays | the row stays legal, nobody is paid twice or without facts, what a stale write or a rebuild takes away can be handled again; messages leave only with a trace; the completing message settles and started payouts finish unless a fault cuts them short |
| `pool_spare` | 3 deliveries, 2 of one referral, 4 connections | no deadlock; every delivery is audited |
| `fulfilment` | rewards of a referrer, a referee and a bonus whose key is that of a replay of the referrer's; deposit for one; a limit that refuses the bonus; 2 workers, 1 fault, 2 replays | one delivery per reward, one payment per key, no more money leaves in total than was paid (whose it was is not said; see `FulfilmentHolds.cfg`) |
| `settlement` | one batch with two approval requests, one reversal of a ledger row others write; 2 calls, 2 items, 1 fault | totals count the items; without overlap nothing is left out of a settled batch and one request waits; an execution reverses only for an approved reversal; the batch follows `BatchLifecycle` |
| `sponsor_wallet` | a cheap reward whose id is a UUID, a dear one whose id is not; 2 top-ups, 2 calls, 2 faults | never overdrawn; the ledger explains the balances until one is overwritten unread; no allocation is ahead of the ledger's rows |
| `saas_campaign` | 2 commands, 2 actors, 2 versions, 3 policy writes or decisions | active only when approved by another; until an overlap loses an update, an active campaign carries its approval and is_active agrees with the lifecycle |
| `saas_membership` | 2 commands, 2 memberships, 2 roles, 1 link, 2 seats, any crash | cancelled stays out; seats, links and audited roles agree |
| `progress_rebuilt` (violated) | 1 worker, IDS salary fact | a rebuild undoes a completion that an IDS fact made |
| `fulfilment_concludes` (violated) | 2 rewards, a deposit for one, 1 worker, no fault, no replay | a reward that was paid and settled ends FAILED_RETRYABLE, not SUCCESS (FTBE-006, FTBE-017), and one that was refused is never tried again: its retry finds its own audit row and is skipped as a duplicate |
| `saas_campaign_rereview` (violated) | 1 command at a time | a policy newer than the approval blocks the launch, and no command can start the review the documents promise |
| `saas_campaign_relaunched` (violated) | 1 command at a time, 1 version | an ended campaign is launched anew: the activation never looks at the stored lifecycle |

The four violated runs are disagreements between the code and its documents
or tests; `PROJECT.json` ("findings") quotes both sides. Six more
configurations are kept for runs by hand
(`tlc -config <cfg> <module>`), whose questions the runs above cover in part:

| Configuration | Module | Outcome |
|---|---|---|
| `ProgressOverlap.cfg` | `MCReferralProgress` | passes: from an open account with funded, activated (IDS) and salary facts to come, so that side events and back-filled milestones overlap too |
| `ProgressOrder.cfg` | `MCReferralProgress` | passes: a fresh referral and four facts in any order of recording, sending and delivery, with rebuilds and `MaxLate` 4; `HandledInSequence` besides |
| `ProgressRegress.cfg` | `MCReferralProgress` | violated: an overlap takes a referral out of FUNDED, against FTBE-012 (`docs/FRONT_TO_BACK_TEST_CASES.md:61`) |
| `ProgressUnpaid.cfg` | `MCReferralProgress` | violated: after one fault a completed referral is never rewarded, against FTBE-005 (line 49 there) |
| `PoolExhausted.cfg` | `MCDeliveryPool` | violated: three deliveries wait for each other for ever at three connections, against `docs/sa/AUDIT_RETRY_POLICY_STANDARD.md:127` |
| `FulfilmentHolds.cfg` | `MCRewardFulfilment` | violated: what one delivery settled is released again out of what another has reserved, against line 83 there |

**What the properties except.** Some of the code's lost updates and torn writes
happen in the models and are contradicted by no document; the properties that
meet them say what holds up to that point, by a history variable, and are to be
read so. `TotalsMatch` counts the items of calls that died between two commits
(`lost`); `OrderlyAlone` excepts batches on which two calls met (`overlapped`);
`LedgerExplains` stops at the first lost update of a balance (`raced`) and
counts the changes of calls that died before their row (`unrecorded`); the
second half of `StepsRecorded` excepts rewards on which calls met or one died
(`torn`); `ApprovalStands` and `LifecycleAgrees` stop at the first write over an
unread change (`raced`); `AuditedRoleStands` excepts an edit between an
activation's check and its write (`crossed`), `LinkIsSpent` a crash and a
written expiry (`lost`); `PayoutFinishes` excepts every fault. `OutflowIsPaid`
is about totals: that money is taken from what other rewards reserved is
`ReservationsAreHeld`, which `FulfilmentHolds.cfg` shows violated. The other
properties except nothing.

**Bounds.** Two workers are enough for the races of interest: a loss, or a
double payment, needs one stale image and one commit; the theorems of section
4 hold for any number. `Progress.cfg` explores two starts in one run: from the
open account the faults count as spent, from the funded one they are still to
come, because all faults along the whole history are too many states for one
run; the proofs have no such split. Its facts are those of the shortest path,
and fairness is assumed to the completing one, whose settling is checked.
`StartFrom` starts an instance from the state in which
a history has been processed in sequence, to spend the states on the race that
follows; `ProgressOrder.cfg` starts from the real initial state. `MaxFaults` bounds
crashes, exceptions and lost sends together; in `Fail` a lost FAILED audit and
a lost DLQ publish count as faults of their own, so the bound of two lets one
of them fail but not both, and `DeletedOnlyWithTrace` says that it takes
three. `MaxLate` 4 is no restriction with four facts. `MaxEvents` 6 is one
event more than the longest path to completion; `JourneyReplay` deadlocks at that bound and
is checked without deadlock. In `fulfilment` two workers reach each race for an
audit row, for the balance and for a reservation; the first replay makes the
second key of a reward live and the second one, read before the first has
marked the row, marks a row that has changed since. Three rewards are needed
for the shared key and for a refusal by the limit; workers are alike, hence
the symmetry. A key sees at most one failure, so `MaxAttempts` only
decides whether that failure is retryable (3, the default policy, and 5) or
final (1 and 2); the run takes 3, and with 2 the properties hold as well. Once every message is
handled the system rests, so this run too is checked without deadlock. In
`fulfilment_concludes` nothing is disturbed: the deposit covers one of the two
rewards, so one is paid and the other refused. The
violated runs stop at a state where the
system may be at rest, and are also checked without it.

In the four newer modules two calls are enough for every race: each property
compares one call's image with what one other call has written. A second
approval request is needed for two to be pending, a second item for a total to
be wrong by more than a lost one, a second reward for one call to spend what
another has read, a second version for an override of an unbound one, a second
membership for the unique indexes; one more of each repeats these. `MaxTime` 3
allows a policy, a decision and a newer policy. `MaxFaults` 1 in `Settlement`
lets one call die at each step, 2 in `SponsorWallet` two; in `SaaSMembership` any number may. One link is enough for each
property, since each speaks of one link and its membership; a second multiplies
the states beyond the time a run may take, and the theorems cover any number.
`SponsorWallet` and `SaaSCampaign` may stop (no money, an archived campaign
with the clock at its bound) and are checked without deadlock; `Settlement` and
`SaaSMembership` always can go on.

**Fairness.** SQS offers a message until it is deleted, so each queued fact is
received again and again (`SF` on `Receive`); a handler that is running goes on
to its next await and PostgreSQL queues lock waiters (`SF` on a worker's
`Proceed`); the pool and row locks serve waiters in order (`SF` in
`DeliveryPool`). In `RewardFulfilment` a worker that can go on does (`WF`):
it takes a message that is there and goes through `fulfil_reward`. The other
modules state only safety: nothing retries a call that died, so nothing must
eventually happen there. Nothing
obliges the API, an operator's replay, a rebuild or a
fault to happen.

## 4. What is proved

For every value of the constants that the assumptions admit: any set of facts,
workers, rewards, keys, batches or calls, every amount and bound. The theorems
about `JourneyRules` and `JourneyReplay` hold on every journey the code defines,
those about `ReferralProgress` on a banking or insurance journey.

| Module | Theorem | Property |
|---|---|---|
| `JourneyRules` | `AppliedCoherent`, `ReplayCoherent` | a step of the rules and a replay yield coherent instances |
| `JourneyReplay` | `ReplayTypeCorrect` | `ReplayTypeOK` |
| | `LiveIsReplay` | `ReplayMatchesLive`, histories of any length |
| | `CompletionIsFull` | `CompletedInFull` |
| | `NeverBackward` | `OnlyForward` |
| | `RepeatsAreHarmless` | `RepeatIsIgnored`: a repeated event that was applied leaves the row alone |
| `ReferralProgress` | `TypeCorrect`, `RowAlwaysLegal` | `TypeOK`, `RowIsLegal` |
| | `RewardsAreBacked`, `NeverPaidTwice` | `RewardBackedByFacts`, `PaidOnce` |
| | `LossCanBeRecovered` | `LossIsRecoverable` |
| | `AloneIsInSequence` | `HandledInSequence`: without an overlap or a rebuild the row moves by steps of `JourneyReplay` |
| | `DeletionIsTraced` | `DeletedOnlyWithTrace` |
| `DeliveryPool` | `PoolTypeCorrect`, `SpareConnectionSuffices` | `PoolTypeOK`, `NoPoolDeadlock` for any pool larger than the number of deliveries |
| `RewardFulfilment` | `FulfilTypeCorrect` | `TypeOK` |
| | `AskedOnce`, `OneDelivery` | `PaidOncePerKey`, `OneDeliveryPerReward` |
| | `OutflowIsCovered` | `OutflowIsPaid` |
| `Settlement` | `TypeCorrect` | `TypeOK` |
| | `LifecycleImplemented` | `ImplementsLifecycle` (the refinement) |
| | `PaidOnlyWhenExecuted`, `BatchSettledForGood` | what `BatchLifecycle` promises: `PaidWhenExecuted`, `SettledForGood` |
| | `TotalsAreCounted`, `OrderlyWhenAlone` | `TotalsMatch`, `OrderlyAlone` |
| | `ExecutionsAreBacked` | `ExecutionsBacked` |
| `SponsorWallet` | `TypeCorrect`, `WalletIsSolvent` | `TypeOK`, `Solvent` |
| | `LedgerRecordsSteps`, `LedgerIsComplete` | `StepsRecorded`, `LedgerExplains` |
| `SaaSCampaign` | `TypeCorrect`, `ActivationWasApproved`, `ApprovalIsKept`, `LifecycleIsConsistent` | `TypeOK`, `ActiveWasApproved`, `ApprovalStands`, `LifecycleAgrees` |
| `SaaSMembership` | `TypeCorrect`, `SeatsAreConsistent`, `LinksAreSpent`, `AuditedRolesStand`, `CancelledIsOut` | `TypeOK`, `SeatsAgree`, `LinkIsSpent`, `AuditedRoleStands`, `CancelledStaysOut` |

The argument. A row is *coherent* when its marks are legal (a milestone comes
with every earlier one) and status and completion are what they imply. That
the committed row is coherent is not inductive: a commit writes what follows
from an image loaded earlier. `CoreInv` therefore says that every image a
delivery holds is coherent, that what it has updated was a valid event of that
image, and that a delivery that pays holds a completing image. Any image, however
stale, then leads to a coherent row. A rebuild writes a fold; the fold over the events is
defined by a recursive function and `ReplayCoherent` shows by a least
counterexample that every prefix is coherent and marks only what the events
say. `RewardBackedByFacts` needs in addition that the marks of the row and of
every image are backed by known facts (`Known`). `PaidOnce` needs that a
delivery that publishes is the only one that inserted (`PayInv`): the unique
index admits one. `DeletedOnlyWithTrace` needs that a finished delivery left a
trace (`TraceInv`). `LossIsRecoverable` follows from the coherence of the new
row: where a legal row lacks a milestone that facts on record name, one of
those facts is a valid next event of it (`MissingMarkLeadsOn`, from
`BankingLeadsOn` and `InsuranceLeadsOn`). What changes the row while nobody
overlaps is a commit of an image that still is the row (`UndisturbedCommit`),
from which `AloneIsInSequence` follows. In `DeliveryPool`, deliveries without
a deadlock follow from counting: each waiting delivery holds one connection.

In `JourneyReplay` the row forgets what the UPDATE does not store and the
replay does not. `ReplayInv` says that the row is what the replay of the
history so far would store. A history with one event more replays to one step
more (`ReplayOfMore`: the fold's images exist and any two folds agree on a
common prefix, by a least counterexample), and what the row has forgotten
makes no difference to the next step (`RowIsEnough`). That is plain where every
timestamp is stored; on the retail journey the status alone decides which
event is next, and completion follows because its last milestone is its only
completion event. The other properties are then facts about the coherent
instance behind the row: its milestone does not fall when marks are added
(`MilestoneGrows`), and a marked event is a duplicate.

In `RewardFulfilment` the UNIQUE key alone keeps two deliveries of one *key*
apart (`Exclusive`); that it keeps two deliveries of one *reward* apart is not
inductive, as a reward has two keys. A replay, which brings in the second,
starts from a failed audit row, and a row is marked failed by the last
statement of its delivery. `FulfilInv` therefore says that a delivery in flight
has an audit row without a verdict (`Undecided`), that the delivery of a row
which a replay has read has ended (`EndedBeforeReplay`), and that once a replay
of a reward is queued, handled or on record, only a replay of it is in flight
(`OriginalsEnded`). A key is paid at most once because a worker up to `pay`
holds a key that has not been paid (`NotYetPaid`) and holds it alone. The type
invariant includes the CHECK constraints of `funding_accounts`: no statement of the
code can violate them. `OutflowIsPaid` compares the money gone with a sum over
the keys. It is not inductive, as a settlement must find its amount unused:
`OutflowInv` bounds the outflow by the paid requests whose delivery is past its
settlement, and a delivery between the provider's answer and its settlement
holds one paid request more, alone.

In `Settlement` the refinement needs `ExecutionInv`: the guarded claim lets one
call at most execute a batch, the batch is PROCESSING while it does, and no item
is settled before. Every other call only makes guarded moves outside an
execution (`Aside`). `ReversalInv` says that a call which executes a reversal
saw it approved and that APPROVED is never left for less; it speaks of the
reversals and their executions only, as any other writer may overwrite the
ledger row. What `BatchLifecycle` promises is proved of it and carried over by the
refinement. `TotalsMatch` is inductive as it stands, given the type invariant:
each step changes the calls between INSERT and total (`Inserted`) by one at
most. `OrderlyAlone` is not: `AloneInv` adds that one call at most works on
such a batch, that what this call has read or found out still holds
(`WorkerInv`), and that no request waits for a batch not yet created.

In `SponsorWallet` the balances written are absolute, so what makes them
solvent is the pair they were computed from: `SolvencyInv` adds that the pair
every call has read was sound and covers its operation. `OnceInv` says of a
UUID reward that is not torn that one call at most is at work on it, that its
status is the one the call expects and its ledger rows are ahead by one only
once the call has inserted its own; `Lead` says of every reward that the rows
are never behind its allocation. `LedgerExplains` adds up what the ledger
rows, and the calls about to insert one, account for; the proof compares these
totals before and after a step, which changes one call (`OneMoreMoved`,
`MovingCounts`).

`SumTheorems` carries the two sums: the fold behind `SumFunction` is a recursive
function over the subsets of a finite set, and what holds of a set as soon as it
holds of its strict subsets holds of all (`SubsetInduction`).

In `SaaSCampaign` an invariant about the row alone is not inductive, as a
command writes a document prepared earlier: `ApprovalInv` speaks of the row and
of every prepared document, whatever their age, and gives `ActiveWasApproved`.
`RaceInv` says what a command whose row is still the one it read has derived
from it (`Derived`), which gives the properties that hold until an update is
lost. `SaaSMembership` likewise needs what every command under way knows about
the membership, link and seat it is about to write (`CallInv`), with `SeatInv`
and `LinkInv` about the tables.

Assumptions: the ASSUMEs of the modules. `ReplayAssumption` takes the journeys
from those the code defines; `ProgressAssumption` restricts `ReferralProgress`
to the journeys whose timestamps are stored, since a retail row is not coherent
in this sense (what still holds of it is proved of `JourneyReplay`).
`PoolAssumption` and `FulfilmentAssumption` give the constants their types. The
sets that are counted or summed over are finite: the deliveries of
`DeliveryPool`, the calls of `Settlement`, the calls
and rewards of `SponsorWallet`, the keys of `RewardFulfilment`. Of the other
constants, that their types and sets are what their names say and that `None`
is none of the values it stands beside.

Only model-checked: the liveness properties (`CompletionSettles`,
`PayoutFinishes`, `EveryDeliveryIsAudited`), which need fairness and ENABLED.
Every safety property of a passing run is a theorem. The violated runs'
properties have none, as they do not hold. `RepeatIsIgnored`, `PaidWhenExecuted`
and `SettledForGood` are theorems that no run of the list repeats.

## 5. Not modelled, and what is left

The repository has some 120,000 lines of implementation; most of it composes
read models, validates and formats requests, and renders pages. The parts with
state of their own that no module covers:

- SaaS journey configuration and programme drafts: versioned documents with the
  submit, decide and publish steps `SaaSCampaign` shows for campaigns; most of
  their code validates the documents' contents.
- SaaS support cases, integrations, credential requests, report exports and
  schedules: records of one area each that no modelled command reads.
- Sponsor contracts, budgets and billing; outcome reconciliation, which
  inserts missing money rows on request; distribution, with its wallets.
- Onboarding drafts, partner webhooks, missions, badges and the leaderboard,
  the privacy purge: they read what the modelled parts write, or overwrite
  identifiers the models leave out.
- The polling worker, another deployment of the same handler, and UCN capture,
  which writes the referee columns of the row.
- The HTTP layer and the frontend, which keep no state, and the SQL of the
  queries, which appears only as the rows and constraints it leaves.

What would come next:

1. Programme drafts and their publication beside `SaaSCampaign`, so that a
   version is retired by the rules of its own service.
2. What funding promises in the abstract (a reward's money is held, then
   released or settled, once), with `RewardFulfilment` up to the settlement
   shown to implement it.
3. The circuit breaker and the routing of providers, which `RewardFulfilment`
   sees as a failure; several accounts with priorities.
4. UCN capture beside deliveries, and the polling worker as a variant of one.
