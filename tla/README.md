# Verification of the PastorAI backend

PastorAI answers the WhatsApp messages of churches.  A webhook route receives
each event from the Evolution provider and puts it on a Redis queue; worker
processes take it from there, store it in PostgreSQL, run one turn of an agent
and send the reply.  Around that core are a panel API, scheduled broadcasts and
reminders, billing, cell reports (text and audio), consolidation, consent and
deletion.  This directory holds TLA+ models of the parts where processes,
failures and retries meet, the TLC configurations that check them on small
instances, and proofs checked by TLAPS.

Paths below are relative to `src/backend/app/` unless they start with `src/`.

## 1. Inventory

| Component | State | Operations | Where it is hard |
|---|---|---|---|
| Webhook queue and worker loop (`workers/queue_worker.py`) | Redis: ready list, one private list per worker, scheduled retries, dead letters, retry state per claim, leases, registry, recovery locks, idempotency markers | enqueue, claim, reconcile, fence, ingest, finalise, ack, fail, recover, requeue, register, unregister | workers die or stall anywhere; replies are lost; a Lua script that fails keeps its earlier writes; several copies of one envelope |
| Agent reply ledger (`workers/queue_worker.py`, `domain/agent_reply.py`, `services/conversation_handoff.py`) | one `messages` row per turn key with a status, an advisory execution lock, a send-ownership row | reserve, execute, prepare, transition (compare and set), deliver, quarantine, suppress, handoff | a process may die between tool effects, between the POST and its record; a human may take the conversation over at any point |
| Broadcast delivery (`services/broadcast_delivery.py`, `workers/broadcast_worker.py`) | broadcasts, executions, deliveries with claim leases | materialise an occurrence, claim, send, classify, retry, finalise | two workers on one occurrence; a result that arrives after the lease; the retry budget |
| Notification outbox and reminders (`services/notification_outbox.py`, `services/cell_report_reminders.py`) | intents, claims, results | record, claim, revalidate, send, classify, expire | revalidation is stale by the time of the send; ambiguous results must never be resent |
| Billing operations (`services/billing.py`, `services/billing_worker.py`, `routers/subscription.py`) | payment and plan-change operations, attempt leases | open, attempt, reconcile, settle, reverse, auto-upgrade | lost responses to a charge; webhooks before responses; the trigger that queues an upgrade |
| Action proposals and privileged turns (`services/agent_action_proposals.py`, `agent/privileged_turn.py`) | proposals with a lifecycle bound to a reply | stage, promote, confirm, cancel, expire, execute | a confirmation that races expiry, supersession or a reply never delivered |
| Deletion (`services/tenant_deletion.py`, `services/private_deletion.py`) | tombstones, generations, storage tasks, cleanup leases | delete, claim a task, drain, reopen after a late upload | an upload or a send that was running when the deletion committed |
| Cell report audio and workflow (`services/cell_report_*`) | anchors, stage claims with deadlines, budget, pending proposals | enqueue, claim, stage, handoff, finish, retain; propose, confirm | late stages of a lost claim; the budget at its limit |
| Consolidation and cell requests (`services/consolidation_workflow.py`, `services/cell_requests_service.py`) | tracks, invitations, requests | assign, invite, accept, expire, advance; approve, reject, adjust, cancel | row locks serialise them; deadlines after lock waits |
| Cron worker, SLA engine (`workers/cron_worker.py`, `services/sla_engine.py`) | last runs, dispatch events | tick, scan, charge, escalate | double ticks, deduplicated by event |
| Agent graph, prompts, triage (`agent/`, `services/llm.py`, `services/semantic_*`) | none of its own | decide what to say | content, not order |
| Everything else: API routers, auth, sessions, rate limits, consent stores, provider clients, schema, frontend, deployment | see `PROJECT.json` | request handlers | left to single transactions |

How they interact: the webhook route only pushes on the ready list.  A worker's
`handle_envelope` calls the ingestion (PostgreSQL), then `run_agent_for_message`
with a guard that re-runs the queue's ownership fence before every effect.  The
reply row, keyed by church, inbound message and claim id, survives the
worker; a retry of the same claim finds it.  The panel hands a conversation to a
human in its own transaction, which fences reply rows.  The cron and broadcast
workers share PostgreSQL with the rest but not the queue.

What makes the queue correct: no delivery is lost; one worker at a time may
produce effects for a claim; a settled claim stays settled; retries are bounded;
a message is answered once, and marked done only when answered; what a dead
worker leaves is found; every delivery is settled in the end.

What makes the reply ledger correct: the agent's tools, which change church data,
run at most once per turn; the provider gets a reply at most once unless it hides
that it accepted it; a human who takes the conversation finds no reply that can
still go out; the recorded state of a reply is true; an acknowledged claim leaves
nothing half done.

What makes a sender correct (broadcasts, outbox): what cannot be done exactly once
is done at most once, and the ledger tells the truth about it.  Around that: one
worker in transport, a daily cap that retries cannot stretch, a refusal that
nothing outlives, and executions closed only when everything in them is settled.

What makes billing correct: a month is payable once, although a POST may be lost,
late or doubtful; access is never open over a debt; an invoice has one claim.

What makes the audio chain correct: an audio is paid for once; the ledger answers for
what was billed up to its estimate and stays under the day's ceiling; after a
revocation nothing captured before it is said; after an erasure nothing of it comes
back, however late an upload lands; what a dead worker held is settled.

## 2. Modules

| Module | Role |
|---|---|
| `WebhookQueue` | the queue, the worker loop and the handling of one envelope up to and after the agent turn |
| `AgentReply` | one turn per claim: reservation, execution, delivery, handoff; implements `OnceDelivery` |
| `OnceDelivery` | the abstract promise of a sender: at most once, and a true record |
| `BroadcastDelivery` | broadcasts, occurrences and deliveries; implements `OnceDelivery` |
| `NotificationOutbox` | the shared outbox of reminders and notices; implements `OnceDelivery` |
| `MonthlyBilling` | the monthly invoice, its reversal and recovery, and the access gate |
| `ReportAudio` | voice reports: consent, the paid chain, the reply, retention and erasure |
| `*Proofs` | the inductive invariants and the theorems of the six detailed modules; two have a second one for what needs further hypotheses: `WebhookDeliveryProofs` and `MonthlyDebtProofs` |
| `MC*`, `MC_*.cfg` | the symmetries and model values for TLC, and the instances |

How they fit.  `AgentReply` opens the step that `WebhookQueue` calls `AgentTurn`,
and rests on its `FenceExclusive`.  `AgentReply`, `BroadcastDelivery` and
`NotificationOutbox` have different ledgers and one promise, `OnceDelivery`, which
each states as a property through `INSTANCE OnceDelivery WITH`.  `ReportAudio` sends its reply through the
ledger of `AgentReply`, of which it keeps the statuses of one reply per audio.
`MonthlyBilling` stands alone.

### WebhookQueue

State.  `ready` counts the copies of each raw envelope on `WEBHOOK_QUEUE`
(order is abstracted: any of them may be popped next); `processing[w]` is the
private list of worker `w`; `scheduled` and `dead` are the sorted set and the
dead letters; `retry[c]` is the hash under `RETRY_STATE_PREFIX` (status,
attempts, owner); `lease`, `registry` and `recoveryLock` are the keys of the
worker protocol; `marker[m]` is the idempotency key of provider message `m`
(absent, a claim, or done); `persisted` are the messages with a committed row.
Each worker has a program point `pc`, the raw it holds, whether its marker was
resumed, whether its private list is unverified and the owner it recovers.
`enqueued`, `acked`, `turns` and `answered` are history for the properties.

A raw envelope is identified by its claim id and its attempt number, because
`transition_failed_claim` is the only writer of a new envelope and always writes
the next attempt of the same claim.

Actions, in the order a worker takes them, and the code they stand for:

| Action | Code |
|---|---|
| `Enqueue`, `Register`, `Shutdown`, `Unregister` | `enqueue`, `register_worker`, `stop` and the heartbeat, `unregister_worker` |
| `RenewLease`, `RequeueOwnClaims` | `refresh_worker_lease`, `requeue_own_claims` |
| `BeginRecovery`, `DrainOne`, `EndRecovery`, `RecoveryError` | `recover_pending`, one owner, one list item at a time |
| `PromoteDueRetry`, `PopReady`, `PopNothing`, `ClaimNextError` | `claim`, `_promote_due_retries`, `_claim_next` |
| `Reconcile` | `_RECONCILE_RETRY_CLAIM_SCRIPT` |
| `DiscardMalformed` | `_handle_raw` and `ack` of a raw that is not an envelope |
| `Fence`, `FenceFails` | `assert_claim_owned` |
| `ClaimMarker`, `ReadMarker`, `Release`, `Finish` | `claim_processing` (two commands), `release_processed_if_owned`, `mark_processed_if_owned` |
| `Ingest`, `Commit` | `ingest_message_event_ex` up to and from its last fence |
| `StartTurn`, `AgentTurn` | the fence before the turn, the execution lease, `run_agent_for_message` |
| `Ack`, `Fail` | `_ACK_CLAIM_SCRIPT`, `_MOVE_FAILED_CLAIM_SCRIPT` |
| `Crash`, `LeaseExpires`, `RecoveryLockExpires`, `MarkerExpires` | the environment |

One Redis command or script is one step, one database transaction is one step;
workers interleave between any two.  The constant `Faults` says what may go
wrong: crashes, stalls longer than the lease, lost Redis replies (the call ran or
did not), scripts that stop half way, database failures before and after the
commit, failing turns, expiring markers and skewed clocks.

Abstractions.  Deadlines are not numbers: any scheduled retry may be due.  The
retry state's own expiry (seven days after its last write) is not modelled, and
neither are envelopes written before claim ids existed.  `SMEMBERS`, the lease
check and the recovery lock are one step: an expired lease never returns
(`SET XX`), so the later check repeats the earlier one.  `mark_processed` and
`release_processed` without a fence are only reached when `handle_envelope` is
called without a claimed raw, which the worker never does.  The metrics snapshot
only reads.  A worker always has an agent runner.

### AgentReply

`WebhookQueue` treats the agent turn as one step.  `AgentReply` opens it: the
durable path of `run_agent_for_message` and everything it calls that changes
state.  The queue is reduced to what the turn sees of it: a claim with one owner
at a time (`FenceExclusive` of the other module), a count of failed attempts, and
`End`, the caller that acknowledges, retries or stops.

State.  `row[t]` is the turn's `messages.agent_reply_state`, `send[t]` its row in
`private_deletion_sends` (none, live, expired), `lock[t]` the advisory lock;
`estado` and `optout` belong to the conversation all turns share; `owner`,
`claim` and `attempts` are the queue's view.  Each worker has a program point, a
turn and the result it will end with.  `tools`, `posts` and `accepted` count what
happened to the world.

| Action | Code |
|---|---|
| `Take`, `End` | the queue's claim; `_handle_raw`, `_ack`, `transition_failed_claim` |
| `FirstGuard`, `BeginGuard`, `ToolsGuard`, `AfterGuard`, `SendGuard`, `PreGuard`, `PostGuard`, `AcceptedGuard` | the calls of `ownership_guard`, each its own Redis call |
| `Reserve`, `Acquire`, `Reload`, `Begin`, `Reread`, `Unbegin` | `_reserve_agent_reply_intent`, `_AgentExecutionLease.acquire`, the reload under the lock, RESERVED to EXECUTING and back |
| `RunTools`, `Silent`, `Prepare`, `Abort`, `Unlock` | `process_inbound_message`, the silent end, `_prepare_agent_reply_intent`, `_quarantine_agent_execution`, `close` |
| `Check`, `Send`, `Missed`, `Precheck`, `LastCheck`, `Renew` | the handoff checks and the compare and set of `_deliver_agent_reply_intent`, `renew_agent_send` |
| `Status`, `Post` | `send_agent_text` and how it classifies what Evolution answers |
| `Unsend`, `Confirm`, `Release`, `Quarantine`, `Discard`, `Reject`, `Finish` | the record of the outcome and `finish_agent_send` |
| `Handoff`, `ReturnToIA`, `OptOut`, `Reactivate` | the panel and other messages of the contact |
| `Crash`, `DropLock`, `ExpireSend` | the environment |

One guard, one transaction and one provider request are one step each.  `Faults`
names what may go wrong, up to a transaction that raises after it committed and a
lost lock connection.  `Transition` and `Suppress` take the continuations of their
callers as arguments, because each caller treats "moved", "refused" and "raised"
differently.

Abstractions.  Texts, keys and tenants are left out.  The agent's transaction is
one step, at its commit.  "Not authorised", "public information changed" and
"consent withdrawn" are one choice (`revoke`): all three suppress the same row
under the same condition.  A moved deletion generation is an expired ownership.
The secretariat offer only matters where it hands the conversation over
(`Confirm`); its own states, the proposals bound to a reply and the tier A path
are not modelled.  A conversation is never deleted here.

### OnceDelivery

Every sender of this system faces an effect it cannot make exactly once.  The
abstract module has two variables: `phase`, what the ledger says of each item, and
`taken`, how often the world really took it.  An item may be recorded, begun,
withdrawn or refused (only if the world has not taken it), accepted (only if it
has) or given up as doubtful, and the world may take it while it is in flight or
after it was given up.  One transaction may move several items.

### BroadcastDelivery

State.  `repeats`, `status`, `slot` and `seq` are the broadcast's row (whether
`proxima_execucao` is null, ahead or due); `execution` and `delivery` the rows of
an occurrence and of one person in it; `holder` and `lease` the claim columns.
`eligible` and `online` are the world the code reads again before each send.  A
worker has a program point, its claimed delivery, the outcome it will record, and
its open transaction (`write`, `close`).

| Action | Code |
|---|---|
| `CreateNow`, `Schedule` | `create_broadcast` of `routers/broadcasts.py`, both modes |
| `Reap` | `reap_orphaned_deliveries` |
| `Materialise` | `_materialize_one` |
| `Discover`, `Claim`, `ClaimNothing`, `LeaveScan` | `_discover_delivery_tenants`, `_claim_next_delivery`, the end of the loop |
| `Gate`, `Fence` | `_transport_gate` of `workers/broadcast_worker.py`, `_renew_delivery_transport_fence` |
| `Post`, `Record` | `send_text_classificado`, `_record_delivery_result` |
| `Commit` | the commit of a transaction that settled rows and counted what is left |
| `SlotDue`, `ChangePerson`, `Reconnect`, `Crash`, `LeaseExpires` | the environment |

A database transaction is one step, except those that settle deliveries and then
call `_finalize_execution_if_done`: at READ COMMITTED two of them may each count
the other's delivery as still in flight, so the count and the commit are two
steps with the rows locked in between.  Retry delays are not counted: a claim may
come at any time, in any order.

One thing follows that no property forbids.  When two such transactions cross, or
a worker dies in one, the execution stays open although all its deliveries are
settled.  Discovery looks for deliveries to claim and there are none, so it is
finalised only when a later broadcast of that church makes a worker scan it.

### NotificationOutbox

The rows of one recipient in one family of purposes (`agenda`, `cell_report` or
`consolidation`): every transaction first locks the recipient's conversations and
person, so it is one step, and recipients do not interact.

State.  Of each intent its `state`, `attempts`, `reserved` (the day of its quota
slot), `due`, the last day its bound allows, the claim, and the day its transport
`started`; `preference` of the person; the clock as a day and whether the sending
window is open.  Which purposes the intents have is part of the initial state, so
a run covers every family.

| Action | Code |
|---|---|
| `Subscribe`, `OptIn` | `execute_agenda_reminder_subscription`, `execute_consolidation_reminder_subscription` |
| `EnqueueEvt7`, `ScheduleReport`, `MaterialiseConsolidation` | the three other producers |
| `CancelConsolidation`, `Stop` | `_cancel_pending_consolidation_notifications`, `disable_whatsapp_reminders` |
| `Maintain` | `_maintain_notification_tenant`, one sweep over any of the rows |
| `ClaimEnds`, `ClaimAtNight`, `ClaimUnderCap` | the three ways out of `_claim_next_notification` |
| `Fence`, `Post`, `Record` | `_renew_notification_transport_fence`, `send_text_classificado`, `_record_notification_result` |
| `Crash`, `LeaseExpires`, `Deadline`, `WindowCloses`, `NextDay` | the environment |

What a transaction reads again of the world (release gates, source, consent,
connection, phone) may change at any time and is a free answer; the preferences,
which this code writes, are state.  A transaction that fails looks like a crash.

### MonthlyBilling

State.  Asaas, outside: `invoice` of each cycle, `charge` and `posted` of each
operation's key, POSTs in `flight`, undelivered `notices`.  Inside: `book`, the
subscription row (status, current invoice and its reversal), the church's `gate`
and the payment operations (status, source, which payment id they are bound to).
Each request has a place and what it read there.

| Action | Code |
|---|---|
| `Webhook` | `_claim_asaas_webhook_event`, `_apply_asaas_webhook`, `_apply_operation_event`, receipt and effect in one transaction |
| `ReadInvoice`, `ApplySnapshot` | `GET /subscription` and the resumed checkout: the unlocked read, then `_apply_monthly_payment_snapshot` |
| `Recover` | the entry of `recover_invoice` |
| `RestoreGet`, `RestoreClaim`, `RestorePost`, `RestoreReread`, `RestoreFinish` | the restoration of a deleted invoice |
| `Ensure`, `Claim`, `Post`, `PostDisabled`, `PostAnswered`, `PostRejected`, `PostAmbiguous` | `ensure_payment_operation` and the answers of `create_one_time_charge` |
| `Reconcile`, `Adopt` | `_reconcile_payment_operation`, `_apply_reconciled_payment_state` |
| `ReadTracked`, `ApplyTracked` | a charge already created, read again |
| `Abort` | a process that dies or a GET that fails |
| `IssueInvoice`, `TurnInvoice`, `TurnCharge`, `Arrive` | Asaas and the payer |

A notice stays until it is applied and may be applied in any order with the
others; `posted` counts what Asaas really created, so a POST may arrive after its
sender gave it up.  `Unique` is the partial unique index on open operations: a
transaction that would break it fails.  `Faults` says what Asaas may do beside
that: `deletes` lets an open invoice be deleted, which is what the restoring path is
for; `late` lets a deletion notice come after the invoice was restored; `again`
lets a restored invoice be reversed again.  Recovery charges may always be deleted
and refunded.  `Op` and `Room` bound the operations.
Amounts, links and the set-up fee are left out.

### ReportAudio

State.  `row[i]` is the audio input (state, consent version, the acceptance it was
captured under, lease, token, whether its day is over, purge state); `out` the
status of the reply derived from it; `res`, `ext` and `budget` the reservations
and the day's ledger, `spent` and `calls` what the provider billed; `blob`,
`post`, `owner`, `task` and `seen` the object in storage, its upload, the
ownership row, the storage task of an erasure receipt and the witness; `said`,
`heard` and `notice` the consent texts, those recorded and the notice.  Each
dispatcher has a program point, its audio, and whether it was authorised for the
next boundary.

| Action | Code |
|---|---|
| `Accept`, `Revoke`, `PrepareNotice`, `SettleNotice` | `record_audio_consent_command`, `prepare_` and `mark_audio_consent_notice_delivered`, `invalidate_audio_consent_notice` |
| `Capture` | `enqueue_audio_input_after_inbound` |
| `Claim` | `_claim_next_audio_input` |
| `Authorise`, `Refuse` | `_audio_claim_still_authorized` before each boundary, `_wait_for_audio_authorization` |
| `Download`, `Begin`, `Post`, `Finish`, `Unknown` | `_run_audio_provider_chain`, `private_storage_begin_upload`, `upload_cell_report_audio`, `_upload_owned_audio` |
| `Reserve`, `Transcribe`, `Settle` | `reserve_` and `_settle_audio_transcription_budget` and the paid call between them |
| `Stage`, `Extract`, `Complete` | `_stage_audio_transcript`, the extractor, `_complete_audio_extraction_after_provider` |
| `Reopen`, `Denied`, `Failed` | `_reopen_audio_purge_after_late_upload`, `_terminalize_audio_claim`, `_handoff_audio_claim_failure` |
| `Recover` | `_recover_expired_audio_handoff` |
| `SendReply`, `ReplyAnswered`, `SuppressReply` | the send gate of a derived reply, its answer, `_load_audio_pending_reply` |
| `OfficialReport`, `HandOff` | `clear_audio_transcript_after_official_report`, `mark_conversation_for_handoff_locked` |
| `PurgeClaim`, `PurgeRemove`, `PurgeFinish` | the retention pass |
| `Erase`, `Clean` | `private_delete_content`, `process_storage_tasks` |
| `WitnessRead`, `WitnessRelease` | `reconcile_upload_attempts` |
| `Say`, `TurnGate`, `Expire`, `LeaseLapses`, `Land`, `Crash` | the leader, the clock, Storage, the operating system |

One leader, one conversation, one meeting, one budget day.  Money is counted in
units of one call's estimate, so the monetary ceiling and the number of audios are
`DailyLimit` and `MaxAudios`.  A call is billed nothing, its estimate, or one unit
more: the estimate is made from the audio decoded here
(`services/cell_report_audio_service.py:3459-3463`), the bill from the duration the
provider returns (`services/llm.py:905-921`), and nothing keeps the second below the
first.  Such a bill is not settled (`services/cell_report_audio_service.py:2108`): the
reservation stays and the chain fails, and `overrun` counts what is above it.  A row
lock that is taken is a step that is not taken, or one that gives up.  The deadline of a claim is its lease.  An opt-out
ends audios as a handoff does and is not a separate action.  Not modelled: a
conversation returned to the agent, captures after an erasure, and
`_defer_audio_claim_before_external`, which nothing calls.

Some facts of the code the model makes visible.  An erasure removes reservations
with the conversation while the day's budget keeps their amount, so the budget errs
on the safe side.  An ownership whose request was never made, or was dropped by
Storage, is kept for ever: nothing can tell it from one that may still land.  That
is by design and is why `ErasureEnds` has a premise.  The retention pass only
selects rows captured under an older consent text; those of the current version
are never purged by age.

## 3. Runs

| Run | Instance | Distinct states | Shows |
|---|---|---|---|
| `queue_faults` | 2 workers, 1 claim, 3 attempts, every fault | 661,709 | `TypeOK`, `NothingLost`, `FenceExclusive`, `SettledStaysSettled`, `RetryAdvances` |
| `queue_delivery` | 3 workers, 2 deliveries of one message, 2 attempts; crashes, lost replies, failing turns | 479,999 | `OneTurnPerMessage`, `DoneMeansAnswered`, `OrphansDiscoverable`, `CanonicalPresent` |
| `queue_liveness` | 2 workers, a message and a malformed raw, 2 attempts; crashes, half-executed scripts, database and turn failures | 28,180 | `EventuallySettled` |
| `queue_forgotten` | database failures next to failing turns, 3 attempts | | violates `DoneMeansAnswered` |
| `reply_faults` | 2 workers, 1 turn, 2 attempts, every fault except `late` | 320,749 | `TypeOK`, `ToolsAtMostOnce`, `SingleTransport`, `PostUnderFence`, `ConfirmedMeansAccepted`, `SuppressedMeansUnsent`, `HumanMeansFenced`, `TerminalFinal`, and `RepliesAtMostOnce`: it implements `OnceDelivery` |
| `reply_settled` | 2 workers, 1 turn, 2 attempts; every fault except those of the database and the lock | 112,042 | `CompletedMeansSettled`, `EventuallyClosed` |
| `broadcast` | 2 workers, 1 broadcast, 2 people, 1 occurrence, 1 crash, every fault | 291,384 | `OneTransport`, `ClosedMeansSettled`, and `DeliversAtMostOnce`: it implements `OnceDelivery` |
| `outbox` | 2 workers, 2 intents of every family and mix of purposes, 2 days, cap 1, 1 retry, every fault | 592,020 | `TypeOK`, `StoppedMeansFenced`, `DailyCap`, and `NotifiesAtMostOnce`: it implements `OnceDelivery` |
| `billing` | 1 request at a time, run again and again, 2 cycles, 2 troubles, `deletes` | 1,096,374 | `TypeOK`, `MonthBilledOnce`, `GateMeansNoDebt`, `OneClaimPerSource` |
| `billing_billed_twice` | the same with `late` | | violates `MonthBilledOnce` |
| `audio` | 2 audios, 1 dispatcher that may die once, 2 consent texts, room for 2 audios and 3 units a day | 2,678,198 | `PaidOnce`, `LedgerCoversEstimates`, `ErasedForGood`, `NoStrandedObject`, `RevokedMeansSilent`, `EndedStays` |
| `audio_ends` | 1 audio and one of an older consent version, 1 consent text | 25,420 | `ClaimSettles`, `ErasureEnds` |

The queue's configurations say `CHECK_DEADLOCK FALSE` because worker ids are
never reused, so in a finite instance all of them may be gone.  The others check
deadlock.

Bounds.  For the queue, two workers give an owner and a recoverer; a third lets the
recoverer die too.  One claim is enough for the properties of one claim, since
claims share only the lists and, when they carry one message, the marker: that
needs two.  With three attempts an envelope fails, fails again and is
dead-lettered, so a first attempt, a middle one and the limit all occur.  A claim
is enqueued once: the id is a fresh UUID.  `DoneMeansAnswered` holds in
`queue_delivery` because its faults leave out database failures.  Payloads that
never reach the agent (echoes, foreign and ignored events) are in the model, and
the theorems hold with them; the runs take messages and malformed raws.

For the reply ledger, two workers are a stale owner and its successor, or the
worker and its own retry; two attempts give a retry and the last attempt.
`CompletedMeansSettled` is checked while the database and the lock's connection
hold, because it rests on the advisory lock: without it a stale owner can return
a row to PENDING after its successor acknowledged the claim.  Even with it, a
worker that stalls before `_reserve_agent_reply_intent` can leave a RESERVED row
behind an acknowledged claim; nothing is sent for it.

For the broadcast, two people are the least at which two transactions can settle
the last two deliveries of one execution; one occurrence is enough since
occurrences share only the broadcast's row.  For the outbox, a cap of one and two
intents make the cap bite, and two days let a retry move to another day.  For
billing, two cycles let a late event of the older one meet the newer, and a trouble
is a reversal or a refusal: with two, a recovery may itself be reversed.  In `billing`
one `Request` stands for the owner's calls one after another, each of which may be
abandoned anywhere with its POST still under way, beside all webhooks.  The code does
not keep two calls from overlapping, and when an invoice is deleted `OneClaimPerSource` and `MonthBilledOnce` are false if they do: disagreement 6 below
is the counterexample.  What `billing` shows of deletions is therefore bound to calls
that do not overlap.  Without deletions there is no such bound: two requests that
race for one invoice and its recoveries, with one cycle and three troubles (925,752
states) or two of each (10,014,265), keep all three properties, and section 5 proves
it for any number.  For the audio chain, a second audio shares budget, conversation
and consent with the first; one dispatcher with a crash gives the dead owner and its
recovery; a bill above its estimate meets the other audio's reservation at the
ceiling.

Fairness.  In `WebhookQueue` (`FairSpec`) a live worker keeps taking steps (`run`
is a loop with bounded waits), the `finally` block is reached, keys with an expiry
expire, and the supervisor starts the workers it has.  `recover_pending` and
`_promote_due_retries` come before the blocking pop on each pass, so a pass that
could recover or promote does not come round for ever without doing it: strong
fairness for them, for the pop, and for a successful acknowledgement (Redis does
not reject the same removal for ever).  Crashes are bounded by the number of
worker ids; lost replies are left out of the liveness run, because an endless
outage settles nothing; so are stalls, because of the first disagreement below.
In `AgentReply`, a worker process keeps running and takes a free claim when it is
idle (weak fairness); the handoffs, the faults and the theft of a claim are not
fair.  In `ReportAudio` the cron goes on: leases run out, the recovery pass, the
witness and the cleanup take their turns, and a removal that is asked for again
and again succeeds once (weak fairness of `LeaseLapses`, `Recover`, `WitnessRead`,
`WitnessRelease` and a committed `Clean`); nothing is assumed of the dispatcher,
the leader or the upload.

## 4. Where code and documentation disagree

Two of these are runs with a counterexample.

1. *Forgotten message* (`queue_forgotten`).  After a failed turn, an ingestion
   error on the next attempt deletes the marker; the attempt after that counts as
   new, finds the row already stored, skips the agent and marks the message done.
2. *Month billed twice* (`billing_billed_twice`).  `recover_invoice` restores a
   deleted invoice and binds it to the recovery.  The deletion notice, when it
   comes only then, finds the operation by that id, reads as a reversal of the
   recovery, and opens a new one; the next recovery posts a second charge while
   the restored invoice is payable.  `_apply_operation_event` says it converges
   for events that come twice or out of order.

The others were met while modelling, by instances not kept as runs or by reading:

3. *Stranded raw.*  A worker that stalls between renewing its lease and the
   blocking pop can be recovered and removed from the registry meanwhile.  The raw
   it then pops stays in a private list that no recovery visits, though the code
   says it "remains discoverable".  (`OrphansDiscoverable` with `stall`.)
4. *Second turn.*  The release of the first disagreement lets another delivery of
   the message take the marker; if its worker crashes, the recovered envelope
   resumes and runs the agent again under another claim.  (`OneTurnPerMessage`
   with database failures.)
5. *Suppressed although delivered.*  A timeout, 408 or 5xx of the agent's POST is
   retryable, so a reply the provider accepted returns to PENDING.  A handoff or
   opt-out before the retry then suppresses it as one that "never reached
   transport".  (`SuppressedMeansUnsent` with `late`.)  Without the handoff the
   retry sends it again, which `_deliver_agent_reply_intent` accepts and the
   docstring of `AgentReplyRetryable` denies.
6. *Settled debt claimed again.*  A recovery that enters the restoring path of
   `recover_invoice` with no open operation stages one without asking
   `find_settled_recovery` (`routers/subscription.py:2751-2756`).  If another request
   recovered that invoice and the payer paid in between, a settled debt is claimed
   anew; `find_settled_recovery` says a debt only returns if its own recovery is
   reversed (`services/billing.py:412-415`).  (`OneClaimPerSource` with two requests,
   two cycles, two troubles and `deletes`, 3,028,635 states: the restoration was
   refused, the next cycle moved the row on, and the debt was recovered and paid
   while the second request waited for its GET.)  In the same instance the month is
   billed twice (`MonthBilledOnce`): the second request goes on to restore the
   invoice whose recovery was paid.  `GateMeansNoDebt` passes there (21,940,281
   states), but only because it excepts a source whose recovery was refused: the new
   claim may stand behind an open gate.  With a third cycle one request is enough for
   that: its source was refused, another debt was paid meanwhile and opened the gate,
   and the staging does not look at the gate.
7. *Retry that is not one.*  `_reschedule_outside_window` turns a `retry` back
   into `pendente` (`services/notification_outbox.py:1488`).  On the next day such
   a row no longer counts as a proven retry that may move its reservation, so it
   ends as obsolete, though `_notification_quota_rank` says such a retry may move
   to a later day (`services/notification_outbox.py:1385-1387`).
8. *Silent budget refusal.*  An audio refused by the budget is ended in the
   reservation's own transaction, so the failure handler, which then no longer owns
   the row, hands nothing to a human, though its docstring says a boundary that
   fails closes towards the human path (`services/cell_report_audio_service.py:2898`).
9. *Read for nothing.*  `GET /subscription` applies what it reads of an open
   recovery's charge (`_reconcile_open_recovery_payment`) but the session closes
   without a commit.
10. *Corners of the recovery.*  A restoration whose re-read finds a refund puts
    back to `prepared` an operation another request may be creating; a second
    restoration of one invoice meets the unique index on the payment id; a POST
    withheld because writes are disabled, while another request reconciles the
    operation, leaves it in `reconciling` for good.
11. *Revocation and transport.*  A revocation overwrites the status of a derived
    reply that is in transport, so a delivered summary may be on record as one that
    was not answered.
12. *Execution left open.*  See `BroadcastDelivery` above.
13. *Ceilings bind estimates.*  A transcription billed above its estimate leaves only
    its estimate in the ledger, so a day may cost more than the ceiling that the notes
    of this feature state without that limit
    (`src/docs/sprints/2026-09-27-v1b-relatorio-celula-audio.md:13`,
    `src/docs/ops/v1b-cell-report-audio-20260927/README.md:9`).

## 5. Proofs

Each detailed module has a proof module.  Every theorem is for all values of the
constants under the named assumption of its module, and, unless stated, for every
set of faults.

| Module | Theorem | Statement |
|---|---|---|
| `WebhookQueueProofs` | `Invariance`, `TypeCorrect` | `Spec => []QueueInv`, `Spec => []TypeOK` |
| | `AtLeastOnce`, `Exclusion`, `Settlement` | `[]NothingLost`, `[]FenceExclusive`, `[]SettledStaysSettled` |
| | `Advance` | `Spec => RetryAdvances` |
| `WebhookDeliveryProofs` | `Discovery` | without `stall`: `[]OrphansDiscoverable` |
| | `CanonicalKept` | without `lua`: `[]CanonicalPresent` |
| | `SingleTurn`, `DoneAnswered` | without `db`, `commit`, `ttl`: `[]OneTurnPerMessage`, `[]DoneMeansAnswered` |
| `AgentReplyProofs` | `TypeCorrect`, `ToolsOnce`, `OneTransport` | `[]TypeOK`, `[]ToolsAtMostOnce`, `[]SingleTransport` |
| | `HumanFenced`, `PostFenced`, `ConfirmedAccepted` | `[]HumanMeansFenced`, `[]PostUnderFence`, `[]ConfirmedMeansAccepted` |
| | `TerminalStates` | `Spec => TerminalFinal` |
| | `Refinement`, `SuppressedUnsent` | without `late`: `Spec => RepliesAtMostOnce`, that is `Once!Spec`; `[]SuppressedMeansUnsent` |
| | `CompletedSettled` | without `db`, `commit`, `drop`: `[]CompletedMeansSettled` |
| `BroadcastDeliveryProofs` | `TypeCorrect`, `SingleTransport`, `Settlement` | `[]TypeOK`, `[]OneTransport`, `[]ClosedMeansSettled` |
| | `Refinement` | `Spec => DeliversAtMostOnce`, that is `Once!Spec` |
| `NotificationOutboxProofs` | `TypeCorrect`, `CapHolds`, `RefusalHolds` | `[]TypeOK`, `[]DailyCap`, `[]StoppedMeansFenced` |
| | `Refinement` | `Spec => NotifiesAtMostOnce`, that is `Once!Spec` |
| `ReportAudioProofs` | `TypeCorrect`, `PaidAtMostOnce`, `WithinBudget` | `[]TypeOK`, `[]PaidOnce`, `[]LedgerCoversEstimates` |
| | `Silence`, `Erasure`, `NothingStranded` | `[]RevokedMeansSilent`, `[]ErasedForGood`, `[]NoStrandedObject` |
| | `EndIsFinal` | `Spec => EndedStays` |
| `MonthlyBillingProofs` | `TypeCorrect`, `PostedOnce`, `OneWriter` | without `again`: `[]TypeOK`; no key is posted twice; no two requests may write for one operation, nor one after its POST is under way |
| `MonthlyDebtProofs` | `OneClaim`, `GateClosedOverDebt`, `BilledOnce` | without `deletes`: `[]OneClaimPerSource`, `[]GateMeansNoDebt`, `[]MonthBilledOnce` |

*Queue.*  The assumptions are `QueueAssumption`: types of the constants, a positive
limit, and that the placeholders are not workers, claims or envelopes.
`NothingLost` alone is not inductive: a stale copy is dropped by reconciliation
because the canonical one is elsewhere, and an acknowledgement removes the only
copy because there is only one.  `QueueInv` adds what those steps rely on: the
retry state and the acknowledgements agree (`AckMatchesState`); a claim without a
retry state has exactly one envelope, in one place (`FirstAttemptUnique`); no live
envelope has used up its attempts (`BelowLimit`); everything belongs to a
delivery that was made (`NothingInvented`); and the local variables mean what the
program point says (`LocalsMeanSomething`).  The proof has a lemma per list
operation, one per kind of step, and one that combines them; exclusion,
settlement and the action property follow from the invariant.

*Delivery.*  `WebhookDeliveryProofs` adds three invariants, each under the faults it
survives.  `Recoverable`: without `stall` a lease is lost only with its process, so
only lists of ended processes are drained, and one found empty stays empty until the
registry forgets it.  `CanonicalOf`: an envelope leaves a list only when the same
script or pop puts it in another, or its claim no longer needs it; `lua` is the fault
that stops a script between the two.  `MarkerKept`: a message has a turn behind it or
a worker entitled to one only while the marker is held for it (`Entitled`), which a
failed ingestion (`db`, `commit`) or an expiry (`ttl`) undoes: disagreements 1 and 4
above are those steps.  `AnsweredInv` builds on it and on the fence: a worker past
its fence whose claim was taken over can no longer mark the message done.

*Reply.*  The assumption is `ReplyAssumption`: a positive limit, known faults,
placeholders that are not workers or turns.  The argument has two layers.
`NextEffect` shows that every step, whoever takes it, has the effect of one worker
or none: which row moves it makes and at which program point, where it may arrive,
and what it does to the send ownership and the history (`Effect`).  The invariants
follow from `Effect` alone.  `ToolsInv`: a row that can still be begun has not run
its tools, and a worker about to run them is the only one.  `TransportInv`: a worker
in transport holds the ownership row, so a second insert fails.  `FenceInv`: between
the last check and the request only a handoff moves the row.  `AcceptInv`: an
accepted reply is in transport or recorded as sent, and whoever may still undo the
transport acts for one not yet accepted.  The refinement maps what is not yet in
transport to `waiting` and an interrupted execution to `refused`; `EffectOnce` takes
each row move of `Effect` to its step of `OnceDelivery`, a withdrawal by `AcceptInv`
and a confirmation by `AckInv`.  With `late` it is false: `Release` withdraws a reply
the provider has.  None of these invariants mentions the advisory lock or
the Redis owner: tools at most once and one transport at a time rest on the database
alone, and the lock only serves `CompletedMeansSettled`.  For that one the lock
matters: `Place` says that its holder knows the state of its row from its program
point, and `SettledInv` that the turn of an acknowledged claim is terminal or left in
transport by nobody (`Stuck`), or was never begun (`Parked`), and that both last
although a worker of the lost claim may still act.  Each of `db`, `commit` and `drop`
alone breaks it (TLC finds a counterexample for each), so the theorem excludes the
three.

*Broadcast.*  `BroadcastAssumption` gives the bounds and the placeholder.  `SendInv`
relates workers to rows: a worker with a delivery still holds it or the reaper gave
it up, and nobody else works on it (`JobInv`); an open transaction settles its
worker's delivery, suppresses an unclaimed one or quarantines orphans, and nobody
else changes those rows (`WriteInv`); what the provider took is in flight, in doubt
or recorded (`AcceptInv`).  The refinement then has one case per way a row moves.
For `Settlement` the invariant also ties the executions a transaction counted to
the rows it has locked: what it found done stays done until it commits.

*Outbox.*  `OutboxAssumption`.  `SendInv` has the same `JobInv` and `AcceptInv`, and
for the cap `StartInv` (a capped row is sent on the day it reserved, because a lease
does not outlive the day) and `QuotaInv` (the reservations of each day are at most
`Cap`).  `Slots(d)` is shown to be finite along the way, so the set of intents need
not be.

*Audio.*  `BoundsAssumption`.  `AudioInv` has a part per question: a row that a worker
was given is never given again (`JobInv`), so it is paid for once (`PaidInv`); a
worker between a reservation and its settlement holds a reserved unit,
which a bill above its estimate leaves where it is (`MoneyInv`); what may still be said
belongs to an acceptance no recorded revocation follows (`SilenceInv`, `RowInv`); whoever may still write an object owns its upload
(`UploadInv`), and an object has a row or a task (`StoreInv`).  One layer shows what
each step may do to one row and its reply (`RowsMove`), and to one worker; each part
of the invariant follows from those in a lemma of its own.  The proofs are for any
number of dispatchers, the run for one.

*Billing.*  `BillingAssumption` and, in each theorem of `MonthlyBillingProofs`, that a restored invoice is not
reversed again.  A request about to write to Asaas holds a token for its operation;
`PostInv` says tokens are exclusive and that a `prepared` operation has none,
nothing in flight and nothing posted.  Every transaction on the rows is shown to
keep this by one relation (`Kept`): it inserts operations, moves used ones forward,
or is the claim's holder.  `HistoryInv` closes the exception (10 above): a restored
invoice found refunded would free a claim its finder does not own, and it is here
that the assumption is needed.

*Debt.*  `MonthlyDebtProofs` assumes `RefundsOnly`: Asaas deletes no invoice.  Nothing
is assumed of the requests: any number of them overlap, race for one operation, die at
any step, leave a POST behind, and apply answers that webhooks and the others have
overtaken; cycles, reversals and refusals are unbounded.  With deletions
`OneClaim` and `BilledOnce` would be false (disagreements 2 and 6), and the refusal
that `GateMeansNoDebt` excepts would hide a new claim; the partial unique index, the claim
and `find_settled_recovery` carry them for refunds.  `DebtInv` has these parts.
`Undeleted`: nothing was deleted or restored, so no request takes the restoring path
(`NoRestore`) and `StaysRestored`, the hypothesis of `BillInv`, holds.  `OpOK`: the
source of an operation stays refunded; an operation nobody has claimed, or whose POST
was refused, has no POST in flight and no charge; a paid or reversed one had its
charge.  `Sole` and `Represented`: a source that ever had an operation keeps one that
is open, paid or refused, and never two that are open or paid.  `RowOK`: a reversal on
record happened, and behind an open gate no operation is open.  `NoticesTrue` and
`Knows`: what a notice or a request says of a reversal or a payment still holds, and
who is about to post has claimed.  A transaction of one request keeps what the others
know because it frees no operation that was claimed (`Onward`, `KnowsOnward`), except
`PostDisabled`, whose holder has the only token (`PostInv`), and a refusal, which ends
the operation; Asaas's own steps keep it because what was refunded or posted stays so
(`Ages`, `Carry`).  No part is inductive alone: a stale reversal stages nothing only
because `Knows` and `OpOK` say its source is still refunded, and `Settled` or an open
operation then stands for it.

Only model-checked.  Liveness, which is outside the prover's reach:
`EventuallySettled`, `EventuallyClosed`, `ClaimSettles`, `ErasureEnds`.  Every
invariant and every other action property of a passing run is a theorem, for
`MonthlyBilling` under the hypotheses above: what `billing` shows of deletions is
model-checked only.

## 6. Not modelled

- *Action proposals and privileged turns*, *cell report workflow*: a proposal
  staged with a reply and confirmed once.  They are transactions under the reply's
  row lock; the part that races (reply delivered, revoked, suppressed) is in
  `AgentReply` and `ReportAudio`.  Next in the plan.
- *Tenant deletion and external cleanup*, and the deletion scopes above one
  conversation: the lease and retry shape is that of `Clean` and the witness.  Next
  in the plan.
- *Consolidation workflow*, *cell requests*: state machines serialised by one row
  lock, one transaction per step; their notices are in `NotificationOutbox`.
- *The older reminder sender* of `services/cell_report_reminders.py`, with the
  outbox's shape; the set-up fee, the creation of a subscription and the change of
  plan in billing; the tier A path and the secretariat offer's own states.
- *Cron worker, SLA engine*: a loop over the modelled jobs; double ticks only repeat
  claims.
- *Agent graph, prompts, semantic contracts*: what is said, not when; its outcomes
  are the free results of a turn.  *Turn plan contract* and *consent evidence
  stores*: value checks and ports that no worker calls yet.
- *Authentication, sessions, rate limits, panel API, provider and storage clients,
  church domain, schema and row-level security*: single statements, single
  transactions or thin clients.  The constraints and classified results the modelled
  code relies on are in the models.
- *Frontend, deployment*: no shared state of their own.

## 7. Plan

1. Action proposals and the report workflow: staged with a reply, promoted when it
   is delivered, confirmed, superseded or expired; with `AgentReply` below.
2. Tenant deletion: manifest, cleanup leases, retryable tasks, reopened after a late
   upload; an abstract specification of cleanup that it and `ReportAudio` implement.
3. Billing: the set-up fee and the change of plan on the same operations table; deletions
   with concurrent requests once the restoring path asks `find_settled_recovery`.
4. The composition of `AgentReply` with the queue, whose `AgentTurn` step becomes an
   abstract turn (tools at most once, an end that is recorded).
5. Proofs: the refinement of the abstract turn of 4.
