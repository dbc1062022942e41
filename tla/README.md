# julong-api: TLA+ models of its billing core, login sessions and playground

julong-api is a gateway written in Go in front of many AI providers. It
authenticates a client's token, picks an upstream channel, converts the request,
relays it, and charges the user for it; a web console (TypeScript) administers it
and has a chat playground. Getting a price wrong is an arithmetic mistake that a
unit test finds; charging twice, never refunding, reviving a revoked session or
mixing two replies is a mistake of interleavings, partial failures and crashes.
This project models the parts where that can happen.

| module | models | proofs | TLC instance |
|---|---|---|---|
| `BillingSession` | one user's concurrent relay requests: pre-consume, reserve, settle, refund | `BillingSessionProofs`, `BillingLedgerProofs` | `MCBillingSession` |
| `TaskLifecycle` | an asynchronous (video, music, image) task: submission, polling, timeout, settlement, refund | `TaskLifecycleProofs` | `MCTaskLifecycle` |
| `SystemTaskLease` | the durable job runner with its lock rows, which schedules the polling | `SystemTaskLeaseProofs` | `MCSystemTaskLease` |
| `LoginSessions` | the tabs of a browser, their shared cookie, refresh rotation, sign-in and sign-out | `LoginSessionsProofs` | `MCLoginSessions` |
| `SessionCache` | a session row and its Redis snapshots under revocation and version changes | `SessionCacheProofs` | `MCSessionCache` |
| `RevocationWindow` | what the documentation promises of revocation; implemented by `SessionCache` | the refinement, in `SessionCacheProofs` | checked through `MCSessionCache` |
| `PlaygroundChat` | the chat playground: requests, stream, buffer, renders, storage | `PlaygroundChatProofs`, `PlaygroundReplyProofs` | `MCPlaygroundChat` |

`PROJECT.json` lists the components, the runs, the source lines behind every
definition, the mutants that show each property can fail, the findings, the
hazards and the theorems.

## 1. Inventory

### Components, their state and their operations

**Billing session** (`service/billing_session.go`, `funding_source.go`,
`billing.go`). State: per request, what was reserved from the token and from the
funding source (wallet or subscription), the flags settled, refunded,
fundingSettled, trusted. Operations: preConsume (token, then funding, with
rollback), Reserve (funding, then token, with rollback), Settle (charge the
difference to the actual quota), Refund (in a goroutine). Hard: every operation
touches two rows without a common transaction, so each may stop half way; a
refund races everything else the user does; two sources with fallback.
Correct when a success pays exactly once, a failure pays nothing, nothing is
returned twice, and admission does not spend what is not there.

**Request lifecycle** (`controller/relay.go`, `relay/request_billing.go`).
State: the retry count and the relayInfo of the request. Operations: estimate,
attempt, retry, settle or fail. Hard: the estimate may rise before each attempt.

**Violation fee** (`service/violation_fee.go`, `service/quota.go`): a fee charged
after a failure, beside the running refund.

**Account rows** (`model/quota_reserve.go`, `model/user.go`, `model/token.go`):
conditional reservations and unconditional increments of the wallet and token.

**Subscription quota** (`model/subscription.go`): amount_used against
amount_total, the pre-consume record per request id, periodic reset, expiry.
Correct when the total is never exceeded and a record is refunded at most once.

**Asynchronous task lifecycle** (`service/task_polling.go`, `model/task.go`,
`relay/relay_task.go`, `controller/relay.go`) and **task billing**
(`service/task_billing.go`). State: the task row (status, quota, progress,
failure count, updated_at) and each pass's copy of it. Operations: insert,
timeout sweep, refund reconciliation, poll, realtime fetch, refund and
recalculation. Hard: passes overlap, work on stale copies and crash between
status, money and marker; `quota` is price and refund marker at once. Correct when
a terminal status is final, the marker says what is held, every task ends and
every failed one gets its money back once.

**System task runner** (`service/system_task.go`, `model/system_task.go`).
State: the job rows, one lock row per job type, the runner loops and handlers.
Operations: sweep of expired locks, schedule, claim, heartbeat, finish. Hard:
no transaction covers lock and row, processes stall and crash. Correct when a
job is started once, outcomes are final and recorded under a lease, and no job
stays active for ever.

**Login sessions on the server** (`service/auth_session.go`,
`controller/auth_session.go`, `model/user_session.go`). State: the row
(status, version, refresh hash, previous hash with its 30 s window) and one Redis
hash per Redis instance. Operations: create, refresh, logout, revoke one or
many, advance the version, validate. Hard: row and cache are written separately,
by processes that may stall in between. Correct when an honest browser is never
mistaken for a thief, and a revoked session is out of every cache within the TTL.

**Login sessions in the browser** (`web/src/lib/auth-session.ts`,
`http-client.ts`, `auth-session-sync.ts`, `stores/auth-store.ts`,
`routes/__root.tsx`, `features/auth/api.ts`). State: per tab the session and
bootstrap state, one refresh promise and an epoch; per profile the cookie, the
Web Lock and the event channel. Hard: every await is a place where another tab,
a sign-out or a reload gets in between. Correct when a tab neither returns to a
session it left nor swaps one for another, and nobody waits for ever.

**Chat playground** (`web/src/features/playground`). State: messages, request
generation, stream controller, 50 ms chunk buffer, debounced save, storage per
account. Hard: React runs updates when it likes; headers, chunks, timers and
clicks interleave. Correct when a reply is exactly what its request was sent,
is final once it is final, and is stored for its owner.

**Quota cache and batch updates** (`model/utils.go`, `user_cache.go`,
`token_cache.go`): three copies of a balance (database, Redis hash, batch
queue). **User auth versions** (`model/user_auth_cache.go`). **Top-ups and
redemption codes** (`model/topup.go`, `redemption.go`): callbacks that arrive
twice. **Channel cache, selection and affinity**, **rate limiting**,
**midjourney tasks**. These are stateful and not modelled yet.

**Billing expressions**, **task plugins**, **protocol conversion and
adaptors**, **administration, logs and e-mail**, **web console pages**,
**desktop shell**: floating point arithmetic, scripts, stateless translation,
single-row handlers, forms. Not planned, the desktop shell last.

### How they interact

`controller/relay.go` opens a billing session for every request and ends it in
Settle or Refund. A task submission uses the same session up to the moment its
row is inserted; from then on the task row carries the charge and
`task_billing.go` adjusts wallet, subscription and token directly. The system
task runner starts `RunTaskPollingOnce` as a job; when its lease is lost the
job's context is cancelled, but the pass may still be in the middle of a
statement while another node starts the next one: this is why `TaskLifecycle`
has several passes. A realtime fetch (`tryRealtimeFetch`) writes task rows from
a client's request, outside any lease.

The browser's refresh (`LoginSessions`) calls RefreshLoginSession, which asks
the cache first and publishes the rotated row: that cache is `SessionCache`,
where a rotation is one more filler and reuse one more revoker. The playground
asks the refresh for its headers before it opens a stream, and stores its
conversation under the account the session store names: `SetUser` in
`PlaygroundChat` is the one effect of `LoginSessions` it can see.

The hazards of the code, each at its line and with the properties that would
notice it, are in `PROJECT.json`.

## 2. Plan

Done: `BillingSession`, `TaskLifecycle`, `SystemTaskLease`, `LoginSessions`,
`SessionCache` with its abstract specification `RevocationWindow`, and
`PlaygroundChat`, each with its proofs (section 10).

Next, in this order:

1. `ChargeLedger`, the abstract specification of a charge (opened with a hold,
   changed, closed once as paid or returned), implemented by `BillingSession` and
   by `TaskLifecycle` under a refinement mapping of the history variables.
2. `QuotaStore`: database, Redis hash and batch queue of one balance, hydration,
   the token fence, crash between two flushes.
3. `SubscriptionQuota`: purchase and expiry beside the pre-consume, refund, reset
   and post-consume that `BillingSession` already has.
4. `TopUp` (order status, conditional credit, duplicate callbacks) and the rate
   limiter; channel retry order if time allows.

## 3. BillingSession

Requests of one user with one token; users share nothing. `wallet`, `token`,
`used` and `record` are the rows; `sess[r]` is the BillingSession with its
FundingSource; `pc[r]` and `rpc[r]` say where the handler and the refund
goroutine are. Each access to a row is one step, because each is one SQL
statement or Lua script (or one transaction) in the code. Anything may happen
in between.

| action | code |
|---|---|
| `PrepareRequestBilling`, `NewBillingSession`, `TryWallet` | PreConsumeBilling, NewBillingSession, tryWallet/trySubscription, shouldTrust |
| `PreConsumeToken`, `PreConsumeFunding`, `RollbackToken` | preConsume, WalletFunding/SubscriptionFunding.PreConsume |
| `PrepareAttempt`, `ReserveToken`, `RollbackFundingReserve`, `AttemptAborted` | the loop of Relay, Reserve, reserveFunding, reserveToken, rollbackFundingReserve |
| `Upstream` | the relay call, shouldRetry, the deferred failure handling |
| `SettleFunding`, `SettleToken` | SettleBilling, Settle, PostConsumeQuota without a session |
| `Refund`, `RefundFunding`, `MarkRefunded`, `RefundExtra`, `RefundToken` | Refund and its goroutine, refundWithRetry, RefundSubscriptionPreConsume |
| `ChargeFee`, `ChargeFeeToken` | ChargeViolationFeeIfNeeded, PostConsumeQuota |
| `ResetDue` | ResetDueSubscriptions; the same reset is part of `PreConsumeFunding` (maybeResetUserSubscriptionWithPlanTx) |

`Periodic` are the subscriptions whose plan resets amount_used; a reset may fall due
at any moment, inside a pre-consume (for the candidates looked at before the one that
fits, and for that one) or by the background job.

`FaultyOps` names the database writes that may fail. `fundTaken`, `tokTaken`,
`fee` and `scar` are history: what was really taken, and whether a compensating
write was lost (the code logs and goes on, so no property holds for the money
of that write).

Abstractions: what an estimate or an actual price amounts to is any member of
`Amounts`. One attempt refreshes its estimate up to twice; `PrepareAttempt`
does it once (an image attempt may reserve twice in the code), and two rises in a row
occur over two attempts. Realtime
(WebSocket) sessions, which charge in increments, are left out, and so are the
cached copies of the balances. A handler that panics on its first attempt refunds
nothing in the code; it ends in `panicked` here and keeps its reservation. On a later
attempt newAPIError still holds the previous error, so the deferred handler refunds. Process crashes are
not in this module: nothing is persisted about an open session, so there is no
recovery to check.

Properties: `TextRefundReturnsAll`, `NeverOverRefunded`, `SuccessChargesOnce`,
`SubscriptionCap`, `AdmissionNeverOverdraws`, `RowsAgree` (wallet, token and
subscriptions without reset are exactly what the requests left of them; a subscription
with one shows at most what they hold), `EveryRequestEnds`.

What it shows beside them: after a reset amount_used no longer covers what earlier
requests hold, so a refund of quota taken before the reset is subtracted from the
usage of the new period, down to max(.., 0) (`subscription.go:1569`), and other
requests of that period are forgiven as much. Equality therefore is claimed only for
subscriptions whose plan never resets.

## 4. TaskLifecycle

One task row. Tasks share only the accounts they add to and subtract from, so
what happens to one is independent of the others. `row` is the row, `pass[p]`
a polling pass with its copy of the row, `fetch[f]` a client's realtime fetch,
`fresh` says that updated_at is within the 30s grace period, `overdue` that the
task is past its timeout. A task submitted before TaskRefundLegacyCutoff is a
`legacy` kind and starts as a paid row.

| action | code |
|---|---|
| `Submit`, `Insert`, `Settle` | executeTaskSubmissionWith: submission and Reserve, the durability barrier, SettleBilling |
| `SweepRead`, `SweepTimedOut` | sweepTimedOutTasks |
| `ReconcileRead`, `ClaimQuota`, `RestoreQuota` | sweepUnrefundedFailedTasks, ClaimQuotaForRefund, RestoreQuotaAfterFailedRefund |
| `PollRead`, `PollTerminal`, `PollProgress`, `PollFailure`, `PollChannelLost` | GetAllUnFinishSyncTasks, updateVideoSingleTask, updateBatchTasks, finalizeTerminalTask, recordPollFailure, TaskBulkUpdateByID |
| `AdjustFunding`, `AdjustToken`, `WriteMarker` | RefundTaskQuota, RecalculateTaskQuota |
| `FetchRead`, `FetchWrite` | tryRealtimeFetch |
| `CrashPass`, `CrashSubmission`, `PassCancelled` | death of the process, lost lease |
| `GraceElapses`, `TimeoutElapses` | time |

Abstractions: the submission's session is the result of `BillingSession` (it
holds at least result.Quota, or nothing if trusted). Two active statuses stand
for the four of the code, which no condition tells apart. Upstream answers
anything at any time. The answer itself and the write that follows it are one
step: the copy was read earlier, and nothing else is read in between. With
`MaxFailures = 0` the failure count is never compared, so it is not kept. A settlement
whose funding half succeeds and whose token half fails is one failed settlement.
`TimeoutSweep = FALSE` is TaskTimeoutMinutes <= 0. The
rewriting of SubmitTime by batch answers is left out: `overdue` may become true
at any moment and a later SubmitTime only delays it.

Properties: `MarkerTruthful`, `NoOverRefund`, `FinalCharge`, `TerminalIsFinal`,
`EveryTaskEnds`, `FailureIsRefunded`.

Where they stop. A trusted submission whose settlement fails or whose process
crashes has a row whose quota was never taken (the properties speak of `Submitted`
tasks). The history variable `lost` collects the writes that failed and four
`Accidents` the code does not guard against: a realtime fetch wrote its copy of the
row back, a crash cut an adjustment off (after a claim the refund is lost, between
money and marker it is repeated), an adjustment outlasted the grace period, a
vanished channel failed a task that had ended. `MarkerTruthful` and `NoOverRefund`
hold until one of the first three (`Sound`), `FinalCharge` while `lost` is empty;
each condition is necessary, TLC finds the property violated without it.

`TerminalIsFinal` has two exceptions, written into the property. If a channel is
deleted, TaskBulkUpdateByID (`task_polling.go` lines 221, 296, 476) overwrites a
status another pass has just written with FAILURE (`ByBulkUpdate`), against the warning
above its definition (`model/task.go:609`). A realtime fetch that had read a terminal
status writes whatever upstream answers over it (`ByLateFetch`, `relay_task.go:612`); a
fetch begun before the task ended loses the status CAS like everybody else.
`EveryTaskEnds` excepts the task that stays active at 100%, which neither the polling
nor the sweep selects.

## 5. SystemTaskLease

One job type: its rows, the single lock row, the loops of the runners and the
handlers they dispatch. Every SQL statement is a step; the lock's expiry is a
step of its own.

| action | code |
|---|---|
| `ExpireRead`, `ExpireMark`, `ExpireDelete` | ExpireStaleSystemTaskLocks, MarkSystemTaskLeaseExpired |
| `ScheduleRead`, `CreateTask` | runSystemTaskScheduler, CreateSystemTask |
| `ClaimRead`, `AcquireInsert`, `AcquireInspect`, `AcquireTakeOver`, `ClaimMarkOld`, `ClaimStart` | runSystemTaskClaimPass, ClaimSystemTask, acquireSystemTaskLock |
| `Heartbeat`, `FinishTask`, `FinishRelease`, `HandlerReturns` | runWithLeaseHeartbeat, RenewSystemTaskLock, FinishSystemTask, ReleaseSystemTaskLock |
| `Crash`, `LockExpires` | death of a process, time |

A renewal that succeeds is a lease that does not expire. With `Stalls` a
process may fall silent for longer than the TTL anywhere; without it a lock
expires only if nobody attends to it, and the passes that overlapped its
claim (the history flag `old`) are over by then. A sweep that stalls after
listing a stale lock can fail a job by its id after the lock was taken over for the
same job (`model/system_task.go:434`); `OneHandler` is stated without
stalls, the other safety properties with them.

`OneHandler` counts handlers whose context is live; one that was cancelled and does
not look at its context may go on beside the next, which is why `TaskLifecycle` has
overlapping passes. A failing insert or delete of the lock row is not among the
statements that may fail: the loop leaves the lock as it is and comes back.

Properties: `StartedOnce`, `OneHandler`, `OutcomeIsFinal`, `EveryTaskEnds`, and, proved
only, `OutcomeUnderLease`.

## 6. LoginSessions

The tabs of one browser profile, the cookie jar they share and the server's
session rows. A refresh secret is the pair of session and generation, because
the successor is derived from the secret (deriveNextRefreshSecret): generation n
of a session is one value whoever asks for it. `sess[t]`, `boot[t]` are the tab's
store, `run[t]` the refresh behind refreshPromise with its epoch (`current`),
`ref[x]` the HTTP exchange of a tab or of a page that is gone (`Ghost`), `op[t]` a
sign-in, sign-out or security change, `call[t]` an API call that met a 401, `bus[t]` the events not
yet delivered, `lock` the Web Lock.

| action | code |
|---|---|
| `Resolve`, `CallUnauthorized`, `AcquireLock`, `SendRefresh`, `HandleRefresh`, `ReplayCall` | resolveAuthentication, the 401 interceptor, getFreshAuthHeaders, performRefreshWithBrowserLock, createRefreshRunner, runRefresh |
| `CheckRefresh`, `CheckUser`, `RotateRefresh`, `PublishRotation`, `RevokeReused`, `GraceLapses`, `RevokeElsewhere` | RefreshLoginSession with its checks of session and user, RotateUserSessionRefresh (row, then cache), the replay window, RevokeUserSession |
| `ArriveRefresh`, `LoseRefresh`, `ArriveOp`, `LoseOp` | an answer with its Set-Cookie reaches the browser, or is lost |
| `Login`, `HandleLogin`, `SendLogout`, `AuthLogout`, `HandleLogout` | createLoginSession, handleLoginSuccess, executeLogout, AuthLogout, handleSignOut |
| `ChangeSecurity`, `AdvanceSession`, `RevokeOthers`, `HandleRotation` | AdvanceCurrentSessionSecurity, AdvanceCurrentSessionToUserVersion, applyAuthRotation |
| `Reload`, `DeliverEvent`, `DropEvent` | page loads, redirectToSignIn, the listener of RootComponent, the 60 s age limit |

A refresh is four steps on the server: the session is read, the user is compared with
it (a disabled user or another auth version revokes the session and answers 401), the
row is rotated, the snapshot is published. When a version change or a deny fence comes
before the last, the rotation is committed and the answer is a 500 without the new
cookie (`torn`). A security change bumps the user, advances the session and revokes
the others in three transactions, and a refresh may fall between them.

A cookie counts the moment its answer arrives, before the page handles the body,
and also when the page is gone. The server's cache is left to `SessionCache`;
here validation sees the row. Expiry of an access token is the choice of
`Resolve`, `CallUnauthorized` and `bearer`. A page load drops a sign-in or sign-out
that is still on the wire, although the server would handle it and its Set-Cookie
would count; no property depends on that. getFreshAuthHeaders, which refreshes like the interceptor and does not
redirect, is not told apart from it.

Properties: `HonestRefresh` (with the Web Lock, nothing lost and no committed rotation
answered 500, a refresh of a live session is never taken for reuse, and refused only
when a security change has moved the user away from the version it read),
`NeverOutOfSync` (against this
server the runner's retries never run out: deterministic rotation turns every
race into the same successor), `LockHolderRuns`, `SignedOutStays`,
`NoSessionSwap` (but for the bundle that the OAuth page, `routes/(auth)/oauth.tsx:45`,
applies without looking at what the bootstrap restored meanwhile).

What it shows beside them: without Web Locks (plain HTTP) a request delayed by
two rotations is refused and its cookie cleared although the session is live
(`user_session.go:519`; `docs/authentication.md:68` accepts refusing older
generations). A lost answer followed by more than 30 s of silence makes the next
refresh look like reuse, and so does a rotation that was committed and answered 500
(`user_session.go:505`). A refresh between the halves of a security change revokes
the session that made the change (`auth_session.go:301`). A late 401 clears the cookie of a newer sign-in. After a
mismatch the interceptor replays a call under the adopted session. A 409
AUTH_REFRESH_RACE and a second mismatch cannot happen against this server.

## 7. SessionCache and RevocationWindow

One session: its row and its hash in each Redis instance (shared, or one per
node). Time is a clock; an active snapshot is served while `now < exp`.

| action | code |
|---|---|
| `FillStart`, `FillRead`, `FillWrite` | GetUserSessionCached on a miss, RotateUserSessionRefresh, publishCreatedUserSession: deadline, read, publish |
| `RevokeStart`, `RevokeFence`, `RevokeCommit`, `RevokeSeal` | RevokeUserSession, RevokeUserSessionByRefreshHash, revokeUserSessions, the reuse branch: candidate, deny fence, row, tombstone |
| `AdvanceStart`, `AdvanceCommit`, `AdvancePublish` | AdvanceUserSessionAuthVersion |
| `Tick` | time, Redis expiry |

Any process may stall between two steps for any time. A Redis call may fail with
or without effect, and a revoker may crash around its transaction. The siblings
of RevokeUserSession take the same steps under stricter locking, or with the
version of the locked row, and are the same actions. The return value of a
validation (confirmUserSessionActiveSnapshot) is not kept: it compares with the row.

`RevocationWindow` is what `docs/authentication.md` promises for every Redis
topology, in five variables: the row is the authority, a cache that has not
heard of a revocation stops serving at most one TTL after it, a cache that was
told never serves again. `KeepsWindow` states that `SessionCache` implements it
under the mapping revoked <- the row is not active, serving <- the caches with an
active snapshot; every fill, fence and publication is an `Answer` or a
stutter, `RevokeCommit` is `Revoke`, `RevokeSeal` is `Seal`.

Properties: `KeepsWindow`, `TombstoneHolds`, `VersionConverges`. All three rest on one
line: the deadline is captured before the read, so a delayed fill inherits only
what is left of its window (the mutant that starts the window at the write breaks
them).

What it shows beside them: when the final tombstone is lost and the fence has
expired, a delayed fill does serve the revoked session again, until the window
ends; the comment at `user_session.go:282` holds for caches that took the
tombstone. Within a TTL of an advance a cache may fall back to the older version.
A revocation whose candidate was read before an advance is refused by the
version guard and has to be repeated. PEXPIREAT assumes that the clocks of
application and Redis agree.

## 8. PlaygroundChat

One mounted page at a time. `shown` is what the last render showed, `queue` the
updates React has not run, `gen` and `ctl` the generations of the chat handler and
of the stream controller, `pend` and `timer` the chunk buffer, `headers` the sends
that wait for getHeaders, `sources` the open event sources, `saved` the storage.

| action | code |
|---|---|
| `Send`, `Regenerate`, `OpenEdit`, `CloseEdit`, `ApplyEdit`, `Delete`, `Stop` | use-playground-conversation.ts, sendChat, stopGeneration, clearMessages |
| `HeadersSettle`, `Deliver`, `StreamEnds`, `StreamCut` | createStreamRequestController and its listeners, sse.js |
| `FlushFires`, `Respond` | scheduleStreamFlush, sendNonStreamingChat after its await |
| `Render`, `SaveFires`, `Mount`, `Leave`, `SetUser` | React, persistMessages, loadMessages, unmount effects, the session store |

A functional update runs at once when nothing is queued, else in the next render;
a click renders at the end of its handler. Updates of timers, streams and promises
wait, so a click may come first and see older messages. Piece i of the reply to
request g is `<<g, i>>`, sent as a continuation or as a snapshot. `Alike` are the texts
whose continuation starts with the same characters as they do ('1' after '1'):
mergePendingStreamChunk and getAppendableChunk take such a chunk for a snapshot. A load
settles pending messages, may collapse or cut long replies, keeps the newest messages
that fit, drops a conversation above 1 MB, and shows an empty page over one it cannot
read; a save or load that throws is swallowed (`failed`) and not tried again. `raced`
records that a save-edit click fell between a posted update and its render. One
constant names what `SavedOrDue` and `OwnerOnly` assume: `AdoptsAccounts = FALSE`, the
account does not change under a mounted page.

Properties: `OwnReply`, `NothingLost`, `Settled`, `OneOpenStream`, `SavedOrDue`,
`OwnerOnly`, `FinalStays`, `GenerationEnds`.

What it shows beside them: applyEdit is not guarded and writes back the messages of
the last render (`use-playground-conversation.ts:76`), so a save-edit click that
overtakes a render drops a chunk or the update that ends the reply, and a message may
stream for ever; `OwnReply`, `NothingLost` and `Settled` except what follows it. A chunk
that echoes the text so far replaces it (`use-chat-handler.ts:60`,
`message-streaming-utils.ts:74`): the deltas '1', '1', '2' become '12'. Both text
properties say what is left in that case: the pieces in order with a gap, and the
piece that came last. No document or test of the repository claims more, so it is a
stated exception and not a finding. stopGeneration posts the flush under the old
generation and then raises it (`use-chat-handler.ts:364`): unless React runs it
eagerly the last 50 ms of text are dropped. A connection that ends with status 200
and without [DONE] keeps the page generating until the user stops
(`use-stream-request.ts:146`), the exception in `GenerationEnds`. A message sent before the 0 ms load timer fires would be overwritten; the
model loads first.

## 9. Runs

| run | instance | shows |
|---|---|---|
| `billing_wallet` | two requests of any of six profiles, wallet 2, token 2, prices 0 to 2, trust above 1, one retry, fee 0 or 1, all wallet writes may fail | refunds complete, never excessive; success pays once; admission does not overdraw |
| `billing_subscription` | two requests of either source order, two subscriptions of 2 (reset periodically) and 3, wallet 2, failing pre-consumes, rollbacks and refunds, fair | caps; rows agree with the history, a reset one from below; everything ends |
| `billing_image_refund` | one image request | violation, finding 1 |
| `task_overlap` | two passes, all kinds, quotas 1 and 2, every write may fail, one crash, vanished channels, slow refunds | marker, refunds and final charge until an accident; final status |
| `task_live` | one pass, one fetch, one crash, failing marker writes, early 100%, vanished channels, slow refunds, fair | final status, tasks end, markers are cleared |
| `task_usage_failure` | failed tasks report usage | violation, finding 2 |
| `lease_stalls` | two runners, two jobs, one crash, stalls, every statement may fail | started once, final outcomes |
| `lease_live` | the same without stalls, fair | one handler, every job ends |
| `auth_sessions` | two tabs, two sessions, two rotations, two inputs, two faults, Web Locks | honest refreshes, lock, no return to a left session, no swap |
| `session_cache` | two caches, one filler, two revokers, one advancer, TTL 2, clock 4, one fault | refinement of `RevocationWindow`, tombstones, versions |
| `playground` | two accounts, two requests, replies of two pieces of which some echo themselves, three gestures, failing loads and saves, fair | replies, streams, storage, termination |
| `playground_accounts` | the same with `AdoptsAccounts` | violation, finding 3 |

Bounds. Two requests, two passes and two runners are enough for every race
between two steps of different actors; a third actor adds no new pair, and the
theorems of section 10 hold for any number of each. Prices of 0, 1 and 2 against
balances of 2 let a request fit, just fit and not fit beside another one, and
let settlements go both up and down; the subscription run uses 0 and 2 with
totals of 2 and 3, so that two requests exhaust the first subscription and do
not fit together into the second. One retry gives two reservations in one
request. MaxRefundAttempts is the code's 3. One crash loses a
lock holder or a pass in the middle of its refund. `task_live` has one pass, because
two in lockstep may for ever undo each other's SUBMITTED and IN_PROGRESS just before
the sweep's compare-and-swap, and no fairness the code gives excludes that; its second
actor is the realtime fetch. Two jobs are the
least for a takeover from one job to the next. Symmetry is used only in
runs without liveness.

`auth_sessions`: two tabs and the slot of an orphaned request give three
concurrent refreshes; two sessions and two rotations are the least for a
mismatch and for a secret two generations old; two inputs and two faults put a
lost answer, a reload and a sign-out around one refresh. `session_cache`: TTL 2
and a clock of 4 let a filler start before, a revocation happen in the middle, and
fence, tombstone and window all expire within the run; two revokers, because
the fence of one may outlive the tombstone of the other. `playground`: replies of
two pieces, two requests and three gestures are enough to stop or replace one
request while pieces of it are in the source, the buffer and the queue; MaxStored
2 cuts a second exchange. The largest runs have 3.4 million (`task_overlap`), 2.9 million
(`auth_sessions`) and 1.4 million (`billing_subscription`) distinct states; each takes
between one and two and a half minutes.

Deadlock is checked in the runs of sections 3 to 5; `AllDone` and `Rest` are the
states in which nothing is left to do. The bounded inputs, gestures and clock of
sections 6 to 8 run out, so those runs do not check it; there `GenerationEnds`
and `LockHolderRuns` say that nobody waits for ever.

### Fairness

`BillingSession!FairSpec`: the Go runtime keeps running handlers and goroutines,
and upstream calls have timeouts. `TaskLifecycle!FairSpec`: passes go on, the
scheduler starts one whenever there is work, time passes; strong fairness of
`ClaimQuota` says that a pass does not lose its lease every single time it is
about to claim. `SystemTaskLease!FairSpec`: loops, handlers and clocks go on, and
the throttles let the sweep run again and again (strong fairness of the choice
to sweep); a heartbeat that finds its lease gone cancels. The liveness runs let
a statement fail but not for ever: `lease_live` leaves out the statements whose
repeated failure would mean a database that never answers ("mark", "start"), and
`task_live` those of the status, funding and claim writes. `PlaygroundChat!Spec`:
weak fairness of renders, timers and network events only (the browser runs them by
itself); no gesture and no save has to come. A source whose connection was cut
delivers nothing any more. The other specifications state safety only.

## 10. Proofs

All theorems are checked by TLAPS for every value of the constants that
satisfies the assumptions of the component's module (`ConstantsAssumption`,
`LeaseAssumption`, `SlotAssumption`, `BoundAssumption`, `CacheAssumption`,
`CacheBoundAssumption`, `UserAssumption`, `ReplyAssumption`,
`ChatBoundAssumption`): sets of actors are any sets, bounds any natural numbers, a
TTL is positive, a reply is not empty, and the stored conversation has room for
one exchange (the code's limit is 100 messages). A theorem that needs more says
so in its own ASSUME. The inductive invariants stand at the head of the proof
modules; each was an invariant of a TLC run before it was proved.

`BillingSessionProofs`. The invariants are not inductive: nothing in
`TextRefundReturnsAll` says what the session's counters have to do with the
money while a request is still running. `IInv` adds, for every control point of
the handler and of the goroutine, what the session looks like
(`SessionShape`, `GoroutineShape`, `ConsumedShape`) and what has been taken
(`FundingLedger`, `TokenLedger`): before funding nothing, while holding exactly
`pre`, while reserving `pre` and the pending delta, after each refund step what is
still to come. A request's ledger depends on its own session only, so one lemma
per action shows that it keeps its own and leaves the others alone
(`LedgerInvariance`). From it follow `TypeCorrect`, `SuccessChargedOnce`,
`FailureReturnsAll`, `NoOverRefund`; the last two assume `MarkReliable`
(saving the pre-consume record's status does not fail), which limit 1 of section
11 shows to be necessary. `CapRespected` and `AdmissionSafe` need no more than `TypeOK` and the
guards.

`StepsAreBounded` is the half of `EveryRequestEnds` that does not depend on
fairness. `Rank` counts down along the handler and along the goroutine; the handler
goes back only to try the other funding source (`FallbackRank`) and to make
another attempt (`UpstreamRank`), the goroutine only to repeat a failed refund
(`RetryRank`), and each of these spends something that is not given back. Every
step that moves a handler or a goroutine lowers the rank of its request and leaves that
of the others alone (a reset of a subscription moves none), so a
request and its goroutine take at most `24 + 11 * RetryTimes` steps. That a request
with steps left does take one is fairness, and stays with TLC.

`BillingLedgerProofs` is about the rows all requests share. `RowsAgree` equates a
row with a sum over the requests, whose value under one changed summand
(`SumChange`) and whose bounds (`SumBounds`) are shown for every finite set by the
least number of summands at which they would fail. A step then moves a
row by exactly what it changes in one request's holdings (`MovesAgree`), one lemma
per action. Two things have to be added to `IInv`: a request has no fee before
`ChargeFee` charges it (`FeeShape`), and a request holds something of a
subscription only once it names one of `Subs` (`SubShape`). The hard case is the
`max(.., 0)` of PostConsumeUserSubscriptionDelta. The row of a subscription that is
never reset covers every refund, because it is the sum of what the requests hold and no
request gives back more than it holds (`RowsCover`, from `NeverOverRefunded`); then the
refund is exact. A reset breaks the covering: there a step leaves the row no higher
than max(.., 0) of what it was moved by (`RowMoves`), which keeps it at or below the
sum. So `RowsStayTrue`, `RowsAgree` for any finite set of requests,
assumes `MarkReliable` like `NoOverRefund` (TLC finds `SubsAgree` violated without
it), and `WalletAndTokenExact` shows that the wallet and the token need nothing of
the kind: those two rows are exact whichever writes fail. `RowsInvariance` is the
inductive invariant behind both.

`TaskLifecycleProofs`. `IInv` says that there is at most one adjustment at a time,
protected either by the grace period (the pass that won the status CAS) or by
the claimed marker (a reconciliation), that copies which can still win a CAS
carry the submitted quota, and what is held at each step of the adjustment.
`TaskInvariance`, `Spec => [](Sound => IInv)`, has no assumption on the constants:
`Sound` can only be lost, so it is enough that each step from a state with `IInv`
either keeps it or records an accident. From it, for all constants:
`MarkerIsTruthful` and `NeverOverRefunded` (with fetches, crashes, slow refunds, deleted
channels and failing writes in the specification, the conditions in the property), and
`FinishedTasksPaidRight` under `Calm` (only successes report usage, which finding 2
shows to be necessary).
Two theorems do not need it and are proved apart, without any condition.
`TaskTypeCorrect`, and `EndedTasksStayEnded`: by `StaleInv` every copy a pass may write
back was taken of an active task, so a pass that comes late loses the status CAS
(`PassKeepsStatus`), and so does a fetch that did not read the terminal status itself;
what remains are the two exceptions the property names.

`SystemTaskLeaseProofs`. `IInv` ties three things that different statements write:
a claim names a job, a job that was started is never pending again and has one
starter, and a handler is that starter (`LeaseInvariance`). It needs nothing of
time, so `LeaseTypeCorrect`, `TasksStartOnce`, `OutcomesAreFinal` and
`OutcomesUnderLease` hold for processes that stall past the TTL. `AtMostOneHandler`
does not, and is proved under `~Stalls` from `LeaseShape` (`LeasesCover`): whoever
was granted the lock or runs under it has the unexpired lease, and no handler
runs while a claim of the lock is about to start its job. The lock expires only
when nobody attends to it, so a second grant finds the first one gone.

`LoginSessionsProofs`. What a refresh may still do depends on what it knew when it
was sent. `IInv` says what an exchange can be at each stage (`ExchangeShape`),
that the lock and its holder name each other (`LockShape`), that a refresh which
is still current was sent for what its tab shows (`CurrentShape`), that sessions
are opened before anything names them and never reopened (`RowShape`), that a
first secret is nowhere else until its answer arrives (`LoginShape`), and, with
Web Locks, nothing lost and no committed secret withheld (`Orderly`), that cookie and
requests carry the current generation unless the successor is on its way
(`SecretShape`). From `SessionInvariance`:
`SessionTypeCorrect`, `LockHoldersRun`, `RefreshStaysInSync`, `HonestRefreshAccepted`
(`CurrentShape` alone is not enough: the refusal of an honest browser is a fact
about the jar), `SessionsNeverSwap` and `SignOutsLast`. All but
`HonestRefreshAccepted`, whose property states its own condition, hold without Web
Locks too.

`SessionCacheProofs`. The core of `IInv` is `TrueUntil`: whatever an active copy
says, in a cache, in a filler's hand or on the way to be published, was true when
its window of one TTL began, so it ends at most one TTL after the row changed. A
tombstone stands until every copy read before it is late (`SealShape`). From
`CacheInvariance`: `CacheTypeCorrect`, `VersionsConverge`, `TombstonesHold`, and the
refinement `ImplementsWindow`: `Spec => KeepsWindow`, the initial states by
`InitImplements`, every step by one lemma per action as an `Answer`, a `Revoke`, a
`Seal`, a `Tick` or a stutter.

`PlaygroundChatProofs`. `IInv`: generations were counted by gestures and the buffer
is the current request's (`GenShape`); a send that waits for its headers under the
current controller generation is the only one and has no source beside it
(`HeaderShape`, which is what makes `OneOpenStream` survive a late header answer);
the open source is the active one and has dispatched exactly what was taken
(`SourceShape`); latestMessagesRef differs from the page only while an update
waits (`PageShape`); without adoption everything on the page was said by its user, and
it is what is stored unless a save is due or the last load or save threw
(`OwnerShape`). From `ChatInvariance`: `ChatTypeCorrect` and `StreamsNeverLeak`
without conditions, `NothingUnsaved` and `StoredWithOwner` under `~AdoptsAccounts`,
which finding 3 shows to be necessary.

`PlaygroundReplyProofs` is about the text. `~raced => ReplyInv` is inductive beside
`IInv`, for any set `Alike` of echoes. `BusyShape`: a request is under
way exactly while a send waits, a source is open or a plain request is not
answered, and only an open source fills the buffer. `ShownShape`: only the last
message may be pending, no two replies are of one request, and a busy page ends in
the pending reply of the current request. `QueueShape`: at most one update has run
eagerly and comes first, the others are of the current request, and the next
render changes status and text of the last message only. `TextShape`: message and
buffer make up the pieces received (`Fits`), whether they come as continuations or as
snapshots. Because a chunk may be mistaken for a snapshot, a text is not a run of pieces
but a `Part`: pieces of one reply in order, the last one received among them, and all
of them unless the reply echoes itself; joining two parts gives a part whichever branch
of `Joined` is taken (`PartJoin`). Each part is needed for the next: a flush joins the right message only
because the queue holds nothing of another request, and that holds because
nothing else is under way. From `ReplyInvariance`: `RepliesNeverMix`, `NoPieceLost`,
`MessagesSettle` without conditions beside those in the properties, and
`FinalRepliesStay` for behaviours without the save-edit race. A render runs the whole queue, a recursive
function (`ApplyAll`); what it computes for queues of any length is shown by the
least number at which it would go wrong (`Least`), since the induction
theorems of the library are out of the provers' reach.

Only model-checked: the liveness properties `EveryRequestEnds`, `EveryTaskEnds`,
`FailureIsRefunded` and `GenerationEnds`, since fairness and ENABLED are out of the
prover's reach (for the first, `StepsAreBounded` is the part within it).

## 11. Findings

1. `service/funding_source.go:53`: WalletFunding.PreConsume assigns `consumed`;
   an image request whose estimate rises after pre-consumption gets only the
   last reservation back when it fails.
2. `service/task_polling.go:128`: a failed task settled by usage keeps a nonzero
   quota, which the reconciliation refunds in full.
3. `features/playground/lib/storage/storage.ts:56`: the debounced save takes the key
   of whoever is signed in when it fires; a refresh that adopts another account's
   session under a mounted page stores one account's conversation for the other.

Each is a run of its own whose property quotes the line of the repository that
says otherwise; the same properties pass in the other runs once the case is
left out.

Limits of properties that pass, each found by giving a constant of the run another
value or by leaving a condition out of the property:

1. `model/subscription.go:1463`: the quota is returned in a transaction of its
   own; if saving the record fails ("mark" in `FaultyOps` of a subscription
   instance), the retry returns it again and `NeverOverRefunded` does not hold.
2. `relay/relay_task.go:612`: a realtime fetch that records a terminal status
   leaves the task without settlement ("fetch" in `lost`: `FinalCharge` does not
   count it).
3. `service/task_polling.go:643`: a task reported at 100% while in progress is
   neither polled nor timed out again (the exception of `EveryTaskEnds`).
4. `model/system_task.go:298`: a claimer that stalls between lock and row leaves a
   running job without a lock; nothing ends it, and no other of its type is
   created (`Stalls` under `FairSpec`: `EveryTaskEnds`).
5. `use-playground-conversation.ts:76` and `use-chat-handler.ts:60`: a save-edit click
   that overtakes a render, and a delta that echoes the text so far (section 8: the
   exceptions of `OwnReply`, `NothingLost` and `Settled`).
6. A crash of the process keeps what its open billing sessions hold
   (`controller/relay.go:151`), and a crash between the claim of a task's refund
   marker and the refund loses it (`service/task_polling.go:147`); the code has no
   recovery for either.
7. `model/user_session.go:505`: a rotation that was committed and then answered 500
   leaves the browser with a superseded secret (section 6: `torn`).
8. `model/subscription.go:1569`: a refund of quota taken before a periodic reset lowers
   the usage of the new period (section 3: `RowsAgree` is an inequality there).

## 12. Not modelled

Cached and queued copies of balances, user auth versions, purchase and
expiry of subscriptions, top-ups, rate limits, channel selection and midjourney
tasks are planned (section 2). Realtime WebSocket billing, usage counters, logs,
notices and the history clean-up of jobs change nothing the properties speak of.
Session and issuance limits and device blocks are left out of
the login modules. Price expressions are floating point; protocol conversion is
stateless; plugins and administration are single-row handlers. The pages of the
web console, by far most of the TypeScript, are forms and tables that hold the
state of one form and send one request: there is no interleaving in them that
a model would add to, beyond the session and the replay they share. The desktop
shell starts and watches one child process.
