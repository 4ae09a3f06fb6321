# Verification of the gateway's billing, tasks, sessions and clients

This directory holds TLA+ models of "The One", a Go gateway that relays LLM and
media requests to upstream providers, charges its users for them, runs
asynchronous tasks and keeps login sessions, and of the stateful parts of its
clients: the web console (React, in the browser) and the WeChat mini program
(Taro). The models are checked with TLC on small instances; each of the eight has a module of
theorems (`BillingSessionProofs`, `SystemTaskProofs`, `TaskBillingProofs`, `UserSessionProofs`, `WebSessionProofs`,
`PlaygroundChatProofs`, `MiniBindingProofs`, `MiniTextTestProofs`) that TLAPS checks for all values of the constants.
`PROJECT.json` maps every definition to the lines it
models and lists the runs, the mutants that show that each property can fail, the
findings, the hazards and the theorems.

Paths below are relative to `src/`.

## 1. Inventory

The server is one Go binary that may run on several nodes over one SQL database
(SQLite, MySQL or PostgreSQL), with Redis shared, private to a node, or absent.
There is no message bus: nodes meet in database rows, in Redis keys and in leases.

| Component | State | Operations | Hard behaviour | What makes it correct |
|---|---|---|---|---|
| Billing session (`service/billing_session.go`, `funding_source.go`, `billing.go`, `violation_fee.go`) | a session per request; `users.quota`, `tokens.remain_quota`, `user_subscriptions.amount_used`, `subscription_pre_consume_records` | pre-consume, settle, refund, fee | check and decrease are separate calls; two sides (funding source and token) without a common transaction; refund in a goroutine; retries | a request pays its price or nothing, on both sides |
| System task runner (`model/system_task.go`, `service/system_task.go`) | `system_tasks`, `system_task_locks`, in memory the running handlers | schedule, enqueue, claim, renew, progress, finish, expire | leases, late statements, takeovers, crashes | one execution inside a lease; terminal states stay; nothing holds `active_key` for ever |
| Asynchronous tasks (`service/task_polling.go`, `task_billing.go`, `model/task.go`, `relay/relay_task.go`) | `tasks` (status, quota) | submit, poll, time out, refund, reconcile, settle, live fetch | overlapping passes, stale structs written back, refunds retried after crashes | settled or refunded once; the row says what was paid; every task ends |
| Login sessions (`model/user_session.go`, `service/auth_session.go`) | `user_sessions`; a Redis hash per session | create, validate, refresh, advance, revoke, log out | delayed cache fills, tombstones that expire, racing refreshes | a revoked session does not come back; a race is not taken for theft |
| User authentication versions (`model/user_auth_cache.go`) | `users.auth_version`; pending and committed markers in Redis | fence, commit, publish | a credential change that half fails | old identities are refused once the change is visible |
| Subscriptions (`model/subscription.go`, `service/subscription_reset_task.go`) | plans, orders, `user_subscriptions` | purchase, reset, expire, consume | the reset runs between a hold and its settlement | a period's consumption belongs to that period |
| Quota caches, batch updater (`model/utils.go`, `user_cache.go`, `token_cache.go`) | Redis hashes, in-memory maps of pending deltas | read-through, increment, flush | a fill overwrites an increment; a crash loses the maps | what is charged reaches the row |
| Relay loop, channels (`controller/relay.go`, `service/channel*.go`, `model/ability.go`) | channel tables cached in memory | select, retry, disable | retries after a partial answer | at most one settlement per request |
| Realtime relay (`relay/channel/openai/relay_realtime.go`) | usage counters shared by three goroutines | pump, charge a turn, settle | unlocked sharing | each turn is charged once |
| Payments, redemption, orders (`model/topup.go`, `redemption.go`, `product_order.go`, `checkin.go`) | order rows | create, notify, complete, redeem | repeated notifications on several nodes | an order is credited once |
| Agent connect (`model/agent_connect*.go`, `model/auth_flow.go`) | pairing rows, one-time flows | start, approve, exchange, cancel | two exchanges at once, expiry | a code is consumed once |
| Agent plan pool (`model/agent_plan_quota_pool.go`) | allocations of a shared plan | allocate, release | decisions on stale snapshots | allocations stay within the pool |
| Web console: login session (`web/src/lib/auth-session.ts`, `auth-session-sync.ts`, `http-client.ts`, `stores/auth-store.ts`, `routes/__root.tsx`) | per tab: the session, a shared refresh, a request, a sign-out, `authEpoch`; per browser: the refresh cookie, a Web Lock, a BroadcastChannel | bootstrap, refresh, request with a 401 retry, rotation, login, logout, events, reload | tabs that share a cookie they cannot read; answers that come after a sign-out | a tab does not come back from a sign-out; tabs end in one session; nothing waits for ever |
| Web console: playground chat (`web/src/features/playground`) | generation, stream buffer and timer, controller, React state and its queue, localStorage | send, stream, stop, regenerate, edit, delete, save, reload | late events of replaced requests, updates that wait for a render | nothing streamed is lost; the page knows when it generates; no message stays unfinished; what is stored comes back |
| Mini program: sign-in, binding (`miniapp/src/pages/binding`, `login`, `index`; `service/wechat_miniapp.go`, `model/miniapp_binding.go`) | tickets, bindings, the owner of a WeChat identity; the lifecycle of the page | log in, register, bind, poll, confirm, expire | timers, hiding and leaving a page, calls that outlive it | one owner; one outcome; an outcome in time |
| Mini program: text test (`miniapp/src/features/text-test`; `model/mini_text_attempt.go`) | the request id in storage, the page; attempts on the server | start, poll, hide, kill, relay, complete | lost answers to a charged request, copies of it, storage that fails, a feature that is switched off | an attempt is not forgotten and not relayed twice |
| Rate limits, hybrid cache, options, instances, logs | windows, caches, settings | | | nothing else depends on them |
| Adaptors, format conversion, price arithmetic | none | pure | | outside TLA+'s data |
| The other pages of the console, desktop shell, command line tool | forms and lists | read, show, send | | decided on the server |

How they interact. `controller.Relay` opens a `BillingSession`, relays, and
settles or refunds it. `controller.RelayTask` does the same and then inserts a task row,
whose cost is `tasks.quota`. The polling of tasks is itself a system task
(`async_task_poll`) that runs under a lease; when a pass outlives its lease a
second one overlaps with it, which is why `TaskBilling` has several passes.
Every API request is authenticated against a login session or a token before it
gets this far. The console's tabs hold such a session through a refresh cookie that only the
server reads (`WebSession` is the client's side of what `UserSession` is the server's
side of); the playground sends its chats through the relay with the headers that
`auth-session.ts` gives it; the mini program gets its session from the binding of a WeChat identity and
spends it on text tests.

## 2. Plan

Order: money first, then what runs unattended, then authentication, then the clients, whose
races no test of the repository can time.

| Module | State of the plan |
|---|---|
| `BillingSession`, `AtomicBilling`, `BillingSessionProofs` | done; every safety property and the refinement are proved |
| `SystemTask`, `SystemTaskProofs` | done; all four properties are proved |
| `TaskBilling`, `TaskBillingProofs` | done; all safety properties are proved |
| `UserSession`, `UserSessionProofs` | done; all five properties are proved |
| `WebSession`, `WebSessionProofs` | done; all three invariants are proved |
| `PlaygroundChat`, `PlaygroundChatProofs` | done; all six properties are proved, `NothingLost` for the replies it is true of |
| `MiniBinding`, `MiniBindingProofs` | done; all three invariants are proved |
| `MiniTextTest`, `MiniTextTestProofs` | done; all three invariants are proved |
| `UserAuthFence` | next: the pending fence and the committed version in Redis around a change of credentials; composed with `UserSession` in a validation |
| `Payments` | orders completed by repeated notifications, redemption codes, check-in |
| `Subscription` | periodic reset and expiry between a hold and its settlement; replaces the single period of `BillingSession` |
| `QuotaCache` | Redis read-through, asynchronous fill and the batch updater, with an abstract "the row eventually has every change" |
| `RealtimeBilling` | three goroutines and the turn charges |
| `AgentConnect`, `AgentPlanPool` | one-time records and shared allocations |

Modules to be proved about use no recursive operators; parameters are constants
with named assumptions; invariants are conjunctions of named parts.

## 3. Modules and the code

Conventions. An action is one database statement, transaction or Redis call,
with the code that surrounds it; between two of them any other process may run.
Calls that can fail do so at most `MaxFaults` times in a behaviour, and the model
takes the branch the code takes on the error. Definitions keep the name of the
function they model, followed by the part of it when a function takes several
steps (`SettleFunding`, `SettleToken`). Operators headed "Mutant" are plausible
bugs; nothing uses them but the mutation checks.

### BillingSession

One user with a wallet, one token and at most one active subscription, and a set
`Requests` that run at once. `ses[r]` has the fields of `BillingSession` and of its
`FundingSource`; `pc[r]` is the request's goroutine and `bg[r]` the one of
`Refund`; `wallet`, `token`, `used`, `rec` are the rows. `paid`, `tokPaid` and `fee`
are ledgers that the code does not have: what each request took from each side.
`err[r]` remembers which calls failed.

- `NewBillingSession`, `TryWallet`, `TrySubscription`, `Insufficient`: the routing by
  package match and preference and its fallbacks (`billing_session.go:344-462`).
- `TokenRead`/`TokenDecrease`, `FundingPreConsume`, `RollbackToken`: `preConsume`.
- `WalletOverflow`: the look at the user's subscriptions before subscription_first falls back to the wallet.
- `Serve`, `SettleFunding`, `SettleToken`: the answer and `SettleBilling`. A request of a free model has no session; what it
  costs all the same, the surcharge of a tool call, `PostConsumeQuota` takes from the wallet and the token.
- `Fail`, `RefundWallet`, `RefundSubscription`, `RefundSubscriptionMark`, `RefundToken`: `Refund`. The refund of a subscription is two steps because
  `PostConsumeUserSubscriptionDelta` commits a transaction of its own.
- `ChargeViolationFee`, `ChargeViolationFeeToken`: `ChargeViolationFeeIfNeeded`, which
  runs while the refund may still be under way.
- `ExpireSubscription`: the subscription ends at any time.

`BillingSession.Reserve` and the refund of what it reserved have no caller in the repository and are left out, so
`preConsumedQuota` does not grow while a request is relayed.

Prices are naturals from `Actuals`; how a price is computed is left out. Balance
reads are reads of the row: the deployment has no Redis and no batch updates.

`AtomicBilling` is what the session promises seen from the user's total: each
request is charged once or fined once, in one step, until a refund is repeated. The refinement mapping counts what is only held as still belonging to the user. It is
checked in the run `billing`, with everything else.

### SystemTask

One task type: `status`, `key` (`active_key`), `by`, `upd` are the rows of
`system_tasks`, `lock` the type's row of `system_task_locks`. A runner has a place in
its pass (`pc`, `view`) and, for each claimed task, a handler (`ex`) and a heartbeat
(`hb`). The clock may advance between the moment a statement's time is read and
the moment it runs, so any statement may be late; the time that `UpdateSystemTaskState` and `FinishSystemTask` compare is any
between the row's last write and now. A claim that fails after it took the lock gives it back with a statement of its own (`ClaimRelease`), which may
fail, too, and is then dropped. The handler's work is abstract: it
reports progress, finishes or gives up. `lease` and `late` are ghosts: the end of the lease
an execution last wrote, and whether some claim has outlasted the lease it took.
A crashed runner comes back under a new id, so restarts are other members of `Runners`.

### TaskBilling

One task row. A pass (`RunTaskPollingOnce`) is `SweepRead`/`TimeOutTask`, then
`ReconcileRead`/`Claim`/`Restore`, then `PollRead` with `FailUnreachable` or
`FetchTask`/`Apply`, and the winner of a status change goes through the refund
(`RefundFunding`, `RefundToken`, `RefundClear`) or the settlement. `view[p]` is the struct the
pass read; `UpdateWithStatus` writes all of it back. The clock is reduced to the
three comparisons the code makes: `legacy`, `timedOut`, `aged`. `paid` and `tokenPaid` are
ledgers; `gap` and `tokenGap` are what `SettleBilling` failed to charge at the submission, which is only logged while the row gets the full
quota. `live` says that the channel is Gemini or Vertex: `RealtimeRead` and `RealtimeUpdate` are `tryRealtimeFetch`, in any state of the row, and
`rewrites` counts those that found the row over and wrote it once more. The adaptors of these channels adjust nothing on completion, so `actual` is 0 for
them. `lost` says which failures or crashes have left something undone that the
code does not recover, and each property names those it excepts. Progress is left
out: it is "100%" exactly on terminal rows. `updateSunoTasks` and `updateVideoTasks` differ
in how they ask the upstream, not in their statements.

### UserSession

One session: `status`, `ver`, `gen`, `prevUntil` are the row, `cache[c]` the hash in each
Redis. Refresh tokens are numbered along their chain, because
`deriveNextRefreshSecret` gives the same successor whoever computes it. Every
request takes the steps of its Go function: cache read, database read, script, the
check after the script and the confirmation. A snapshot's deadline is taken before
the database read, and the write may be delayed past it. `told`, `endAt`, `wonAt` and
`issued` are ghosts. All nodes and Redis share one clock: the code compares
`PEXPIREAT` times of one machine with the clock of another, and clock skew adds to the bound.
A call to Redis that fails may have been carried out. A rotation may begin without the validation that `RefreshLoginSession` does before it:
the model has more behaviours than the code there.

### WebSession

The tabs of one browser. `tab[t]` is the state of a tab's modules: `sid`, `fresh` and `boot` of
`auth-store.ts`; `ref` the one refresh that all its callers share (`refreshPromise`), with `current` for
"`authEpoch` is still the one it began with"; `req` one request of `http-client.ts`; `out` a sign-out;
`page` and `nav` the router. `lockq` is the Web Lock, `chan` the events of the BroadcastChannel, `cookie`
the refresh cookie, which an answer sets when it arrives, whoever still waits. The server is
`controller/auth_session.go` reduced to its answers (ok, race, mismatch, refused, failed).

- `RefreshRun`, `RefreshAuth`, `RefreshReceive`: the runner in the lock, the answer of the server, and what the
  runner does with it: apply, retry after a race delay, retry once after a mismatch, give up, sign out.
- `Navigate`: `beforeLoad` and the bootstrap; `Login`, `Logout`, `AuthLogout`, `LogoutReceive`; `ApiSend`, `ApiServe`,
  `ApiReceive`: a request, its single retry after 401 and the token an answer may rotate.
- `Deliver`, `DeliverLate`: an event from another tab, applied, or ignored because the tab slept for more than a minute.
- `Expire`, `Revoke`: time and the administrator.

A sign-out that is answered with an error may have revoked the session before (`AuthLogout`).
`Login` and `Logout` stand for the login page and the sign-out dialog. The other places that make the same two calls are not
actions of their own: the OAuth callbacks (`routes/oauth/$provider.tsx:197`, `routes/(auth)/oauth.tsx:44`, `use-oauth-login.ts:68`), the page that binds the
mini program (`miniapp-bind-page.tsx:137`), the end of one's own session in the list of sessions (`login-sessions-card.tsx:90`), the deletion of the account
(`delete-account-dialog.tsx:75`) and the page that connects an agent (`agent-connect/index.tsx:87`).

`gone` and `torn` are ghosts: the sessions a tab has left, and that an answer has overwritten a newer
cookie or an event was ignored. The browser (locks in order, channel in order, cookies) is external.

### PlaygroundChat

One page with its conversation. A request is named by `requestGenerationRef`; `rq` says where it is
(headers, open stream, POST, stream ended without `[DONE]`, gone). `pend` and `timer` are the buffer of deltas
and its flush timer, `cur`, `source` and `abort` the stream controller, `want` and `ui` the flags as set and as
rendered, `msgs` the messages as rendered and `uq` the functional updates that wait for the
next render. React is external: the first update of an empty queue may be evaluated when it is
queued (`Eager`), the rest at the render, and that is where stale lists come from. `stored` and
`dirty` are localStorage and the debounced save. A text is a sequence of characters and `Ends` says where the deltas of a reply end, so
that the comparison of prefixes is the code's. Content and reasoning are treated alike; parameters and models are left out.

`storage.ts` is in the model with its limits as constants. `SaveTimer` keeps the last `MaxStored` messages (`Trim`) or fails, which is only logged (`unsaved`).
A load (`LoadMessages`) normalizes each message (`Collapsed`: repeated sections are dropped; `Truncated`), takes as many from the end as
the limit on the sum allows, repairs the last pending one (`Sanitized`) and stores the result; what cannot be read, or is too long, is an empty
conversation. `Leave` and `LeaveUnsaved` are the change to another page and back, whose cleanup saves, or fails to; `Reload` skips the cleanup. A heading
with its line is one character. The code loads in a `setTimeout` of 0 after the page is mounted
(`use-playground-state.ts:84`); the model loads in the step that opens the page, so a message sent within that turn, which the load would replace, is not in it.

### MiniBinding

One WeChat user. `flow`, `lapsed`, `binding`, `boundTo`, `owner` are the server's rows; `route`, `inst`, `ticket`, `session`
the mini program; `lc` the fields of `BindingLifecycle`, `told` what it reported, `calls` the requests under way, which
outlive the page that sent them. `Show`, `Hide`, `Tick`, `Alarm`, `WebViewFailed` are its entry points; `Serve` has the
server's transactions, `Receive` the code after each `await`. `ConfirmMiniAppBinding` is the browser
page, signed in to any account. Wall-clock time is `Lapse`, then `Deadline`: the server's five minutes and the page's.
The owner of the identity stays; that the deletion of a user for good removes it (`model/user.go:914`) is left out.

### MiniTextTest

`mini` is the process: the page (`TextTestLifecycle`), the session, the id in storage and the calls, each with
`cur` for "its operation is the current one" and `mine` for "its page is the one that is open". Storage may fail for a while
(`StorageFails`, `StorageWorks`), and `Remember` and `Recalled` swallow that, as `pending-text-test.ts` does; the id may not be created (`IdFails`). The server's part is
`post`, `att` and `relays`: the claim of the row by insertion, the relay and its completion. The POST may be lost, time
out and still be served, and a copy of it may be delivered before it, while it is relayed, after it or when the row was deleted
(`Duplicate`, `TwinEnds`). Both routes are behind the feature gate, which an administrator may close at any time: a start or a status poll may be
refused. The process may be killed; sessions end on either side. `unknown` and `unkept` are ghosts: the attempts of whose outcome the user was not told, and the ids
that storage did not take. The allowance per day is left out.

### MCClients

The four clients share no state that they write, so `MCClients` composes them as alternatives: a
behaviour of a run is one of one client, chosen at the start from `Parts`. That is one specification
without the product of four state spaces; the runs differ in the clients they choose.

## 4. Runs

| Run | Instance | Shows |
|---|---|---|
| `billing` | 2 requests, 8 profiles, 1 failing call | `ImplementsAtomicBilling`; `TypeOK`; `ChargedExactly`: a finished request paid its price or nothing on both sides; `HeldWhileRelayed`: both sides hold `preConsumedQuota` whenever it is relayed or settled; `WalletExplained`, `SubscriptionCovered`: the rows are the sum of the requests, `amount_used` within its total |
| `refund_twice` | 2 requests on a subscription, 1 failing call | violation of `RefundIdempotent` (finding) |
| `system_task` | 2 runners, 2 tasks, lease 1, time 0..3, 1 failing statement | `TypeOK`, `LeaseExclusive`, `TerminalStable`, `ActiveKeyRecoverable` |
| `stuck_task` | the same, none failing | violation of `ExpiredLeasesFail` (finding) |
| `task_billing` | 2 overlapping passes, channels that vanish, live fetches, one of which rewrites a finished row, 1 failing call | `TypeOK`, `RowExplainsCharge`, `NeverOverRefunded`, `LateWritesLose` |
| `task_live` | 1 pass at a time, channels that vanish, 3 failing calls, 2 crashes, fair | `SettledOnComplete`, `NeverOverRefunded`, `FailedRefunded`, `EventuallyTerminal` |
| `bulk_failure` | 2 passes, channels that vanish | violation of `TerminalStable` (finding) |
| `user_session` | 2 requests at a time, 2 Redis, TTL 1, grace 1, life 3, 3 tokens, 2 versions, 1 failing call | `TypeOK`, `RevokedIsDenied`, `BoundedStaleness`, `NewestTokenKnown`, `RaceNeverRevokes` |
| `clients`, tabs | 2 tabs, 2 sessions, 1 race delay, 2 operations or faults, 1 token that runs out, fair | `WebTypeOK`, `TabsAgree`, `SignedOutStays`, `CallsSettle` |
| `clients`, binding | 2 tickets, 2 openings of the page, 1 browser account, 1 failure, fair | `OneOwner`, `OneOutcome`, `FailsForAReason`, `BindingEnds` |
| `pages`, chat | 2 requests or changes, a reply of 2 deltas and 8 characters, 3 messages stored, 4 characters loaded, with and without an earlier conversation | `ChatTypeOK`, `NothingLost`, `GeneratingExactly`, `AllFinal`, `FinalStable`, `StoredMatches` |
| `pages`, text test | 2 ids, 2 calls at a time, 2 faults | `NoForgottenAttempt`, `PendingWatched`, `OneRelay` |
| `repeated_delta` | as `pages`, with a reply whose second delta begins with the first | violation of `NothingLost` (finding) |
| `text_test_gate` | as `pages` | violation of `RemovedOnCompletion` (finding) |

Why the bounds are enough to meet the interesting cases:

- `billing`: wallet 3, token 4, subscription 4 with requests of 2 and prices up
  to 3: the second request finds every source short, so fallbacks, rollbacks, negative
  balances and a refused settlement all happen. The profiles cover every preference, the
  package match with fallback, playground, free, trusted, forced and unlimited requests. Two requests are
  enough for the interleavings of a check with a decrease. One failing call reaches every error
  branch; that any number of them, a refund that uses up its three attempts included, is no different is proved
  (section 6).
- `system_task`: time 3 with a lease of 1 lets a lease expire, be taken over and expire again; two
  tasks let a takeover meet the lock of another task.
- `task_billing`: two passes let one be stale, and a client a third reader; prices 0 and 2 and actual prices 0, 1 and 3
  have a free task, no adjustment, a cheaper and a dearer one, and a settlement that fails at submission leaves too much or too
  little. One failing call, after a bulk failure without a refund, lets the reconciliation fail and restore. Crashes and longer
  sequences of failures are in `task_live`, where the next pass finds what a crashed one left; the theorems have both at once.
- `user_session`: with TTL 1 and time 3 a tombstone written at 1 has expired at 2
  while a delayed fill is still pending; three generations let a token be current, previous
  and unknown; the session's own expiry is reached too.
- `clients`: two tabs with two sessions let one tab sign in while the other refreshes the older session; a
  race delay of one is a delay that is used and one that is used up. Two tickets let a registration and a confirmation of the same
  user cross; one failure and two openings let a page be left and a binding be orphaned.
- `pages`: two requests of a chat let one be stopped, replaced, reloaded or edited around by the other, and two deltas are one that is
  shown and one in the buffer. The reply has a heading twice, so a load collapses it, and what is left is still longer than the 4 characters that are
  loaded; an earlier conversation and a new exchange are 4 messages, one more than are stored. Two faults of a text test are a lost answer and a kill,
  storage that fails and a kill, a copy and a deleted row, or an ended session and a login, around a single attempt, with an id left for a second one.

Symmetry is used for requests, runners, passes, processes and Redis instances, which
are interchangeable; not in runs with liveness properties.

Deadlock is checked in every run but the four of the clients, where a user may stop acting at any time and the bounds
on what may happen are used up. `BillingSession` has `Terminating` for behaviours that are over.

### Fairness

`task_live` assumes weak fairness of the steps of a pass (the runner starts passes for ever), of
the submission and of the passage of time, and that `TaskTimeoutMinutes` is not 0 or less, which turns the timeout sweep off
(`service/task_polling.go:50`); nothing is assumed of the upstream, which may
never answer, and the failing calls and crashes are finitely many. A database that
fails for ever, or processes that keep dying, would stop both. No liveness is claimed of `BillingSession`: a request waits for its upstream, and by
default the relay has no timeout (`RELAY_TIMEOUT`, `common/init.go:111`).

`clients` assumes, of the tabs, that the runner of a refresh, a request and a sign-out take their next step: promises are
resolved, requests are answered or fail (the console sets no timeout of its own; the browser and the network end a
connection that is dead), timers fire and the Web Lock is
granted in order. Of the binding page it assumes that calls are answered or time out (`miniapp/src/lib/api.ts` sets a timeout), that time passes and
that a due timer fires while the page is in the foreground. Nothing is assumed of users, of
the chat (whose properties are safety properties) or of the text test.

## 5. Findings

Five runs show the code doing what a comment or a document of the repository says it does not:

- `refund_twice`: `RefundSubscriptionPreConsume` (`model/subscription.go:1650`) is called
  idempotent; its inner call commits on its own, so if marking the record fails the retry
  refunds again.
- `stuck_task`: a claim that pauses for longer than its lease leaves a running
  task without a lock (`model/system_task.go:246`); no pass fails it, and its `active_key` keeps
  the type from ever being scheduled again. With claims that end within
  their lease this cannot happen (`ActiveKeyRecoverable`).
- `bulk_failure`: a pass that does not find the channel fails the tasks it read
  earlier with an unguarded update (`service/task_polling.go:441`); a task completed and
  settled meanwhile becomes FAILURE, and the reconciliation refunds it.
- `repeated_delta`: a delta that begins with all the characters so far is taken for a repetition of the whole text
  (`web/src/features/playground/lib/message/message-streaming-utils.ts:73`), so the reply "1", "10" is shown
  as "10"; the comment in the same file says that the full raw content is kept.
- `text_test_gate`: the stored id of a pending text test is there to find its outcome again, and is "removed on completion or session
  clear" (`docs/miniapp-release-checklist.md:15`). When the feature is switched off while the attempt is relayed and the start was not answered in time, the
  next poll is refused by the gate, and the page takes that for final and removes the id (`miniapp/src/pages/text-test/index.tsx:59`).

Behaviours that the models have and the properties except:

- The violation fee is charged while the refund goroutine may still be running, although
  `service/violation_fee.go:102` speaks of charging after the refund. The amounts are right either way.
- The scheduler decides on a row it read before; another node may have run a task in between, so
  the next may start before its interval is over (`service/system_task.go:291`).
- A refund that takes longer than the grace period of 30 seconds is taken up by the
  reconciliation and paid twice (`service/task_polling.go:103`). `NeverOverRefunded` excepts it, as it excepts
  a refund whose marker could not be cleared, which `service/task_billing.go:203` admits.
- `tryRealtimeFetch` writes a row that is over when the upstream says otherwise, also one that the timeout sweep has failed and refunded
  (`relay/relay_task.go:486`), with the struct it read. `LateWritesLose` allows it, if the row still has the status that was read; the ledger
  properties say nothing once it has happened (`rewrites`), and neither does `NeverOverRefunded` once the bulk update has overwritten a completed row (`bulk`).
- `SettleBilling` may fail at the submission of a task, which is only logged (`controller/relay.go:621`); the row has the full quota all the same, and if the task fails
  the user is refunded what the row says, which may be more than was paid. The ledger properties count what was not charged (`gap`) as spent.
- A tombstone is refused when a newer version of the session is already cached; the
  revoked session is then accepted by that Redis until the snapshot expires, which `BoundedStaleness` bounds.
- The answer to a refresh that nobody waits for any more still sets or clears the shared cookie, possibly that of a
  newer login (`web/src/lib/auth-session.ts:278`). `TabsAgree` excepts behaviours in which that happened (`torn`).
- A stream that ends without `[DONE]` and without an error leaves the page generating until the user stops it
  (`web/src/features/playground/hooks/use-stream-request.ts:146`); `GeneratingExactly` counts it as not ended.
- Saving an edit while a reply streams writes back the list as rendered; `NothingLost` and `AllFinal` except the
  reply it overwrites (`over`).
- A conversation that could not be saved or read is not what the page shows (`unsaved` in `StoredMatches`), and comes back as it was stored before
  (`LeaveUnsaved` and `Reload` in `FinalStable`). A load shortens texts (`Normalized`); `NothingLost` speaks of a reply until its page is left.
- A binding that is created while its page is hidden or left is dropped, and the next attempt with its ticket is refused
  (`miniapp/src/pages/binding/lifecycle.ts:61`): `FailsForAReason` excepts those tickets (`dropped`), and every behaviour in which a call was lost (`slips`).
- The id of a text test that storage did not take is in the memory of its page only, and goes with it (`miniapp/src/lib/pending-text-test.ts:32`); a page that
  opens while storage fails does not know of the pending request. `NoForgottenAttempt` gives up the attempt there, when the session ends and when the
  server says that the text test is refused or switched off.
- A text test whose POST was lost is not found for ever, which counts as retryable: its id stays in storage and
  no other test can be started until the session ends (`miniapp/src/pages/text-test/index.tsx:58`).

## 6. Proofs

`BillingSessionProofs` proves for any set of requests, any profiles, prices, balances and
any number of failing calls:

- `TypeCorrect`: `Spec => []TypeOK`, so no quota of a session and no `amount_used` is negative;
- `ChargesExactly`: `Spec => []ChargedExactly`;
- `HoldsWhileRelayed`: `Spec => []HeldWhileRelayed`;
- `AlwaysWalletExplained`: `Spec => []WalletExplained`, and `AlwaysSubscriptionCovered`: `Spec => []SubscriptionCovered`;
- `Refinement`: `Spec => ImplementsAtomicBilling`, the abstract specification.

The assumptions are `ConstantsAssumption`: profiles of the right shape, naturals for
prices, totals and the fee, integers for the balances; and `RequestsAssumption`: `Requests` is finite, which only the last
three need, because they sum over it. Of each there may be any number.

Neither invariant is inductive: that a finished request has paid nothing depends
on what each step of its refund was told to give back, and that in turn on how a
refused attempt and its rollback left `consumed` and `tokenConsumed`. `IInv` says for each
request, label by label, what both sides hold: nothing before the funding source is reached
(`UnfundedInv`), exactly `preConsumedQuota` while it is open (`OpenInv`), the price after settlement
(`ServedInv`), and what the refund goroutine has not given back yet (`EndedInv`); `TokenInv` is
the same for the token. Each part that a dropped error can break is conditional on that error not having
happened. The conjuncts talk of one request only, so `Frame` and `Compose` reduce every action to the
request that takes it, and there is one lemma per action.

The sums are over all requests, so a step of one has to be shown to move the sum by what it moves that
request's share. `Total` is a fold over the set; the lemma `TotalMoves` says what replacing one term does to it. It
is proved without an induction rule: of the subsets for which the claim fails a smallest one is taken (strict inclusion
between finite sets is well founded), and it is neither empty nor larger than a smaller one. `Books` adds to `IInv` that `wallet` and `used` are
what the ledgers add up to. It rests on `FloorInv`: until its refund is repeated, a subscription gives back no more than the
request took from it, which is what keeps the clamp at zero in `PostConsumeUserSubscriptionDelta` from hiding anything.
`StepAccounts` says of every step which row it moves and that the ledger of the request moves with it (`Draws`), and that a charge is
final and a fee is taken alone (`Turns`).

For the refinement what a request holds (`Hold`) is counted as still the user's. By `Turns` a step changes the fee of its
request, makes it charged, or neither; by `Draws` and `TotalMoves` the abstract balance then moves by the fee, by all the
request has paid, or not at all, which is `Fine`, `Charge` or a stutter of `AtomicBilling`. A step that repeats a refund is `Excuse`, after
which nothing more is promised.

`SystemTaskProofs` proves for any number of runners, tasks, failing and late statements and any length of the lease
(`SystemTaskAssumption`: naturals, the lease not 0, and 0 is no runner):

- `TypeCorrect`: `Spec => []TypeOK`; the part of it that matters is that `system_task_locks` has one row for the type;
- `AlwaysLeaseExclusive`: `Spec => []LeaseExclusive`; `AlwaysActiveKeyRecoverable`: `Spec => []ActiveKeyRecoverable`;
- `AlwaysTerminalStable`: `Spec => TerminalStable`.

`LeaseExclusive` speaks of executions inside their lease; what keeps it is that such an execution still has its own row in
the lock table (`LeaseInv`), that a claim keeps the row until it has become an execution (`HoldInv`), and that a heartbeat
under way never shortens the lease (`ExecInv`). `ActiveKeyRecoverable` needs `RunInv`, that a running task has a lock row, and for
that the two ways to lose one: a late `DELETE` of a stale lock and a takeover on an old reading.
`YoungInv` says that the row of a running task is younger than what such a runner has in mind; `AloneInv`, that who has
acquired the lock knows that nothing runs. Both hold only while no claim has outlasted its lease (`late`), which is the
finding `stuck_task`.

`TaskBillingProofs` proves for any number of overlapping passes, any prices, failing calls, crashes and live fetches and for every kind of
channel (`TaskBillingAssumption`: naturals and Booleans), with no further hypothesis:

- `TypeCorrect`: `Spec => []TypeOK`; `AlwaysRowExplainsCharge`: `Spec => []RowExplainsCharge`; `AlwaysNeverOverRefunded`: `Spec => []NeverOverRefunded`;
- `AlwaysSettledOnComplete`: `Spec => []SettledOnComplete`; `AlwaysLateWritesLose`: `Spec => LateWritesLose`.

What the properties except is in their statements and in the list at the end of section 5; that a terminal status is never overwritten at all is
false (`bulk_failure`). `IInv` says status by status what was paid, what the submission left unpaid counted as paid, and how far the one pass
is that bills: `OpenInv`, nobody bills an unfinished task; `SuccessInv` with `Settler`, one pass settles; `FailureInv` with
`Refunder`, one pass refunds at a time, and nobody claims a refund while the winner of the status change is at it, unless
a marker was left behind or the grace period ran out. `ReadInv` and `ClientInv` say what an old reading is still good for: the status it
compares in `UpdateWithStatus` was an open one, so a terminal row does not match it. All of it holds as long as the bulk update has overwritten no
completed row and no live fetch a finished one (`Clean`); `BillingInv` is `IInv` under that condition, and is inductive.

`UserSessionProofs` proves all that the run of `UserSession` checks, for any number of requests, Redis
instances, tokens, versions and failing calls and any TTL, grace period and lifetime
(`UserSessionAssumption`: naturals, the TTL and the lifetime not 0):

- `TypeCorrect`: `Spec => []TypeOK`;
- `RevokedDenied`: `Spec => []RevokedIsDenied`, and `StalenessBounded`: `Spec => []BoundedStaleness`;
- `NewestKnown`: `Spec => []NewestTokenKnown`, and `RaceHarmless`: `Spec => RaceNeverRevokes`.

The invariants say what a validation that is about to be accepted may not be; they are not
inductive, because they say nothing of the snapshots that have not been read or written yet. `IInv`
follows a snapshot from the moment its deadline is taken:

- `DiesInTime`: in a request's hands (`ProcInv`) or in Redis (`CacheInv`), a snapshot's
  deadline is at most TTL after the end of its version. It holds when the row is read, because the
  deadline was taken before; and when a version ends, because every deadline is at most TTL from now.
- `ToldFill`: where a revoke has left its tombstone, a snapshot that is still to be written
  has a deadline no later than the tombstone's expiry (`Barrier`). A tombstone is let go only when it
  expires, and `WriteActive` with a deadline that has passed leaves nothing, so the
  session does not come back (`ToldInv`). That the tombstone lives for TTL from when the script
  runs, and the snapshot only until its deadline, is what makes it work.
- `TokenInv`: the chain of refresh tokens; a rotation under way holds a token that was
  handed out, and the `UPDATE` compares it with the row's.

Again the conjuncts talk of one request each: `Frame` shows that a step keeps what the other
requests hold as long as versions end now (`Ages`) and barriers rise (`BarrierRises`), and there is one
lemma per action. The row lock of the logout is not needed for these properties.

`WebSessionProofs` proves for any number of tabs, sessions, requests and faults (`WebAssumption`: the marker for "no
session" is not a session, the bound on operations is a natural):

- `AlwaysSignedOutStays`: `WSpec => []SignedOutStays`; `AlwaysTabsAgree`: `WSpec => []TabsAgree`;
- `AlwaysWebTypeOK`: `WSpec => []WebTypeOK`, of which the part that matters is that the queue of the Web Lock holds every tab with a
  refresh under way exactly once, and no other.

A tab that has left a session may be signed in again only by the answer to a refresh. `IInv` says of each tab
(`Fine`) that a refresh for which `authEpoch` is still the one it began with was answered for a session the tab has not left; the other
answers are not applied. The tabs agree because there is a latest session (`Latest`): the cookie is that one or gone, and a
tab in an older one has the event of the newer login on its way (`AgreeInv`). The channel delivers in order, so the event is the
last word. The answer that would break it sets `torn`. The queue is a sequence, and the provers know nothing of
`SelectSeq`; `Without`, which takes a tab out of the queue, is therefore written with `SubSeq`.

`PlaygroundChatProofs` proves for any number of requests, stops, page changes and edits, and for any reply (`ChatAssumption`: the
limits are naturals, two messages can be stored and one character loaded, the reply is a sequence whose last character ends a delta):

- `AlwaysGeneratingExactly`: `CSpec => []GeneratingExactly`; `AlwaysStoredMatches`: `CSpec => []StoredMatches`;
- `AlwaysChatTypeOK`: `CSpec => []ChatTypeOK`; `AlwaysAllFinal`: `CSpec => []AllFinal`; `AlwaysFinalStable`: `CSpec => FinalStable`;
- `AlwaysNothingLost`: `CSpec => []NothingLost`, with the hypothesis `Unambiguous` on the reply.

`FlagsFollow` says what the place of the current request says of the flags, and that the reference by which its end will be
noticed (the stream controller or the abort controller) is still its own; `RefsOK`, that no reference belongs to an earlier
request, so that late events of those change no flag. `StoredMatches` needs `StoreOK`: while no save is due and none has failed, localStorage holds
the end of the list that was evaluated last, be it rendered or the first of the queue (`Eager`). Of what a render
makes of a queue it needs only the empty queue and the single update, which are shown from the recursive function
behind `FoldLeft`.

The others speak of what a render makes of a queue of any length. The lemmas follow the path of the fold, the
list after each update, and show what the updates preserve by the smallest position at which it would fail (strict inclusion is
well-founded), since the library's induction theorems cannot be instantiated. `ChatInv` is a conjunction: `BufferOK`, that only a
stream has buffered deltas, and no more than it was sent; `ViewOK`, that a page which shows nothing in progress has nothing queued; `ListsOK`,
that the rendered list, the list evaluated last and the list the queue will make of it are one `Conversation` (no two messages with one key, and each list
`Later` than the one before: only its pending last message differs); and `EndOK`, that only the last message may be pending, and that
in the list that will be shown it is so exactly while the request goes on. `AllFinal` is the last of these with an empty queue. `FinalStable` is what `Later` gives for a step
that renders, with the updates the user makes considered one by one (`Keeps`, `AllCome`); of a step that leaves the page and comes back it is what a load
makes of a final message (`AllLoaded`, `KeepsLoaded`), which is to normalize it and nothing else.

`NothingLost` needs in addition `TextInv`: what will be shown of the current reply, and the buffer after it, are the first `n` characters
(`TextNow`); a message of an earlier request that was still running is among the excused ones (`PastOK`); and complete replies that
are not excused are whole (`AllWhole`). Here the merge of a chunk must append it, and `mergePendingStreamChunk` takes a chunk that begins with all of the text so far for a repetition of
the whole text. `Unambiguous` excludes the replies on which that happens, character by character: no delta begins with the characters of the deltas that may be in the buffer before
it, and no deltas in a row begin with all the characters shown before them. For other replies the property is false, which is the finding `repeated_delta`; the `ASSUME` of
`MCClients` has TLC confirm that the hypothesis holds in the run `pages` and fails in `repeated_delta`. `Deleted` is written as a fold because the provers know nothing of
`SelectSeq`.

`MiniBindingProofs` proves for any number of accounts, tickets, pages and failures (`BindingAssumption`: the marker for
"no account" is not an account, and the number of tickets is a natural):

- `IdentityHasOneOwner`: `BSpec => []OneOwner`; `PageHasOneOutcome`: `BSpec => []OneOutcome`;
- `PageFailsForAReason`: `BSpec => []FailsForAReason`.

The first two rest on one `IInv`, since the outcome of a page depends on who owns the identity. `OneOwner` says nothing of
answers that are on their way and that a page will make its session; `CallOK` says that any account a call
carries is the owner. The identity gets an owner once (`OwnerStep`), so this survives. `OneOutcome` needs `LcOK`: until a
lifecycle has stopped it has reported nothing, and once it has its deadline timer is off; and it needs
that a status "bound" was read when the identity had an owner, so that the login after it finds one.

`FailsForAReason` is about the page, and what can make it fail is under way before the page is open. `FInv` follows a
ticket from the login that brings it (`LoginOK`: it has no binding yet and no creation is under way for it) to the
creation of its binding (`CreateOK`: the page's own is the only one, and no earlier page has used its ticket), or there is
a `Reason` for a failure: a fault, a ticket that is no longer good, or a binding that an earlier or hidden page lost.

`MiniTextTestProofs` proves for any number of request ids, calls and faults (`IdsAssumption`: the number of ids is a natural):

- `AlwaysOneRelay`: `TSpec => []OneRelay`; `AlwaysNoForgottenAttempt`: `TSpec => []NoForgottenAttempt`;
- `AlwaysPendingWatched`: `TSpec => []PendingWatched`.

The page's methods bump an operation counter and look at it after each `await`. `Current` says what that gives: at most one call
is current, it was begun by the page that is shown, and it is about that page's request. Hence what the user was not told of is the request of the
open page (`InStep`) and in storage, unless storage did not take it (`Remembered`), and a late answer of an earlier operation changes neither. `OneRelay` rests on the claim
of the row by insertion, whoever brings the POST: an attempt that was relayed has a row (`ServerInv`).

Only model-checked: liveness (`EventuallyTerminal`, `FailedRefunded`, `CallsSettle`, `BindingEnds`), which this
prover does not reach; `NothingLost` of replies that are not `Unambiguous`, where it is false; and the properties of the five runs that are violated.

## 7. Not modelled

Listed with reasons in `PROJECT.json`. In short: planned modules of section 2; the contents of upstream
calls, format conversion and price arithmetic (data without shared state); rate limits, options, logs and
heartbeats (nothing is decided from them); cryptography and remote identity providers.

Most of the repository's TypeScript, some 200,000 lines, is the console's forms, tables, dialogs, settings
editors, charts, translations and generated routes. A page reads a list, shows it and sends one request per button: there is no
state of its own over which actors could meet, and a model of it would restate its assignments.
The parts of the clients that do keep state across awaits, timers, tabs and reloads are the four that are
modelled. By lines they are a small share of the TypeScript, and so is the share the map covers.

Inside the modelled components: the connection pool, the row limits of the task sweeps,
`RenewMiniAppUserSession`, the deletion of old sessions and the limits on issuing them; in the browser the
storage fallback of the events between tabs, browsers without Web Locks, and the deduplication of GET
requests; in the mini program the daily allowance, bindings deleted after a day, and the deletion of a user for good; in the playground what is typed
before the stored conversation is loaded.

Hazards that no property covers, because the code they lie in is not modelled or makes no promise:

- `RefundSubscriptionPreConsume` holds a pooled connection and a row lock while its inner call asks the pool for another
  (`model/subscription.go:1667`); as many refunds as connections wait for themselves.
- A crash between a pre-consumption and its settlement leaves the quota held: nothing scans for it
  (`service/billing_session.go:226`). With batch updates a crash loses what the map holds (`model/utils.go:33`), and the
  asynchronous fill of the quota cache may overwrite an increment (`model/user.go:1131`).
- A task row that cannot be inserted after its charge is only logged (`controller/relay.go:643`).
- The goroutines of a realtime session share usage counters without a lock
  (`relay/channel/openai/relay_realtime.go:60`), and turns are charged before the sum is settled (`service/quota.go:158`).
- The periodic reset of a subscription between a hold and its settlement (`model/subscription.go:1676`); repeated
  payment notifications (`model/topup.go:603`); racing exchanges of a pairing code
  (`model/agent_connect.go:261`); allocations decided on a stale snapshot (`service/agent_plan_quota_pool.go:276`).
- A request answered 401 is repeated with the token of whoever is signed in by then
  (`web/src/lib/http-client.ts:108`), and a 401 for an ended session of the mini program clears the one begun since
  (`miniapp/src/lib/api.ts:158`).
