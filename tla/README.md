# Verification of the CCT API gateway

This directory holds TLA+ specifications of the gateway in this repository, the
configurations that model-check them with TLC, and proofs that TLAPS checks.

The gateway accepts OpenAI-style requests and serves them from free-tier
upstream deployments. It is a fork of One API (token, channel, billing and
admin layers) extended by the `fallback` package: a request for a *virtual
model* is tried on one deployment after the other until one succeeds, and every
failure is remembered (cooldowns, exhausted quotas, scores) so that later
requests avoid the deployment. That loop and the process-wide state around it
are one core of this project. The other is the web consoles: three themes
(`default`, `air`, `berry`), most of the repository's code, in which every click
is a call to the gateway whose answer comes back later, in any order, into a
page that may have changed.

## Inventory: the gateway

Every goroutine that serves a client request runs `relayWithFallbackUsing`
(virtual model) or `Relay` (plain model). They share the state below, each
piece behind its own mutex or in the database, never under a common lock, so
requests interleave between any two accesses.

| component | state | operations | hard behaviour |
|---|---|---|---|
| Fallback relay loop (`controller/relay.go`) | loop index, previous deployment, buffered response | plan, check, acquire, attempt, account, rotate, skip, answer | failure classes, panics, partially written responses, interleaving with every store below |
| Request planner (`fallback/orchestrator.go`, `free_provider_model_plan.go`, `sorting.go`) | none; reads snapshots | order deployments, flatten Kilo models | snapshot is stale while the loop runs |
| Concurrency slots (`fallback/concurrency.go`) | in-flight counter per deployment | acquire, release | leak on panic, double release |
| Deployment store (`fallback/state.go`, `cooldown.go`) | `deployment_states`, `deployment_cooldown_states` rows, sticky map and rows | availability, usage, success, error, exhausted, cooldown, reset | whole-row saves beside atomic updates, day boundary, mark/clear order |
| Runtime quota windows (`fallback/quota.go`) | minute/day counters | check, record, roll over | check-then-act, window boundaries |
| Provider degradation (`fallback/provider_rate_limit_degradation.go`) | episode count, level, recovery time | episode, success, decay, reset | repeated reports of one episode, long gaps |
| Kilo model runtime (`fallback/free_provider_model_runtime.go`) | 429 cooldown and tools false positives per model | mark, success, expire, collect | stale reads, several writers |
| Health checker (`fallback/health.go`) | health map | round, check, trigger, recover | a check is several accesses around a network call; checks of one deployment overlap |
| Configuration and routing snapshot (`fallback/config.go`) | configuration file, compiled snapshot | load, validate, reload, swap, prefer | clone/swap losing updates |
| Free pool (`fallback/free_provider_*.go`) | catalog, runtime ledger, registry | fetch, sync, apply, schedule | generation check, concurrent syncs |
| Error classification (`fallback/error.go`) | none | classify | order of the rules |
| Alerts, attempt events, score history, cleanup (`fallback/alert*.go`, `attempt_*.go`, `events.go`, `score_history.go`, `cleanup.go`) | rings and tables | append, trim, query | bounded buffers |
| Plain relay (`controller/relay.go` `Relay`) | retry counter | choose channel, retry | retry after a written response |
| Billing (`relay/controller/text.go`, `helper.go`, `relay/billing`, `model/token.go`, `model/user.go`, `model/utils.go`, `model/cache.go`) | token and user quota, batch buffers, Redis caches | validate, pre-consume, settle, refund, flush, expire | deferred settlement, settling goroutines racing the next attempt, several writers, process exit |
| Channel monitor (`monitor/`) | success ring per channel, channel status | emit, disable, enable | map without lock across goroutines |
| Rate limiter (`common/rate-limit.go`, `middleware/rate-limit.go`) | sliding window per key | admit, expire | boundary of the window |
| Distributor, auth, cache (`middleware/`, `model/cache.go`) | group/model -> channels cache | select, refresh | stale cache |
| Admin APIs (`router/`, `controller/*`) | through the stores above | CRUD, recover, reload | races with the relay |
| Adaptors, i18n | none of their own | protocol translation | not modelled |

## Inventory: the web consoles

A tab is single-threaded but never waits: between a click and its answer the
user goes on, timers fire, pages are left and dialogs are opened for another
record. Nothing aborts a request or checks that an answer is still wanted,
unless the code says so.

| component | state | operations | hard behaviour |
|---|---|---|---|
| Fallback page (`useFallbackPage.js`) | open panel, what each panel shows, spinner, lock of the row buttons | load, poll, summary, act, mark read, change panel | loads of panels that were left, failures, silent polls |
| Metrics panel (`fallbackHelpers.js`) | samples in the tab and in the local storage | append, trim, rate, trend, health | restarts of the gateway, several tabs, answers that overtake each other |
| Gateway editor (`FallbackConfigPanel.js`, `useFallbackSave.js`, `savePipeline.js`) | copy of the configuration, drafts, modes | edit, GET-mutate-PUT, reload | another administrator between GET and PUT, order of modes |
| Free pool page (`FreeModelPool.js`, `FreeProvidersEditor.js`) | whole configuration edited in place, filter, selection | stage, bulk switch, save, sync | masked keys, selection of rows no longer seen |
| Tables (channels, tokens, users, redemptions, logs, drawings; 16 of them) | list, page, search, loaders | load, page, search, sort, manage, delete | answers applied by position, by id, or to a captured list |
| Settings (system, operation, other) | inputs, loaded values | type, switch, submit | sequences of PUTs, secrets that are never sent to the page, refusals half-way |
| Forms (channel, token, user, redemption) | content, dialog, timer | open, load, type, save, close | late loads into another record's form, stale write-back |
| Sign-in and profile pages | cookie, local storage, tab state, countdowns | sign in and out, register, reset, bind, OAuth, delete | cookie session rewritten by late answers, e-mail codes |


What makes each of them correct:

- *Relay loop*: the five contracts above `relayWithFallbackUsing`: a model-level
  429 touches only the model; a supplier is charged once; a hard failure skips
  the remaining models and no more; rotation is no supplier switch; nothing is
  retried once bytes have gone out. Beyond these: a slot taken is given back
  exactly once, and every request ends.
- *Deployment store*: counters never go backwards, the day's limit is overshot
  by a bounded amount, an exhaustion ends with its quota period.
- *Runtime quota*: the windows contain what was recorded in them; checking
  before recording overshoots by a bounded amount; only a full window refuses.
- *Degradation*: what is counted are distinct cooldown episodes; each quiet
  interval and each success takes off one level, none twice.
- *Kilo model runtime*: a model stays out as long as its 429s promised, and a
  renewed mark is not removed in place of the one it renewed.
- *Health checker*: the reported status converges to what the upstream answers.
- *Billing*: once everything has settled the balances have lost what is
  recorded as used, and overdrafts are bounded by what was on its way.
- *Pages*: a spinner or a lock is up only while something will take it down; a
  page comes to rest on what the gateway has; what is saved is what was shown
  and edited, for the record it was edited on, and nothing else.
- *Metrics panel*: a rate or a trend is what really happened between two samples.
- *Account*: tab, local storage and cookie agree on who is signed in; a mail is
  sent once per countdown; a password that is shown works.
- *Configuration, free pool synchronisation, alerts, plain relay, rate limiters*:
  a reload is all or nothing; a persisting condition is told once; no retry after
  a byte was written; no more than the limit in a window. These are stated here
  for the record; no module has them (see *Not modelled*).
## Modules

Each component has a module, an `MC` module where TLC needs definitions of its
own (symmetry, functions for the constants) and, where something is proved, a
`_proofs` module, some of them for two modules that TLC checks together. Actions carry the names of the functions they stand for;
one action is one access to shared state (a database statement, a map behind
its mutex, a Redis command) with the local work around it, so that the model
interleaves exactly where goroutines do.

Operators named `Mutant...`, in the console modules those with the comment *not the
code*, are wrong versions of the definition that follows them, bugs the code could
plausibly have. No action uses them. Putting one in
the place of its definition must make the property named with it fail; the
pairs are listed in `PROJECT.json`. It is the evidence that the property looks
at the code and does not hold by the shape of the model.

### `FallbackRelay` (`MCFallbackRelay`, `FallbackRelay_proofs`)

| model | code |
|---|---|
| `pc`, `pos`, `plan`, `prev`, `outcome` of a request | locals of `relayWithFallbackUsing`: the loop index, `modelAttempts`, `prevDeployment`, `bizErr` |
| `Begin`, `PlanDeployment`, `Blocks` | `PrepareDeploymentPlanForRequest`, `PrepareDeploymentModelAttempts`: a snapshot taken deployment by deployment; score order is any order, a preferred or sticky deployment is first; of a Kilo deployment a catalog may be stored or not |
| `SkipUnavailable`, `SkipModelState`, `PassAvailable`, `CheckChannel`, `SkipQuota` | the checks at the top of the loop, in their order, with the events they record |
| `Acquire`, `SkipConcurrency`, `Release` | `TryAcquireDeploymentSlot` and its release function |
| `ExecuteOk`, `ExecuteBadTools`, `ExecuteFails`, `ExecutePanics` | `execute` and the branch taken on its result; the outcomes are the classes of `ClassifyRelayError` |
| `SetSticky`, `Account` | the bookkeeping after a success |
| `MarkFalsePositive`, `MarkModel` | a response that fails the tool-call check, and a model 429 |
| `Charge`, `SaveMark`, `ClearStickyForDeployment` | `RecordDeploymentError` and `RecordFailure`, `ApplyRelayCooldown`, and the clearing of sticky entries |
| `Environment` | cooldowns that lapse, midnight, the health checker, channel changes, an administrator's recovery |

Slots are counters, cooldowns are the classes *free*, *short* (at most 300 s),
*long* (24 h) and *limit* (24 h with the reason of a daily token limit, which
`SkipUnavailable` finds again), and scores only order the plan. The counters of
`RecordDeploymentError`, `RecordFailure` and `RecordUsage` are state of other modules:
`Charge` and `Account` only note the call. `hist` is a history of each
request (attempts, charges, switches, deployments looked at, attempts that
wrote); no guard reads it. The administrator's recoveries of one deployment do
not overlap one another.

### `DeploymentStore` (`MCDeploymentStore`, `DeploymentStore_proofs`)

The rows of one deployment. `EnsureDeploymentState` reads, and inserts with
ON CONFLICT DO NOTHING; counters move by `UPDATE ... col + ?`; marks and the
administrators' clearing operations read a row, change a field of the copy and
save every column. Every function asks for the day anew, so an operation can
straddle the turn of the quota period (`Date`, `NextRefresh`). `resets` is a
history: the days of which a save of an older copy, or a reset, took tokens back.

### `RuntimeQuota` (`MCRuntimeQuota`, `UpstreamLimits_proofs`)

The RPM, RPD, TPM and TPD counters of one deployment. `PassQuotaCheck` and
`RecordUsage` are the two critical sections; between them the request is
upstream. Both first roll the windows over. `meter` is a history: what
had been recorded, all told, by the end of each tick. The row of counters that has just been created is the one that has
just been rolled over.

### `ProviderDegradation` (`MCProviderDegradation`, `UpstreamLimits_proofs`)

Episodes, level and recovery time of one deployment. A report reads the clock
(`Stamp`) before it takes the mutex (`RecordEpisode`), so reports are applied
out of order. `DecayRateLimitScores` runs on the health checker's ticker, at
the latest `DecayPeriod` after the last time.

### `ModelRuntime` (`UpstreamLimits_proofs`)

One model of a Kilo deployment: the entry with its cooldown and the mark as a
false positive for tools. `Call` is the entry of a function, where it reads the
clock; `ModelStep` and `CapabilityStep` are what it does under the mutex of one
of the two maps, up to `RuntimeLag` later. The check of a mark looks under the
read lock, and removes under the write lock if the pointer is the one it saw
(`between`); a mark therefore has an identity and an end. `promised` is the
history of the ends that 429s gave. `MCProviderDegradation` checks it beside
`ProviderDegradation`: the variable `focus` says which of the two a behaviour
exercises, because they share nothing.

### `DeploymentSlots`

What the concurrency limit promises: a request holds at most one slot, takes it
where there is room, and gives it back. `FallbackRelay` implements it
(`ImplementsSlots`): the deployment a request is served by is the one whose slot
it holds, and every step of the loop is a `Take`, a `GiveBack` or a stutter.

### `HealthChecker`

`Look`, `Ping`, `Record`, `SetStatus` and `MarkCooldown` are
`checkOneDeployment`; a background round checks the deployments in parallel,
`Trigger` is the administrator's endpoint, which afterwards reads the status
and the runtime state for its answer in two steps. The relay's results, channel
changes, reloads and recoveries run beside. Of the runtime state only whether
`LastError` is set is kept. `StopHealthChecker` has no caller and is left out.

### `Billing` (`MCBilling`, `Billing_proofs`, `MCBilling_proofs`)

| model | code |
|---|---|
| `AuthFromRow`, `AuthFromCache`, `AuthReload`, `KeepToken`, `MarkExhausted` | `ValidateUserToken`, `CacheGetTokenByKey` |
| `Ask`, `KeepQuota`, `Decide` | `getPreConsumedQuota`, `CacheGetUserQuota`, `preConsumeQuota` with the trusted balance |
| `CheckToken`, `CheckUser`, `TakeToken`, `TakeUser` | `PreConsumeTokenQuota`, four statements |
| `Unsent`, `Failed`, `NoUsage`, `Answered`, `Defer`, `Accept`, `Reject` | the ways out of `RelayTextHelper`, `schedulePostConsume`, `settleDeferredPostConsume` |
| `Again`, `GiveUp` | the relay loop around it |
| `BookUser`, `BookToken`, `RefreshRead`, `RefreshKeep`, `BookUsed`, `EndRefund` | `PostConsumeTokenQuota` and `postConsumeQuota` in their goroutine (`tasks`) |
| `Swap`, `Write` | `batchUpdate` |
| `TopUp`, `EditRead`, `EditWrite`, `ExpireQuota`, `ExpireToken` | `AdminTopUp`, `UpdateToken` with `status_only`, Redis |

A request makes its attempts one after the other but the refund of one runs
beside the next. `Faults` names the statements of the pre-consumption that may
fail; a read that fails has the effect of a refusal and is not a case of its
own. A reload of the cache inside `CacheUpdateUserQuota` sets the key twice with
one value; only the later SET is a step. Log rows, channel usage, the request
count and the quota reminder mail are left out.

`kept` and `peak` are histories. `kept` is what attempts took that nothing settles
or refunds: the early returns of `RelayTextHelper`, an answer without a usage
report, and the token's share when the charge of the user fails. The balance
properties are exact up to it, so they show that nothing else is lost. `peak` is the
largest number of requests and settlements that were open when an attempt began.
The overdraft is bounded by what those can cost; the token's besides by the refunds
still to come (`Awaited`), because a retry neither validates the token again nor
waits for the refund of the attempt before it.

`MCBilling` holds two modes in one run: *direct* (database only, with the
constants of the `.cfg`) and *cached* (Redis and the batch updater, an instance
of the same module with constants of its own).

### `FallbackPage` (`MCWebFallback`, `WebFallback_proofs`)

A tab on the Fallback page. A response is the version of the gateway's state it
was taken from, some version between the one at the request and the one at the
answer. `LoadStep` is a step of one `loadPanel` call, of which `Slots` may be under
way (the load of a panel that was left goes on); `Poll` and `loadSummary` are the
interval's, `runDeploymentAction` and `OpStep` the manual cooldown or recovery and
the reloads behind it, `markAllAlertsRead`, `MarkStored`, `MarkShown` the read marks.

### `RuntimeMetrics` (`MCWebFallback`, `WebFallback_proofs`)

`TakeSample` is the effect that appends a sample and writes the local storage,
`Reopen` closes and opens the tab, `OtherTab` overwrites the storage as another tab
does, `GatewayRestarts` puts the counters to zero. Rates, trend and health are
operators over the samples (`calculateWindowRate`, `metricTrendData`, `runtimeHealth`); `total` and the epoch of a
sample are histories that tell what really happened between two samples. To be
reasoned about without recursion, the sort of the samples is said by how many come
before one, and the filter that drops the old ones by the suffix it leaves.

### `GatewayEditor` (`MCWebFallback`, `WebFallback_proofs`)

The drafts, the modes in the order in which rows were touched, and `execute` of
`useFallbackSave`: GET, mutate, PUT, reload as separate steps (`SaveStep`).
`past` is every configuration the gateway has had; a GET is answered from one
between its start and its answer. `OtherSaves` is another administrator, whose GET
and PUT nothing separates. The PUT replaces what the payload names and removes
what it does not name, as the handler of `manual-config` does. `Picks` is what a
filter leaves of a sequence, said by the ranks of the places it keeps; the loops of
`applyDeploymentModes` and `applyVmModeSelection` are written by what they leave
behind (the last entry of a model wins; the first place of a row in the list counts).

### `FreePoolPage` (`MCWebConsole`, `WebFallback_proofs`)

The page edits a copy of the configuration in place and saves all of it. The
gateway never sends keys: `Projection` gives their number, `Merge` and `Valid` are
the handler's merge and validation. Filter and selection live in the table, which
forgets them when the loader takes its place (`PoolRemounted`).

### `ConsoleTables` (`MCWebConsole`, `WebConsole_proofs`)

Sixteen tables, one per behaviour (`table`). What differs between the themes is
kept: a list is its array's identity and its rows, a row its object's identity and
status, because an answer is applied to the list of the moment or to the one the
click captured, by position, by id, or by changing the object in place; berry's
switches have a state of their own. `Manage` sends, `Queried`, `Done`, `Refused`,
`Purged`, `Failed` are the server, the `...Answered` actions what the page does
with the answer, `Lost` a request without one. `displaced`, `disturbed` and
`lostLoaders` are histories that say when a property is claimed at all. A list that
came to hold an item twice is counted as `disturbed`: default's channels and tokens and
air's tokens, users and redemptions load a page again into a list that was sorted or
searched, or append it, and then only one of the two rows is marked. `ServerList` is
what a query leaves of the items in their order, by `Picks`.

### `ConsoleSettings` (`MCWebConsole`, `WebConsole_proofs`)

A form is the fields that can be edited, what its button sends and under which
test, and what is disabled meanwhile, taken from each theme's `submit...`
functions. `submit`, `UpdateOption`, `OptionAnswered`, `PutLost` walk through the
PUTs of one section. Options whose names end in Token or Secret never reach the page.
`touched`, `typedSince`, `upset`, `entered` and `hung` are histories: what was edited since the
load, what was typed since the last click, whether anything disturbed the page since
that click (a refusal, a loss, an overlap, another administrator, a submit that stopped
at a text that is not valid JSON, OIDC endpoints found for inputs that had changed), the
values that each token and secret had at first or that were typed for it, and whether a PUT
was lost.

### `ConsoleForms` (`WebForms_proofs`)

A form is a sheet (theme, entity, type of channel) with fields grouped by their
role; a value says where it comes from: a record, typing, the system, a preset.
`handleOpen`, `GetRecord`, `RecordLoaded` open it, `submit`, `UpdateRecord`,
`AddRecord`, `SaveAnswered` save it, `closeTimer` is air's half second. The server saves a
token or a code in two statements, `ReadRecord` and `UpdateRecord`: it reads the row, and
writes it with the fields of the form and the status that it read (`statusRead`). Record
changes behind the form's back are `SystemMoves`. `astray`, `failed`, `unsure`, `typedSince`,
a save's `opening` and `restarted` are histories: a record was sent from a form that did
not hold it, a load failed, something disturbed the form since it was loaded, what
was typed since, and the opening of berry's dialog that sent the save.

### `ConsoleAccount` (`WebForms_proofs`)

The session is a cookie that holds its own content (`sessions` uses the cookie
store), so each answer that saves the session writes the session *of its request*;
`Serve` takes the cookie along, `Answer` brings one back. `Sending` is the union of
what the pages offer (sign-in, registration, mails, binding, tokens, deletion,
OAuth); `Countdown` is a second of a locked button, `TurnstileVerified` the widget.
A site with e-mail codes and Turnstile starts signed out; a site with sign-in
providers starts signed in: in either case the other half of the pages is reached
by signing in or out.

The console modules are composed where TLC runs them, `MCWebFallback`,
`MCWebConsole` and `MCWebForms`: the parts share no state, so a variable `focus`
chooses in the initial state which of them a behaviour exercises, and the others
stand still. Properties and fairness are guarded by the focus where they would say
nothing, or the wrong thing, of a part that stands still.

## Runs

Deadlock is checked in the gateway's runs except in `store` and the billing runs,
where all work is bounded and nothing is left to do in the end. It is not in the
console runs: a behaviour stops when its bounded actions are used up.

| run | bounds | shows |
|---|---|---|
| `relay_alone` | 1 request, a Kilo deployment with 2 models and an ordinary one, every outcome, every environment event | a hard failure ends its deployment, a switch is counted when the first planned attempt of another deployment is sent, and only then, at most one attempt writes; nothing is marked that was not charged |
| `relay_together` | 2 requests, slot limit 1 on Kilo, outcomes ok, bad tools, 429, temporary, panic; fairness | one charge per supplier and request, no deployment passed over, slots accounted for (only a panic loses one), the abstract slots implemented, every request ends |
| `store` | 2 workers, all jobs, limit 1, 3 requests, a refresh hour inside a 4-hour day | an exhaustion ends exactly with its period; the limit is overshot by less than the workers; no counter goes back except by a row save |
| `quota` | 2 callers, known and unknown estimates, minute and day turns | windows hold what was recorded, the last minute two of them at most; bounded overshoot of requests and tokens; only a full window refuses |
| `degradation` | 2 reporters, 19 ticks, all four levels, a ticker slower than the interval; 2 goroutines and 2 cooldown lengths on one Kilo model | distinct episodes; quiet recovery in time; no interval is lost or counted twice; cooldowns hold, renewed marks survive |
| `health` | 1 deployment, 1 administrator and the loop, every environment event, fairness | the status converges |
| `billing` | *direct*: 2 requests with 2 attempts, one deferring, trusted and not, every outcome, failing statements; *cached*: 1 request with 2 attempts, Redis with keys that expire, the batch updater, a top-up, an editor | both balances match the usage when all is settled, the user's also behind the caches; the overdraft is bounded, of the token up to the refunds still to come |
| `web_fallback` | *page*: 2 loads at once, 1 deployment, 4 of the panels (one per kind: legacy, polled, alerts, logs), one failure, one move; *metrics*: 3 samples, a restart and a reopening, storage of another tab; *editor*: 2 virtual models, 3 deployments, one save of any kind, 2 edits, one failure, one save of another administrator | types; locks have calls; rates and trends are real; a save is exact; page and editor come to rest |
| `web_console` | *pool*: a keyed and a keyless provider, 2 edits, a save, another administrator's, a failure; *tables*: 16 tables, 2 rows on pages of 1, 3 events, 2 requests under way; *settings*: every form of the three themes, 3 edits, 2 submits that may overlap | types; what is selected is seen, what is shown is so, what is sent was touched; every secret that the server holds was there at first or was typed, and a blank one only where air sends a field as it is cleared; the pool page comes back |
| `web_forms` | *forms*: every sheet of the three themes, 2 openings, 4 acts; *account*: 3 themes, with mails or with OAuth, 2 accounts, 3 steps, a countdown of 2 | types; a record holds what was saved on it; a system change of a status survives every save but one whose row the server had read before it; browser, tab and server agree on the user; mails and locks; what is busy waits for a call |

Two requests are enough for the hazards of the relay: each is a race of one
request's step against one other's (a slot, a mark, a sticky entry). What one
request makes of every outcome is a question of its own, asked against every
environment event, which would multiply the interleavings of two requests to no
use. Two models are the smallest number that can rotate. In billing a request
races its own settlements and refunds, which is why one with two attempts
suffices behind the caches. The health checker treats deployments apart; what
they share is that a round ends with its slowest check, and a round of one
deployment overlaps an administrator's check all the same. Clocks run over at
least one turn of every window.

In a console two requests under way are what it takes for answers to overtake each
other, and two rows, records, models or accounts for an answer to reach the wrong
one. Three deployments are needed for a removed, a pinned and an untouched one, and
pages of one row make every list a list of several pages. The bounds in guards are
the constants named `Max...` and `Horizon`, `RuntimeHorizon`, `StampLag`, `RuntimeLag`,
`Slots` and `Retention` (the last one is the code's, in small units).

Several of the properties above are conjunctions of named parts, which say what
each page, table or form owes; the parts carry the comments.

## Findings

These runs end in a violation, and say where the program and what is written
about it part. The quotations are in `PROJECT.json`.

| run | what happens |
|---|---|
| `billing_unsent` | a request that fails before the upstream answers keeps the pre-consumed quota |
| `editor_pin` | in a model with a pinned deployment, one click pins another one: the save gives the pin back to the released row and allows degrading |

## Observations

The models, or the reading they took, show these too; no run states them as a
property. Where a property of a run had to make room for one of them, the exception
is part of its definition and named there.

Gateway:

- `saveDeploymentCooldown` overwrites the stored end: a 60 s mark of an overlapping
  attempt replaces the 24 h one of refused credentials (`fallback/state.go:353-368`,
  against `cooldown.go:121`).
- The operations that clear an exhaustion, mark one, or clear a cooldown save the whole
  row and take back usage counted since they read it (`state.go:326,542,556`).
- Degradation decays by time only on the health checker's ticker, which is off by
  default (`health.go:111`, `main.go:188`), whereas
  `docs/superpowers/specs/2026-07-16-provider-rate-limit-degradation-design.md:111` has
  a maintenance loop do it.
- A request that only found slots taken clears the sticky entry another request
  has just set (`relay.go:575`), and a success pins a deployment that another
  request has marked since (`relay.go:430`).
- A Doubao deployment over its daily token limit is cooled for 24 h again by every
  request that finds it so, and its sticky entries are cleared each time: the stored
  reason is given as the reason of the cooldown (`relay.go:201-204`, `state.go:211-215`),
  so that it stays out until 24 h after the last request.
- The first attempt of a request counts as a supplier switch when the deployments
  before it were only skipped, and going on to a Kilo deployment does not when its first
  model is refused a slot (`relay.go:327`).
- Usage at the turn of the day meets no row and is lost (`state.go:283`).
- Two overlapping checks of a deployment leave the error of one and the cooldown of
  the other (`health.go:166`); manual recovery leaves the health status, which keeps the
  deployment out until a check answers 200 (`state.go:503`).
- A 403 that the gateway itself makes, for lack of quota, marks deployments for 24 h
  (`relay.go:533`).
- A token is marked exhausted while its quota is only pre-consumed, and stays so
  after the refund (`model/token.go:92`); the cached user quota drifts below the
  database (`relay/controller/helper.go:104`).
- `UpdateRedemption` with `status_only` sets the status without looking
  (`controller/redemption.go:174`): a code switched off and on from a list loaded before
  its redemption can be redeemed again. Without `status_only` the edit of a token or of a
  code writes back the status it read one statement before (`controller/token.go:208`,
  `redemption.go:166`): a token exhausted or a code redeemed between the two statements is
  usable again. `StatusKept` names that window and finds no other. E-mail codes are not
  deleted after use
  (`user.go:731` says otherwise).

Gateway editor and free pool:

- GET and PUT of two administrators' saves interleave and the earlier is lost; a
  deployment added in between is deleted while a preserved order still names it.
  Edits made during a save are cleared by its answer.
- Removing the last deployment of a virtual model sends an empty order, which the
  server ignores. A removed deployment stays in the deployments map and cannot be
  added again; a removed pinned one stays preferred. Any draft resets the two ratios.
- A save of the free pool PUTs the whole stale copy; the silent reload after a
  synchronisation discards edits that were not saved.
- `runtime.health` is replaced by its label before `invalidRuntimeCount` counts the
  raw value (`FreeModelPool.js:329`, `freePoolUtils.js:300`): the count is always 0.

Tables:

- default channels apply an answer by position: a row that moved meanwhile gets the
  mark of another. default logs splice a page of the new type into the old list; air
  logs mix types (`onClick={refresh}` passes the event). Air's users and codes append a
  page that is refreshed. Air removes a row although its deletion was refused.
- berry's switches are not refreshed by a reload and are forgotten when the page is
  left. A lost request leaves its loader turning, in every table.

Settings:

- default: the e-mail domain list edits its own state (`SystemSetting.js:352-413`) but
  the submit compares and sends `inputs` (`172-183`), so edits are never saved.
- air: `MessagePusherAddress` and `...Token` are missing from the list of text fields
  (`SystemSetting.js:115-130`), so every keystroke is PUT at once.
- `originInputs` is never updated: a value set back to what was loaded is not saved, one
  saved is sent again. A submit before the options are loaded blanks the unguarded
  ones. A submit of ratios stops at the first invalid text with earlier ones saved.

Forms:

- air's token form is emptied after a refused save but stays in edit mode; saved again
  it writes a blank name and quota (`air Token/EditToken.js:203`); its closing timer
  (`TokensTable.js:265`) also closes, or turns into a creation, a form reopened within
  half a second.
- In berry and air a load that answers late fills the form of another record, and the
  save writes it there; a save before the load POSTs a new record (berry). A late
  success closes whichever dialog is open.
- default's submits have no lock: a double click creates two records.

Account:

- berry: with Turnstile off no e-mail can be bound (`EmailModal.js:74`); the WeChat
  dialog does not await its call and always shows an error (`WechatModal:14-19`); the
  confirmation of the account's deletion only closes the dialog
  (`Profile/index.js:304`). air's page for a forgotten password never sends a Turnstile
  token.
- The session is the cookie: a late answer that saves it (OAuth state, Turnstile)
  restores or clears the session of its request. `authHelper` clears it after the body
  was written, so that the cookie stays. A tab can keep a user whose cookie is gone.
- Two overlapping resets, or access tokens, may show a password or token that the later
  one has replaced.

## Fairness

All fairness is weak, and stated only in `relay_together`, `health`, `web_fallback` and
`web_console`.

- `FallbackRelay`: each request's own steps. The scheduler runs a runnable
  goroutine, no step of the loop waits for another request (a taken slot is
  skipped, not waited for), and an upstream call returns. The last needs
  `RELAY_TIMEOUT` or an upstream that closes its connections: the timeout is 0,
  none, by default. Nothing makes a request arrive.
- `HealthChecker`: the round starts when its ticker fires and ends when its
  checks have, and each check advances; the HTTP client of a check has a
  timeout. Neither an administrator nor the environment has to act.
- `FallbackPage`, `GatewayEditor`, `FreePoolPage`: the browser settles every call, with
  an answer or an error, the intervals fire, and on the editor's error page somebody
  presses its retry button some time. Nobody has to click anything else. The
  composed runs restrict each of these to the behaviours of its own part (`OfPage`,
  `OfEditor`, `OfPool`).

The tables, settings, forms and account pages have no liveness property: where a
request may be lost, their loaders do turn for ever.

## Proofs

Proved by TLAPS for every value of the constants that meets the assumption
declared in the module:

- `FallbackRelay_proofs`: `TypeCorrect`, `SlotsAccounted`, `SlotsLimited`,
  `SlotsImplemented` and `OneWriterOnly`, for any number of requests, deployments and
  models. `TypeOK` alone is not inductive: a step indexes `plan[r]` with `pos[r]`, and
  `Release` subtracts. `LoopInv` says where in the loop a position is inside the plan
  and that a plan holds well-formed attempts; `SlotInv` is the slot accounting, which
  makes the counter positive when a holder releases. The inductive invariant is
  `IInv == TypeOK /\ LoopInv /\ SlotInv`; each action that takes or gives back a
  slot has its lemma, the others leave the set of holders alone. From `IInv` every
  step is a `Take`, a `GiveBack` or a stutter of `DeploymentSlots`, hence the
  refinement. `OneWriter` is inductive beside `IInv` once the history is known to be
  well formed (`WriterInv`): a step that logs an attempt that wrote leaves the loop.
  The contracts of one request's attempts, `SupplierCharged`, `HardFailureEnds`,
  `NobodyPassedOver` and `SwitchesAreChanges`, are consequences of one invariant,
  `Contracts`, inductive beside `IInv`: the attempts of a deployment are neighbours in
  the plan (`PlanInv`), what lies before the position was looked at (`PassedInv`), no
  deployment that a failure closed lies ahead (`ClosedInv`), charges are failures
  that were due one (`ChargeInv`), and the counted switches are the deployments opened
  (`SwitchInv`). A step of a request is first reduced to the one of a dozen forms it
  has for these parts (`OneOf`). `MarksAreCharged` is an action property.
- `UpstreamLimits_proofs`, of the quota windows: `QuotaTypeCorrect`, `OvershootBounded`, `WindowsAreRecords` and
  `RefusalsAreAtLimit`. `CountInv` counts the requests on their way, `TokensComing` bounds
  what they will record; passing the check needs a counter below the limit, recording
  moves a request from one summand to the other. The sums and products are in lemmas on
  natural numbers. That a counter is what was recorded in its window needs to know that
  nothing was recorded after the window it was last reset for (`LastUsed`), and that two
  starts of windows are a window apart (`StartsApart`). Two windows bound the last minute
  because each window's share of the meter is bounded (`MinuteInv`).
  Of the degradation: `EpisodesAreDistinct` and `RecoveryIsExact`.
  The strengthening ties the delayed reports to the clock (`StampInv`) and the
  last counted episode to the stored times (`EpisodeInv`). `QuietDeploymentsRecover`
  needs that the ticker has left no recovery that was due (`TickInv`). It has two
  hypotheses: the ticker runs, and no report waits for the mutex as long as a recovery
  interval; without the second a report could take effect an interval late.
  Of `ModelRuntime`: `RuntimeTypeCorrect`, `CooldownsHold` and `MarksSurvive`, for any number of goroutines. `CallTimes` bounds what a goroutine
  read by the clock and the lag, `PromiseKept` relates the stored end to the latest
  promised one.
- `DeploymentStore_proofs`: `TypeCorrect`, `ExhaustionEnds`, `LimitHolds` and
  `CountersOnlyGrow`. An exhaustion is right in the row because it is right in every
  copy and in every `EndOfToday()` a worker holds (`PeriodsEnd`), for which no copy may
  be newer than its row (`CopiesOld`). For the limit the increments on their way to
  today's row count with its tokens (`LimitInv`). The first attempt failed for a reason:
  with four workers or more, a save of an older copy lowers a counter and a later one
  of a copy with more tokens restores it over the requests let in between, so a bound
  that only allows for lowered counters is false; the property now leaves out the
  days of `resets`.
- `Billing_proofs`: `BooksBalance`, `UserPaysForUsage` and `TokenPaysForUsage`, for any
  number of requests, attempts and settlements, with the updater, Redis, top-ups and,
  for the user, editors. The invariant is a ledger (`BooksInv`): what has gone from
  a balance is what requests hold and what settlements still owe it. These are
  sums over sets of any size; a sum is stated by its partial sums along a numbering
  of the set (`IsSum`, `Total`), which makes changing one summand a lemma
  (`SumChanges`, `Transfer`), and what calls for an induction takes the least index
  that contradicts it (`Least`). `OverdraftStaysBounded` is without Redis and the
  updater, where the checks read the balance they guard, without editors, and for
  charges and estimates that have a largest one: what can still be taken of a balance
  (`UserRests`, `UserDues`) leaves it above the bound (`UserRoom`, `TokenRoom`), and what
  is open is never more than `peak` (`Few`). Proving it showed that a former bound of the
  token's balance was too tight: it left out the refunds a retry does not wait for. The
  instance of `billing` now starts from balances low enough to meet that case.
- `MCBilling_proofs`: `BalancesAlwaysMatchUsage` and `DirectOverdraftStaysBounded`, the
  same of the two modes `MCBilling` composes, the cached one by the theorems'
  instance.
- `WebFallback_proofs`: `PageTypeCorrect` and `LocksBelongToCalls` of the Fallback page,
  for any number of loads under way. `Locked` ties the row buttons to the one call,
  `SpinnerHasALoad` is inductive with the types. `SavesAreExact` and `EditorTypeCorrect` of
  the model editor, for any models, deployments, edits and other administrators.
  `EditorInv` gives the configurations, the drafts and the request their shape, and says
  that a request which is to be stored holds a fresh copy its mutator applies to
  (`Applicable`); `EditorTyped` adds what orders, pins and limits may be.
  `StatisticsStayReal` of the metrics panel, for any times, restarts, tabs
  and answers that overtake each other. `MetricsInv` has three parts: the counters are
  never above what happened (`CountsInv`); of every two answers or samples, in the tab or in
  the storage, the counters grew by what happened, when they are of one life of the gateway, and
  a later life counts only what came after (`HistoryInv`); and a list of samples is
  in order, spaced and within the retention (`ListSound`). `WebFallbackTyped` puts the three
  of `MCWebFallback` together. `PoolTypeCorrect` and `PoolStaysSound` of
  the free pool page, for any providers, keys and edits: what the page holds is sound
  because everything under way to it (the loaded and the saved copy, the other
  administrator's) is. `WebConsoleTyped` and `NoSecretIsLost` hold of what `MCWebConsole`
  composes. The module extends the next one, for that and for its lemmas on lists: what
  would take an induction along a list takes the least place that contradicts it
  (`Least`) or counts places (`RanksGrow`, `EveryRankHasAPlace`).
- `WebConsole_proofs`: `SettingsAreTyped`, `SettingsShowWhatIsStored` and
  `SecretsAreKept` of the option pages, for every section of the three consoles and any
  number of edits and submits. `FormsAreSound` says what the some hundred sections have in
  common (a secret is sent only when filled, a submit names an option once, a checkbox
  stands alone), and is the only lemma that looks at them one by one. `CalmInv` follows a
  page that nothing disturbs: one submit at most is under way, and every option that
  was touched is settled, or that submit has it among what is left to send.
  This is not true of a submit that stops at invalid JSON, nor of one whose endpoints
  were found after the inputs had changed, where the code leaves options unsent or the page
  without them: a former `upset` missed both, and only the size of the instance
  hid it. `SecretInv` follows the tokens and secrets from the field to the server: what the
  page shows for one, what endpoints were asked with and what is left to send was entered,
  and a blank is sent only at a keystroke of air.
  `TablesStayTrue` and `TablesAreTyped` of the tables, for all sixteen, any items and page sizes and any number of requests under way. The loaders put
  what they bring into the list in six ways, the answers to operations mark it in four
  (`LoadedForms`, `ManagedForms`); what each leaves of a list is said once, for the list
  it went into (`LoadedSays`, `ManagedSays`), and the sixteen tables are not looked at again.
  `TablesInv` has four parts. `TypesInv` says what lists and requests are and which
  tables send which, and that the rows of a page of berry have their switches. `RealInv`:
  every pair of an item and a status in a list, in a switch, in an answer or in the list a
  click captured is one that the item had; it fails only where default's channels are
  marked by a place that another row has taken. `TrueInv` follows one administrator who
  waits: beside loads only one request is under way, the list has not moved since its
  click, and a row is as its item is, or the server has just changed the item and
  the page does not know yet (`PendingItems`). berry's users need more, because a
  switch is turned only after the page was loaded again: what was there when the page was left
  is still at the front of the list (`GoneLast`), so that a reload that brings fewer rows
  cannot leave the row of the click without its switch; counting items shows it
  (`NotCrowded`). The last part is `TableSpinner`, which is inductive with the types.
  The attempt showed two flaws of the model that only the size of the instance hid. A list that
  holds an item twice marks one of its rows, so that `TrueWhenUndisturbed` was false with
  one event more (now counted as `disturbed`); and `displaced` had been raised by every
  answer of default's channels, so that `MarksAreReal` said nothing of them (it is now
  raised when the place of a click holds another row).
  `WebConsoleTyped` and `NoSecretIsLost` put the three of `MCWebConsole` together.
- `WebForms_proofs`: the account and the forms, for any number of steps, openings and
  acts. The account's invariant is `AllInv`. `AccountInv` says of each call what its answer
  may bring (`Truthful`: an answer that signs in or out brings the session of the user it
  tells) and that in berry no call of a settings page is refused for want of a session
  (`Accepted`), from which `SignedInStaysAgreed` follows. `ButtonInv` relates a page's
  locked button and its spinner to the mail and the call that are under way, `ResetInv` the
  password a reset page shows to the link that was used up for it: `MailsKeepPromise`.
  The invariant of the forms is `FormsInv`. `WaitInv` and `LockInv` name what a loading form
  waits for and which save locks a dialog: `BusyWaits`. `SoundInv` says of every value where
  it can come from: what a form, a load, a save or a record holds of a record is that
  record's own, as long as nothing went astray, and `PageInv` that on a page this takes a
  failed load. `ShowsInv` follows a form that nothing disturbs: it shows its record, or its
  one save is on the way and will make the record what it shows (`OnItsWay`). These
  give `RecordsStaySafe`. `FoundInv` says that the status the server has read for a save is
  one of the row of that save, so that what is written back is never another row's.
  `StatusIsKept` is an action property: a state that the system changed is taken back by
  the write of a save whose row was read before, and by nothing else. Two things were changed
  for it in the model: the first version of `ShownIsSaved` held only because
  an instance is too small for a form to be saved on another record and the form to be
  opened on the first one again without a load (`unsure` now tells); and the exception in
  `OneSaveAtATime` named the values of the form, which two openings may have in
  common, where the code restarts the form (`restarted`).

Every invariant and every action property that the passing runs check is a theorem
but one kind. Left to TLC is everything with fairness, which the prover does not reach:
`ComesToRest`, `StatusFollowsProvider` (the one property of `HealthChecker`),
`RequestsEnd` and `FreePoolComesBack`.

## Not modelled

`PROJECT.json` lists every component with its status and the reason:

- The adaptors (translation between formats), translations, log and metric output, and
  pages that only show what the server tells them.
- The configuration with its routing snapshot, the free-pool synchronisation and the
  channel cache: reloads are one step wherever a module meets one.
- Alerts and attempt events, on which nothing decides; rate limiters; the plain relay and the
  success rates of channels.
- In the consoles: channel tests and balances, top-up, dashboards, chat, the derived
  fields of the channel form, the default theme's edit of the own account, and components
  that no page uses (`DeploymentsEditor`, `VirtualModelsEditor`,
  `FallbackRuntimePanel`).
- Within the modules: ordering by score, the contents of requests and responses, the
  schema of the database, the crash of the process (what survives it is the database, which
  `DeploymentStore` and `Billing` model statement by statement, but no run restarts it).
