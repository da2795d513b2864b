# Phobs automated offers: a TLA+ model

The service turns a HubSpot deal into an offer. A webhook (or a workflow
extension, an API call, an admin) names a deal; a job is put into a BullMQ queue;
a worker reads the deal's stay from the payload, asks Phobs for availability,
creates products, line items and a quote in HubSpot and writes the quote's id and
link back onto the deal. This directory models that system in TLA+, checks the
models with TLC and proves their safety properties with TLAPS. Paths below are
relative to the repository; line numbers are of the modelled commit.

## Inventory

| Part | State | Operations | Interacts with | What is hard |
|---|---|---|---|---|
| Event intake: `routes/webhook.ts`, `routes/apiTrigger.ts`, `lib/idempotency.ts` | `idempotency_keys` (Postgres) | deliver, claim, enqueue, release, purge | sender, Postgres, queue | repeats and races of one event over routes and processes; two stores, no transaction; a 200 ends the retries |
| Job queue: `queue/index.ts`, `routes/adminJobs.ts`, BullMQ | jobs with data, state, lock, attempts | add, take, complete, fail, stall, retry, discard | intake, worker, admin | locks that are lost while the run goes on; attempts and stalls at their limits |
| processDeal: `queue/jobs/processDeal.ts`, `worker.ts`, `lib/retry.ts`, `hubspot/*` | `job.data.progress`, HubSpot objects, the deal | verify, normalise, search, product, line item, quote, publish | queue, HubSpot, Phobs | crash or lost reply between create and save; resuming; two jobs for one deal |
| HubSpot tokens: `hubspot/client.ts`, `routes/oauth.ts` | `oauth_tokens` | install, load, refresh, force refresh | pipeline, admin UI | concurrent refreshes, no lock, last writer wins; the one retry after a 401 |
| API tokens: `lib/apiTokens.ts`, `routes/adminApiTokens.ts`, `routes/apiTrigger.ts` | `api_tokens` with their allow-lists | mint, change the list, revoke, trigger | sender, intake | keys the client chooses; a duplicate of what is not there |
| Webhook guard: `tenancy/webhookAllowlist.ts` | a cache per process | load, invalidate, expire | intake, admin API | cache filled after an await, several processes |
| Tenant configuration: `routes/adminApi.ts`, `tenancy/config.ts` | `tenant_config`, its history | create, update, rotate, clear, legacy seal | guard, pipeline, maintenance | several statements without a transaction |
| Rules: `tenancy/rateFilters.ts`, `childAgeRules.ts`, `overrides.ts`, `phobs/priceQuote.ts` | the party's fields on the deal | filter, sort, cap, re-price; normalise ages and write them back | pipeline, HubSpot | combinations, empty inputs, ties; a rule applied to its own result |
| Accounts: `routes/adminAuth.ts`, `adminUsers.ts`, `admin/sessions.ts`, `admin/totp.ts` | users, sessions, TOTP step, recovery codes | invite, accept, login, enrol, confirm, disable, password, deactivate | Postgres, Redis | check-then-act on the user row; codes that work once |
| SSE slots and login counters: `admin/rateLimit.ts`, `routes/adminLive.ts` | Redis counters with a TTL | acquire, release, bump, reset, unlock | admin UI | counters that are not atomic with what they count |
| Maintenance and erasure: `queue/jobs/maintenance.ts`, `rollupUsage.ts`, `cli/eraseDeal.ts` | rows by age, jobs by deal | purge, seal, roll up, erase | all stores | runs beside live jobs; paging over a set it shrinks |
| Configuration page: `web/src/pages/TenantConfig.tsx`, `components/OverridesEditor.tsx` | a query's cache, the form, what was typed | fetch, fill, edit, save, refetch | admin API | a form filled from older data; callbacks that keep an older state; two browsers |
| Standalone tools: `do-functions/`, `standalone/quote-runner`, `standalone/phobs-mcp` | none of their own | ask, select, make products, line items, a quote | Phobs, HubSpot | one call of several fails and there is nothing to resume from |

What is left out, and why, is in the section "Not modelled" below.

What makes each part correct: an event becomes one job, or there is a reason why not;
a retried job resumes from bookkeeping that is true, and makes nothing twice unless a
record was lost; the deal shows only approved quotes over the attempt's own line
items; what is quoted is the cheapest of what the tenant permits; a traveller is counted
once; every job settles; a refresh never leaves an older grant behind; a rotated
token stops working; a code works once, and a changed password or a deactivation ends
sessions; a lock bounds the guesses; a slot is given back; an erased deal leaves nothing
that its id or `hs_object_id` finds and that did not come back meanwhile; a save changes what was edited; an answer says what was
done, and a duplicate is one.

## Modules

| Module | What it is |
|---|---|
| `ProcessDeal` | The pipeline with its queue and HubSpot |
| `OfferBoard` | What the pipeline promises of a deal, abstractly |
| `MCProcessDeal` | Small instances of `ProcessDeal` for TLC |
| `ProcessDealProofs` | Theorems about `ProcessDeal`, among them that it implements `OfferBoard` |
| `Intake` | Claim, enqueue and release of events |
| `MCIntake` | Small instances of `Intake` |
| `IntakeProofs` | Theorems about `Intake` |
| `WebhookGuard` | The guard row and its cache in every API process |
| `MCWebhookGuard` | A small instance of `WebhookGuard` |
| `WebhookGuardProofs` | Theorems about `WebhookGuard` |
| `TenantConfig` | The configuration row, its history and the access code |
| `TenantConfigProofs` | Theorems about `TenantConfig` |
| `RateFilters` | From an availability response to priced offers |
| `MCRateFilters` | Small responses and filters for `RateFilters` |
| `RateFiltersProofs` | Theorems about `RateFilters` |
| `Party` | The child-age rule and what it writes back, event after event |
| `MCParty` | A small instance of `Party` |
| `PartyProofs` | Theorems about `Party` |
| `Accounts` | One admin account, its sessions and the requests over its row |
| `AccountsProofs` | Theorems about `Accounts` |
| `LoginThrottle` | The hard lock on failed logins |
| `LiveStreams` | The live pages of an admin, their streams and the slots they hold |
| `TokenRefresh` | A tenant's HubSpot tokens: calls, refreshes, installations |
| `Erasure` | The erasure of a deal beside running jobs |
| `StandaloneTools` | The DigitalOcean functions, the MCP server and the quote runner |
| `ApiTokens` | API tokens and the triggers they are presented with |
| `ConfigEditor` | The configuration page in several browsers |
| `MCBackOffice` | Small instances of the eight modules above, side by side |
| `BackOfficeProofs` | Theorems about these parts (those on `Accounts` are its own module's), and about `MCBackOffice` |

### ProcessDeal

All jobs target one deal, which is where they meet: other deals share only the
SKU-keyed products. `job` is the queue's record (state, lock, attempts, stalls, and
`progress`, the part of `job.data` the worker updates). `run` is what each of the
worker's slots is executing; its `pc` stops before every external call, and at the
decisions between them. `run[w].saved` is the process's copy of `job.data.progress`.
The two are separate on purpose: BullMQ may give a job to another slot while the
old run, having lost its lock, goes on calling HubSpot and `updateData`.

| Code | Action |
|---|---|
| `makeWorker`, BullMQ | `Take`, `RecoverStalled`, `LockLost`, `Crash` |
| `worker.ts` 10-36, `isRetryable` | `Return`, `ThrowRetryable`, `ThrowPermanent` |
| payload, `load_tenant`, skip conditions | `Begin`, `LoadTenantFails` |
| `deal.verify` | `Verify` |
| `hubdb.query` ... `phobs.price_quote` | `Search` (any of `Selections`) |
| `product.upsert` | `Product`, `Find`, `Write` at `new_product`, `Save` |
| `lineItem.create` | `Item`, `Write` at `new_item`, `Save` |
| `quote.create_approve_fetch` | `Quote`, `Write` at `new_quote` and `approve`, `Poll`, `Save` |
| `deal.update.*`, `deal.no_availability` | `Write` at `normalize`, `publish`, `unavailable` |
| `callWithRetry`, `withHubSpotClient` | `CallFails`, `ReplyLost`, `CallUnauthorized`, `NoToken` |
| `POST /jobs/:jobId/retry`, `/discard` | `AdminRetry`, `Remove` |

A call may fail before it had an effect (`CallFails`), or after it, with the reply lost
(`ReplyLost`); both are retried in place up to `MaxTries` times and then end the
attempt. A 401 restarts the callback of `withHubSpotClient` once, from its first call
(`CallbackStart`): create and approve are one callback. The audit and step rows are
left out. What the search returns is data: `Selections` is any set of sequences of
priced offers without repeats.

`lost` is a ghost: the jobs that lost the record of an object (a lost reply of a create,
an attempt that ends between create and save, a lost lock). It appears in no guard.
It lets "no duplicates" be said of exactly the jobs the code can promise it for.
`orphans` is a ghost too: the line items and quotes that a run made for a job that had been
discarded before (`adminJobs.ts` 112), which nothing but the refused save ends.

### Intake

`keys` is the table, `queue` the jobs by id, `handler` the requests in flight, whichever
process serves them. `Claim` is the INSERT ... ON CONFLICT DO NOTHING, `Add` the
enqueue, which leaves a job id the queue still holds alone; `Release` the DELETE. Each
can fail, before or after it took effect where the code cannot tell. The sender repeats
what it has no 200 for. `made`, `reopened` and `stranded` are ghosts: jobs per event,
keys that were given up after a job was made, and events that a fault or a race may have
cost their job.

### WebhookGuard

`born` is the row: guard version *n* is the *n*-th write of its allow-list or token hash,
`born[n]` when it was written. `cache[p]` is the `Map` entry of process *p*; a missing
entry is one that has expired. A load (`loadWebhookGuard`) takes three steps, because it
awaits: `Load` reads the cache and `now`, `LoadSelect` is the SELECT, `LoadFill` sets the
entry whatever happened meanwhile. A delivery that finds a live entry changes nothing, so
it is no action; what it is judged by is what the invariants say of live entries. `Rotate`,
`Allow`, `Update` and `Create` are the statements of the admin handlers that write the row;
`Invalidate` is what follows in the process the request is in. `applied` and `late` are
ghosts: what was invalidated in a process, and which loads that overtook.

### TenantConfig

`exists`, `settings`, `plain`, `sealed` and `token` are the row, `history` the
`tenant_config_history` rows. `PUT config` branches in `ReadExisting` on what it read;
`Create` and then `CreateFails` are first-time configuration, `Update`, `Reread` and
`Record` the partial update. `Rotate` and `Allow` write columns that `redactConfig` keeps
(the token's hash and date, the allow-list) and no history row. `PurgeHistory` is the
maintenance step that deletes history by age, any number of the oldest rows, since when a row
was written is left out; `SealSelect` and `SealWrite` are the step that seals access codes.
Requests that fail validation, or are answered 404, change nothing and are left out.
`saved`, `overtaken`, `unrecorded`, `purged` and `shown` are ghosts. The settings are a
version number; the flag in the history that says whether an access code is set is not
part of it, and goes where `CodeAsSaved` says. The guard's cache and this row
meet in the writes of the token: the creation and the update are also actions of
`WebhookGuard`, which leaves out all that is not the guard.

### RateFilters

What `ProcessDeal` calls `Search` leaves open, for one job: `applyRateFilters` and the
re-pricing of what it leaves. Its three loops and its sort are actions over an index.
`Pass` and `Drop` decide one offer at the first of the eight steps that applies; `Sort` puts
what passed in the order of its price, stably; `Keep` and `Truncate` apply `max_results`;
`Apply`, `Fallback` and `Throw` take one answer to a price-quote call. `Permitted` and
`HasRoom` state the rules of `ARCHITECTURE.md` 741-747 without loops. What a reader of
the code may not expect, and the model keeps: an empty `include_boards` allows no
board; a price that Phobs leaves out is 0, passes `max_price_per_night` and sorts first;
limits and caps judge list prices, and a firm price that is higher is not judged again.
Left out: currencies, and the fetch of a quote beyond its outcome.

### Party

One deal's adults and child ages, and the jobs that read them (`Event`), apply the property's
rule (`Take`, `Normalize` per slot) and write the result to the fields they came from (`Write`,
with the default field maps). `Retry` starts an attempt over with the payload it has and
the rule of that moment. What else happens in a job is a `Finish` or a `Retry`. `Normal` states
the rule of `childAgeRules.ts` 8-11 over sets of slots, without the loop. Events come at any
time: which changes of a deal start a workflow is set up in HubSpot. `origin` and a
job's `of` are ghosts: the party that was last entered by hand and the rules applied to
it since. A tenant may map other slots; the assumption `InSlots <= OutSlots` says every
slot that is read is written. A tenant that maps fewer output slots than input slots is
outside it: the ages in the slots that are never emptied are counted again at every event.
A write-back also overwrites what was edited since its event; the model has that
behaviour, and its `origin` then is the older one, as the code has it.

### Accounts

One account: `account` is its row, `sessions` the rows of `admin_sessions`, `call` the
requests in flight, each with the row it read. A handler is split where it awaits: the
SELECT (`LoginRead`, `HandlerRead`, `AcceptRead`), the conditional UPDATEs of a login
(`LoginRecovery`, `LoginTotp`), the unconditional ones (`PasswordWrite`, `SetupWrite`,
`ConfirmWrite`, `DisableWrite`, `AcceptWrite`, `Deactivate`), and what ends sessions after
them (`RevokeOthers`, `RevokeAll`). `Enter` is the hook in front of every authenticated
route. What a request makes (password, secret, recovery codes, session) is named by the
request's number, so that two are never equal by chance. A TOTP code is a secret and a step;
`clock` is the authenticator's step, one off at most on either side. `CallAborts` ends a
request between two statements. The ghosts say what a property excepts: `crossed` (an MFA
change wrote over one made since it read the row), `lowered` (the last TOTP step went back
under a login), `revived` (an acceptance that had read the row before a deactivation),
`unrevoked` (a request was cut short before it ended other sessions), and a session's `late`
(its login read the row before the credentials changed). Left out: CSRF tokens, roles, audit
rows, and Redis, which is `LoginThrottle`.

### LoginThrottle

The failed logins of one address: `hard` is the counter per client address, `attempt` the
logins in flight, each past the lock (`Begin`), then judged (`Wrong`, `Right`, `Undecided`),
then counted or cleared (`Bump`, `Reset`), which Redis may refuse (`BumpLost`, `ResetLost`).
`Unlock` and `UnlockNext` are the superadmin's SCAN and its DELs, `WindowEnds` the key's
expiry. `guesses` is the ghost the lock is for: what was found wrong since the counter was
cleared. The soft counter only sets a delay and is left out.

### LiveStreams

`slotCount` is the Redis counter of one admin, `stream` the request behind each tab and
`page` what the tab's EventSource makes of it. `Acquire` is INCR and EXPIRE and the verdict on
the number INCR gave; `Refuse` gives the slot back; `Release` and `Delete` are the DECR and
the DEL of `releaseSseSlot`. `AcquireLost`, `ReleaseFails` and `ServerDies` are faults.
`leaks` counts slots of requests that are gone; `wiped` says that the key went while
requests held slots.

### TokenRefresh

`tokenRow` is the tenant's row; `caller` is each `withHubSpotClient` in flight and `install`
each installation. `Load`, `Refresh`, `StoreRefreshed`, `Fn` follow `getAccessToken` and the
callback; `Again` is the one retry. `AskInstall` stands for `/oauth/install` with its state
and cookie, `ExchangeCode`, `FetchAccount`, `StoreInstall` for `/oauth/callback`. HubSpot
issues tokens, lets them lapse and withdraws grants at any time. `overtaken` says that the
row went back to an earlier grant than one that was stored: the code has no
condition on its UPDATE. `unhealed` is what must not happen: a retry with a token that had
been refused. When a token counts as nearly expired is left open (any may be).

### Erasure

`inState` is the queue, a list of jobs per state, newest first; `rows` who has rows of which
kind; `eraser` the place of `eraseDeal` in it: `DeleteRows`, then `FetchPage`, `Look`
and `PageDone` per state, then the audit. Meanwhile jobs `Move` between states (taken,
finished, put back, recovered as stalled, retried), an admin or the queue's retention
discards them (`Discard`), `Comes` is a new event of the deal, and runs `WriteRows`, one
that lost its lock before the erasure began included. A manual trigger meanwhile adds a job of
its own, which is not one of those to be found. What is queued at first is one of
`StartQueues`: any lists, as long as a job is in one state, once. The ghosts `moved`, `ran`,
`locked` and `shifted` are the causes for which something may be left.

Two things the erasure does not look for, and the model keeps. `load_tenant`, the first step
of every attempt, writes its `job_steps` row before the deal is known, under deal 0
(`processDeal.ts` 65-72), and the DELETE asks for the deal's id: `rows["load_tenant"]` is never
emptied. And a payload is matched by `hs_object_id` alone (`eraseDeal.ts` 68-72), while the
worker reads the field the tenant maps `deal_id` to (`processDeal.ts` 103): a job that only
that field names (`MappedJob`) does not match.

### StandaloneTools

One request of one tool: `request` is what it knows, `made` the line items it made of the
response's offers, `quote` the runner's quote. The three writing tools share their shape and
differ in order (the runner upserts all products first), in what follows (the runner's
quote, the others' status on the deal) and in what an error tells. `SelectOffers` is the
filter, the stable sort and the cap of `selectOffers`: an offer's place in the sorted list
is its `Rank`, the number of offers that are cheaper, or as cheap and not behind it. `Check`
stands for the function `availability` and the two reading tools of the MCP server. HubSpot
may refuse, or take effect and lose its answer (`lost`); `Cut` ends a request without an
answer.

### ApiTokens

`apiTokens` are the rows, `trigger` the requests in flight, `claims` the idempotency keys and
`apiJobs` the jobs added. `Present` has the refusals in front of it as guards; `ClaimKey`,
`EnqueueProcessDeal`, `EnqueueFails` and `ReleaseKey` are the handler's calls. `Intake` has the
races for one key; here keys are what the sender makes them: a header the client chose,
which is the tenant's and not the deal's, or a hash. `duplicates` and `unkept` are
ghosts.

### ConfigEditor

`editor[e]` is the page in one browser: the status and data of its query, the form, what
was typed, the PUT under way. `Fill` is the effect that fills the form and runs after every
change of the query or of `hydrated`; `Becomes` therefore applies it. The four fields
stand for the four ways a field is edited and sent. `drawn` is the state that the
memoised rows of `OverridesEditor` keep: `EditCondition` spreads it, and with it drops
what was typed into another override since. The row and its PUT are one step here;
`TenantConfig` has the steps.

### MCBackOffice

These eight parts share no state with each other (their tables and keys are
disjoint, and what joins them, like the login that asks both `Accounts` and
`LoginThrottle`, is a nondeterministic answer in each). One is chosen at the start (`part`)
and moves; the others stay in one state they may start in. Its states are the sum of the
parts' states, not their product, and each property is checked on the part it is about.

## Runs

| Run | Shows |
|---|---|
| `PipelineRetry` | One job and one slot, every kind of payload, two offers whose availability changes between attempts, 2 attempts of 2 tries, a stall, an admin retry, 3 faults of any kind. `RecordsAreTrue`, `OfferAgreesWithLineItems`, `NoDuplicatesUnlessLost`, `ProgressNeverForgets`, `EveryJobSettles`. |
| `PipelineInterleaved` | Two jobs and two slots for one deal with one fault, including a lock that is lost so that two runs of one job overlap, or one goes on after its job is discarded: `RecordsAreTrue`, `DiscardedMakeNoOffer`, `DealShowsApprovedQuote`, and the refinement `ImplementsBoard`. |
| `QuoteAgain` | A disagreement with `ARCHITECTURE.md` 522, below. |
| `StalePrice` | A disagreement with the comment at `processDeal.ts` 465-467, below. |
| `IntakeRaces` | One event, two routes, three requests in flight, four deliveries, three faults: `OneJobPerKey`, `OneOwner`, `LossHasACause`, `RetriesGetThrough`. |
| `EventLost` | A disagreement with the comment at `webhook.ts` 284-285, below. |
| `GuardRaces` | Two processes, two requests in flight, three writes of the guard, a lifetime of 2 in 3 ticks, one fault: `StaleForLessThanTTL`, `AppliedHereAtOnce`. |
| `ConfigRaces` | Three requests, three writes of the settings, two tokens, two codes, one fault, with and without a row and its history to start from, the history purged at any time: `CodeAsSaved`, `SettingsInForceRecorded`. |
| `CreatedUrl` | A disagreement with `GO-LIVE.md` 51-52, below. |
| `FilterRules` | All responses of up to three of six offers (ties, another board, another unit, a missing price, none available), every kind of filter at both levels and with a cap, every answer to a quote: `LeavesTheCheapestPermitted`, `EveryDropIsTraced`, `NeverFreeByQuote`. |
| `PartyRerun` | Two jobs, three slots, ages up to 4, three rules (two ages of adulthood, one with its bounds the wrong way round) and none, one edit or one change of the rule: `NobodyCountedTwice`, `SamePartyEveryTime`. |
| `BackOffice` | The eight parts around the pipeline, one after another, with the types of each (`TypesOK`). `CodesWorkOnce`, `MfaAsLeft`, `OldCredentialsEndSessions`, `DeactivationIsFinal` of an account; `HardLockHolds`; `SlotsCounted`; `NewestTokensServe`; `ErasureLeavesNothing`; `AnswersAddUp`; `DuplicatesAreDuplicates`; `SavesWhatWasEdited`. |

Bounds. Two attempts, one stall and one admin retry are enough for a third execution
of a job, which is what A-B-A changes of availability need; a fourth adds no new kind of
state, since a run only sees the latest `progress`. Three faults allow a lost reply, a
crash and a failed save in one history. With two offers a line-item set can grow, shrink
and change. Two jobs on two slots give every pairwise interleaving of writes to the
deal; jobs for one deal share no other state but products. For the intake, events do not
interact (keys and job ids are per event), so one is enough, and three requests are a
claimant and two repeats. For the guard, a slow load holds one request while changes and
other loads use the other one after another; three ticks let an entry be filled, outlive a
change, and expire. For the configuration, three requests are two concurrent updates and
a creation or rotation. For the filters, a cap needs two offers to tie and one more to
lose, and no step looks at more than one offer. For the party, one job's result is the
next one's payload already with two jobs that come back, and an age can be below, at and
above each bound. `MaxFaults`, `MaxRetries` and `MaxDeliveries` only bound the
environment. Attempts and tries are 2 instead of 4.

In `BackOffice`: two requests in flight and three in all are a change, one that crosses it
and a third that makes use of what they left (two logins with one code after an
enrolment, two acceptances and a deactivation); one recovery code is enough to use twice,
and two steps of the clock have a code before and after the last one. Two logins from two
addresses against a lock of 2 pass it together; two unlocks or windows clear one counter
while the other grows. Three tabs under a cap of 2 are one too many, with one
fault. Two callers and an installer over two grants and three tokens are a refresh that
crosses another or an installation, and a second 401. Four jobs, a page of 2 and two
moves have a full page with a job behind it, which the removal of one on it makes the
offset pass over, and one that moves, comes or is discarded under it; one job of the deal is
named by its id, one by `hs_object_id` and one by a mapped field. The jobs start completed
or active, which are the first state that is swept and the only one with locks, and any
of them may have a run that lost its lock. Two offers with prices 0 to 2 have ties, one to drop and one to cap; a
request keeps nothing for the next, so one is enough. Two tokens of different
tenants, two deals and one header make every pair of keys that may collide. Two browsers,
two edits and two PUTs are an edit on older data, and a second save after a first.

Deadlock is not checked where the system rests: when all jobs are settled, all deliveries
made, all requests answered, one job's offers priced, or the bounds on requests used up. In
`PartyRerun`, where events never end, it is.

Fairness. A live worker goes on with its runs (`WF` of `Step` per slot); a waiting job is
taken by some slot, and the stalled check runs every 30 s (`WF` of `Take` and
`RecoverStalled` per job). A run at a call always has an outcome, of which success is
one; faults are bounded, not fair. In the intake, Node runs each request to its answer,
be it a failure (`WF` of `Go` or `Fail` per request), and the sender repeats an
unanswered delivery (`WF` of `Retry` per event). The liveness results assume nothing
more: in particular not that any call succeeds before the faults run out.

## What the checks show against the documentation

* `QuoteNotCreatedAgain` (run `QuoteAgain`). `ARCHITECTURE.md` 522 says a quote is
  not created again once there is an id. The id is saved only after approval and polling:
  an attempt that ends between leaves an approved quote, and the next makes another.
* `PublishedPricesAreCurrent` (run `StalePrice`). The comment at `processDeal.ts`
  465-467 says a change of availability leads to a new quote. A change of price alone
  does not: the line item's key is product, unit and rate.
* `CreatedUrlIsShown` (run `CreatedUrl`). Creating a configuration "shows the webhook URL
  once" (`GO-LIVE.md` 51-52). The handler inserts the row, then a history row with
  `before: null` into a column that is NOT NULL (`adminApi.ts` 320-325, `schema.ts` 155):
  every creation ends with an error, the row and a token nobody has seen. The next save
  updates; only a rotation makes a token that is shown.
* `NoEventIsLost` (run `EventLost`). The release of a claim is meant to let the sender's
  retry through (`webhook.ts` 284-285). A retry that came while the enqueue was still
  failing has been answered 200 as a duplicate, and nobody sends the event again.

Other promises hold with an exception, and the properties name it. A change applies
"immediately on this instance" (`webhookAllowlist.ts` 10-11), but for a load that had read
the row before (`late`). The maintenance step moves a legacy access code into the vault
(`maintenance.ts` 75-76), but a code that an admin saves between its SELECT and its UPDATE
is overwritten with the old one (`overtaken`). The page "re-hydrates from the fresh
server state" after a save (`TenantConfig.tsx` 247): the effect runs at once, fills the form
from the data the query still has, and then ignores what the refetch brings, so that the
next save sends the values from before the first; `SavesWhatWasEdited` speaks of forms that
were filled from the row as it is. An erasure is "paginated so nothing is skipped"
(`eraseDeal.ts` 64): the offset goes on by a full page while the page's jobs are removed, so
that as many that follow are passed over (`shifted`). It is also to remove "every record this
system holds for a deal: job_steps, ..." (`eraseDeal.ts` 6): the `load_tenant` rows, with the
`job_id` that names the deal when intake made it, stay until the retention of `job_steps`
(`maintenance.ts` 51-56), and jobs that only a mapped `deal_id` field names stay until that
of the queue; `ErasureLeavesNothing` is about the other rows and jobs. The history of
a configuration has the settings in force after updates that cross, but not after a rotation,
a change of the allow-list or a creation, which write none, nor once their row is older than
the retention (`unrecorded`, `purged`). A TOTP code is accepted "at most
once" (`totp.ts` 32): confirming and disabling judge a code on the row they read and do not
claim it, and can set the last step back (`lowered`). A setup must not "silently downgrade
an account that already has MFA" (`adminUsers.ts` 167): one that read the row before a
confirmation does (`crossed`). The counter of live streams is not to "expire underneath"
streams that are open for over an hour (`rateLimit.ts` 135): its TTL is only renewed by a new
stream (`wiped`).

Documentation that differs from the code and that no run is about: `ARCHITECTURE.md`
247 has 5 attempts and a comment in `worker.ts` 28 has 8, the code has 4;
`ARCHITECTURE.md` 518 suspends a tenant on `invalid_grant`, the code never does;
`ARCHITECTURE.md` 521 has line items deduplicated on the deal and product, the code
only within a job's `progress`; a release is "a no-op if the slot was never claimed"
(`rateLimit.ts` 132), the code counts down whatever was claimed. Seen while modelling, and
contradicting no text: the answer to a login has no `totpEnabled` (`adminAuth.ts` 198-207), and
the web client takes it for `false` (`api.ts` 198) until the next `/me`; a condition's memoised
row drops what was typed into another override since it was drawn
(`OverridesEditor.tsx` 426); the quote runner validates `includeRestricted` (`server.js` 141) and
never passes it on, and its error after a failed line item does not name those that were
made; a client that uses an `Idempotency-Key` again for another deal is answered that it is
a duplicate.

## Proofs

Every theorem is proved for all values of the constants, from the named assumptions in
the modules: `ConstantsAssumption` (types; attempts and tries at least 1; `None` is
no worker), `NoneIsNothing` (nor a job or the record of a quote), `SelectionsAreSets` (a search
returns a unit and rate once),
`IntakeAssumption` and `GuardAssumption` (types), `ConfigAssumption` (types; `None` and
`Keep` are no codes), `RateFiltersAssumption` (types), `PartyAssumption` (types; every
slot that is read is written), `AccountsAssumption` and `TokenRefreshAssumption` (types),
`LoginThrottleAssumption` and `LiveStreamsAssumption` (the lock and the cap are at least 1; logins
and tabs are finitely many), `ApiTokensAssumption` and `ConfigEditorAssumption` (types; what
stands for "none" is no value), `ErasureAssumption` (types; a page has room; a job is queued in
one state, once) and `ToolsAssumption` (types). TLC evaluates them in the runs.

`ProcessDealProofs`. None of the properties is inductive: what a run may publish
depends on what it resumed from, and that on what earlier runs recorded. The inductive
invariant `IInv` has three parts. `QueueOK` types jobs and runs and says what a run has
when it is at a given `pc`. `HubOK` says that HubSpot ids are below `nextId`, that an id
names one object, and that every id a run or a record holds was made for what it is held
for: a product for its SKU, a line item for its job, product and offer, a quote for its
job and its set of line items, approved from the poll on. `CountersOK` types the
counters. Steps that only add to HubSpot keep all of it (monotonicity lemmas); `Save`
moves facts from a run to its job; `Take` moves them back. From `IInv` follow
`TypeCorrect`, `RecordsTrue`, `OfferAgrees`, `DealShowsApproved`, and, action by action,
`Refinement`: a write at `new_item` is `AddLineItem`, at `approve` it is `Approve` (or a
stutter, when a lost reply approves twice), at `publish` it is `Publish`, at
`unavailable` it is `MarkUnavailable`, and everything else is a stutter.

`NoDuplicatesUnlessLost` needs more than `IInv`, for it is about what a run does not know.
`DupInv` says it of a job that lost nothing. The run that has it holds the job's lock, and its
`saved` is the queue's `progress` (`RunnersOK`); so two slots never run it at once. It is about to create only what is not recorded, and past a creation the
quote it holds is newer than the recorded one (`Careful`). Every line item is recorded
or in the hands of the run that has yet to save it (`ItemsKnown`); every quote is the recorded
one, an older one, or in a run's hands (`QuotesKnown`). A second line item for the same
product and offer would be known to the run that makes it; and a run makes a quote only
when the recorded one, which is the newest, is for other line items. The steps fall into a few
kinds, and one lemma does each: a run goes on (`GoesKeeps`), ends (`EndsKeeps`), the queue
moves a job (`QueueKeeps`), a slot takes one (`TakeKeeps`), a line item or a quote is made
(`NewItemKeeps`, `NewQuoteKeeps`), a save brings what is held into the record (`SaveKeeps`).
`ProgressNeverForgets` follows, because what a save replaces is what its run started from.

`DiscardedMakeNoOffer` is about the other jobs, those that are removed under a run. `OrphanInv`
says that what was made for a removed job goes no further than the run that made it: an
orphan is at most what a run holds between its creation and the save it is about to try
(`made`), never in what a run works on, in a job's record, in a quote's line items or on
the deal. Since a removed job stays removed, that save is refused and ends the run. Left in
HubSpot are line items and quotes that nobody is shown.

`IntakeProofs`. `OneJobPerKey` needs to know that whoever is about to add holds the
only claim (`OneOwner`) and that no job was made before it got it, unless the key was
reopened (`Adding`, `Freed`); `LossHasACause` needs that a key nobody uses either made a
job or is stranded (`Kept`), and that a job the queue holds was counted (`Counted`).
Their conjunction is inductive.

`WebhookGuardProofs`. How old an entry may be is settled when its load reads the row, so
the invariant speaks of loads in flight: a load has read no earlier than its `now`
(`FreshFrom`), and nobody knows a version that is not written (`Known`). A write then
cannot make an entry older than the TTL, because it happens after every `now`. For
`AppliedHereAtOnce` a load that knows less than what was applied in its process is late
(`LateOnly`): a load that reads later knows at least as much.

`TenantConfigProofs`. The copy the seal holds is the saved code unless overtaken, and a row
that was ever saved anew has no legacy code left to copy (`Copy`). The settings in force are
accounted for (recorded, recorded once and purged, or written without a row), or some request
has yet to record them (`InForce`): whoever wrote last reads back what is in force, and a
row that is purged is remembered.

`RateFiltersProofs`. Each loop has its part: what `selected` holds is behind the first
index and permitted (`Selecting`), what `kept` holds comes in order from behind the second
(`Truncating`), and behind the third every price is a list price or above zero (`Pricing`).
`EveryDropIsTraced` is inductive beside them. `QuotedArePermitted` says that nothing wrong
is quoted. That nothing is missing either, and that at a cap the cheapest are left, is a matter
of counting (`Counting`): the first loop passes over no permitted offer, because what one
of the eight steps drops is not permitted (`DroppedAreNotPermitted`); the count the second
loop keeps per unit is the number it kept of it; and that number has reached the cap exactly
when as many permitted offers of the unit come before this one (`FullIsNoRoom`), since all
of those are behind the index and were kept. `CheapestAreLeft` is what this amounts to when
the loop has ended.

`PartyProofs`. A job has counted no more than the payload's adults and the filled slots
behind its loop (`Counting`); the payload's guests are at most those entered (`Counting`,
`DealInv`), and what `Write` leaves on the deal is no more than what was counted, because
it empties every slot it does not fill (`WrittenIsCounted`, where `InSlots <= OutSlots` is
used). `CountedOnce` follows.
`SameParty` is the stronger promise, that a deal that is processed again searches for the same
party. Within a job, the loop has counted and listed what the rule says of the slots behind its
index (`FollowsTheRule`, `RoundFollows`). Between jobs, what `Write` leaves is read back as the
result, with the slots behind it empty (`WrittenIsRead`); and the rule, applied to
such a result, gives it again (`ResultIsNormal`), because its ages are of children and its
adults are not ages any more. A deal or a payload therefore is what was entered or the one
rule's result for it (`Fits`), and a job arrives at that result from either.

`AccountsProofs`. Each property has its own strengthening, over lemmas that say what a kind
of step does to the requests. `DeactivationStays`: an acceptance in flight read the row while
it was pending, so whatever it revives counts as `revived`. `OldSessionsEnd`
(`SessionsCurrent`): either some request has yet to revoke, or every session is current;
before the account is first active it has no session and no login in flight.
`MfaStaysAsLeft` (`MfaKept`): a setup in flight read the row with MFA off, so if it is on now,
it crosses. `CodesAreUsedOnce`: numbers are fresh (`NumbersApart`), so a secret or a batch
of recovery codes of a request is nobody else's; a used recovery code is not in the row
(`RecoveryOnce`), and a used TOTP code is at or before the last step (`Behind`), or its secret
is neither in the row nor in one that a login has read (`Gone`), as long as the last
step was never set back.

`BackOfficeProofs`. Tokens: no call holds a grant newer than the newest stored, and a
retry's token is none of those that were refused when it began, because those were issued
before it (`HoldsNothingRefused`). Lock: a guess is counted, about to be counted, or lost,
and what is counted, about to be counted or still being judged is at most the lock less one
and the logins in flight (`ThrottleIInv`); one login moves at a time, which changes a
cardinality by at most one (`LoginGoes`). Streams: the same argument with slots
(`MoveKeeps`). Triggers: a claimed key is backed by a job, a request under way or a claim
whose request made none (`Backed`), and everything under a key fits the key's tenant, and
its deal if no header was sent (`KeyFits`). Page: data, form and PUT, each read against the
version of the row it came from, agree with that row but for what was typed (`PageOK`); a
write makes a new version, and so says nothing of forms from older ones.
Erasure: a job that its id or `hs_object_id` names and that is still queued is ahead of the sweep, in a later state, behind
the offset, on the page in hand, or behind a full page (`Ahead`), or one of the property's
causes holds of it (`Excused`). What leaves a state moves those behind it up by one place, which
takes some out of the sweep's way only where a full page is gone through, and that is
when the state counts as shifted (`Rearranged`). Tools: the sort puts each offer at the place
of its rank, so that a list cut at the cap has the cheapest (`SortIsAnOrder`,
`SelectedAreTheCheapest`); a request that goes on knows each line item it made, and these are
the first of what it selected (`KnowsWhatItMade`, `MakesInOrder`). `AnswersAlwaysAddUp` puts
the two together. At the end, `RunsAreOfTheParts` says that a behaviour of `MCBackOffice` is one
of every part's own specification, the parts that rest included: what is proved of a part
holds in the run that checks it. `TypesCorrect` is proved that way.

Only model-checked: the liveness properties `EveryJobSettles` and `RetriesGetThrough`, since the
proof system does not prove liveness under fairness. Every other property of a run that
passes is a theorem here. The runs that end in a violation are shown by TLC alone.

## Not modelled

* Skip conditions, the loyalty rule and templates: in `ProcessDeal`'s `Begin` and `Search` their
  outcome is open.
* The usage roll-up, audit rows, live events and metrics: best effort, and nothing reads
  them to decide anything.
* XML building and parsing and the vault's cryptography: conversions of data, whose
  outcomes (offers, a failure) the models have.
* Server wiring, configuration and migrations.
* Of the web UI, the pages that show what a query returns or send one form and keep nothing
  a later request depends on (the Phobs probe, users, settings), and the allow-list and
  token sections.
* Of the accounts: two servers that bootstrap the first superadmin at once (a check and then
  an insert, `adminAuth.ts` 269-291), the `createAdmin` command, what a role may see.
* The soft login counter, which sets a delay.
* The erasure's dry run, which changes nothing; the `admin_audit` rows, which may name a job
  of the deal and which the erasure does not claim to delete; and the deletion of `job_steps`,
  `audit_log` and finished jobs by age, of which `Discard` has the jobs and the rows only get fewer.

## Plan

Written in this order; the most important behaviour first.

1. Done: `ProcessDeal`, `OfferBoard`, `Intake`, `WebhookGuard`, `TenantConfig`,
   `RateFilters`, `Party`, `Accounts`, `LoginThrottle`, `LiveStreams`, `TokenRefresh`,
   `Erasure`, `StandaloneTools`, `ApiTokens`, `ConfigEditor`, their runs, and the proofs of
   every safety property the runs check.
2. Skip conditions and the loyalty rule, as operators in front of `ProcessDeal`'s `Begin`.
3. `ConfigEditor` over the steps of `TenantConfig` in place of its one-step PUT, and a proof
   that the one step is implemented by them.
