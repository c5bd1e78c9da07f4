# A verification of Nuvonode

Nuvonode lets the owners of idle GPUs serve chat completions to the holders of
API keys. An API server (`apps/api`, Go) keeps users, wallets, models and
providers in PostgreSQL, offers an OpenAI-compatible endpoint, and sends each
request over a websocket to a provider node (`apps/provider-node`, Go), which
asks a local Ollama for the answer. Users pay in internal credits. A web
application (`apps/web`, TypeScript) is the dashboard of users, node owners and
administrators, on top of the API. This directory holds TLA+ models of that
system, the TLC runs that check them and TLAPS proofs about them. `PROJECT.json`
lists components, runs, mutants, findings, hazards and theorems, and maps every
definition to source lines.

## The system

| Component | State | Operations | Correct when |
|---|---|---|---|
| Chat completion endpoint (`handler.ChatCompletions`) | `inference_jobs`, `usage_records`, `provider_stats`, the locals of each handler | one transaction after another: create job, reserve, mark dispatched, dispatch, release, mark failed, finalize | each request is answered once, credits are set aside once and then returned or charged once, jobs, records and counters agree |
| Wallets and ledger (`WalletService`) | `wallets`, `wallet_ledger` | grant, reserve, release, finalize, admin adjustment, all through `addLedger` | no negative or wrapped amount is stored, `reserved_credits` is the sum of the open reservations |
| Metering and pricing (`metering`, `PriceCredits`, `ProviderReward`) | none | estimate, validate reported counts, price, reward | a report moves a bill only within bounds, the reward is within the cost |
| Provider hub (`ws.Hub`) | maps of connections and of waiting jobs | Register, Unregister, Disconnect, Dispatch, Complete | a job gets its own result or an error, nobody blocks, a connected node can be found |
| Provider websocket session (`handler.ProviderWS`) | the connection and its instance | hello, heartbeat, hardware report, model list, job result, job error | database and hub follow the connection |
| Provider records | `providers`, `provider_instances`, `provider_model_advertisements` | create, approve, reject, disable, upsert, heartbeat, advertise | only approved, active, online and advertised providers are routed to |
| Offline sweep (`sweepProviderTimeouts`) | none of its own | marks instances without heartbeats offline | a silent instance goes offline, a live one does not stay so |
| Routing (`FindRoutableProvider`, `routing_service.go`) | none | one query; a score that nothing calls | the chosen route satisfies the filters |
| Provider node (`internal/node`) | its connection, backoff, running jobs | serve, reconnect, heartbeat, read, execute | it comes back after every failure, one answer per job |
| Accounts, projects, API keys | `users`, `projects`, `api_keys` | register, login, create, revoke | one first admin, a revoked key is refused |
| Model catalogue | `models`, `model_versions` | create, update, pause | only valid models become active |
| Rate limiting (`RateLimitMiddleware`) | one Redis counter per client, route and minute | INCR, EXPIRE | no more than the limit per minute, keys expire |
| Dashboard pages (`apps/web/app`, `lib/api.ts`) | the state hooks of the page on the screen, the promises it waits for | load, filter, choose a project, create a key, project, node or model, revoke, pause, edit a status, judge a node or an advertisement, adjust a wallet | flags tell the truth, what is shown is what the server holds, a secret is shown once and not taken away |
| Browser session and shell (`components/AppShell.tsx`, `lib/session.ts`, login and register pages) | a token in `localStorage`, shared by all tabs; per tab the page, the account shown and the redirect under way | log in, register, log out, mount a shell, ask who is signed in, redirect | the account shown is the one calls are made as, administrators' pages are for administrators, no tab is stuck, the first user becomes administrator |
| Landing page, presentational components | the `copied` flag of `CopyBox` | none | not modelled: text and layout |
| Plumbing (`router`, `config`, `observability`), tokens and passwords (`auth`) | none | none that changes state | not modelled: wiring and cryptographic helpers |

How they interact. An HTTP request is a goroutine of the API process. It calls
services, which run transactions on PostgreSQL, with nothing that spans two of
them. The chat handler calls `Hub.Dispatch`, which writes to a provider's
websocket and waits on a channel; the goroutine that reads that websocket
(`ProviderWS`) feeds the channel through `Hub.Complete`, and writes the
provider's rows. Administrators change models, wallets and providers while all
this runs. The sweep is a goroutine of its own. The node is another process.
The dashboard is a further client: its pages call the API with the token of the
browser, wait for promises, and patch what they show from the answers.

What is hard: money moves in three separate transactions per request, any of
which may fail, or may commit and be reported as failed; the process may die
between them; prices are read once and may change; two goroutines meet in two
maps and a channel, with a timer racing the answer; connections break and come
back, and the two ends notice at different times. In the browser, answers
arrive in any order and after the page that asked has gone, calls are carried
out and reported as failed, lists are patched instead of loaded again, two tabs
share one token that each reads at other times, and a redirect may overtake
another. `PROJECT.json` lists each hazard at its line with the properties that
watch it.

## Modules

| Module | Models |
|---|---|
| `Metering` | the pure arithmetic of billing |
| `Ledger` | a wallet row and `addLedger` |
| `ChatCompletion` (extends both) | the chat handler with every transaction it makes, price changes, adjustments, failing calls and crashes |
| `Escrow` | abstract: credits are set aside once and then returned or charged once |
| `Hub` | the hub, the session goroutine that feeds it, disabling, the node's connections |
| `RemoteCall` | abstract: a call that ends once and is answered only by an execution |
| `ProviderPresence` | provider rows, instances, advertisements, websocket messages, the sweep, the routing query |
| `ApiClient` | what a page and the API have to do with each other: the rows of the server, the calls of `lib/api.ts`, promises, the hooks of a page |
| `ReadPages`, `KeysPage`, `FormPages`, `ReviewPages` (each extends `ApiClient`) | the fifteen pages, by what they do |
| `Dashboard` (extends the four) | a page against the API, with lost answers, others' changes and page changes |
| `SecretLife` | abstract: a plaintext secret is shown at most once |
| `BrowserSession` | tabs, token, shell, signing in, registering, and the accounts of the API |
| `MCMetering`, `MCChatCompletion`, `MCHub`, `MCProviderPresence`, `MCDashboard` | instances for TLC, and documented claims that the code contradicts (`BrowserSession` needs no module for its instance) |
| `BillingProofs` (of `Metering` and `Ledger`), `MCMeteringProofs`, `ChatCompletionProofs`, `HubProofs`, `ProviderPresenceProofs`, `DashboardProofs`, `ReloadProofs` (extends it), `BrowserSessionProofs` | theorems |

### Metering

Text is its length in bytes, a reported count is an integer (a node may report
a negative one). `PriceCredits` is written with integers: the float64
quotients round up to the same integers as long as products stay below 2^53.
`ProviderRewards` is a set, because the product of a cost and a ratio such as
0.7 is inexact: when the exact product is a whole number, the float64 may be
just below it.

### Ledger

A wallet is its balance, its reserved total, and the sum of its ledger rows by
entry type. `Add` wraps like int64, with `MaxInt` in the place of 2^63 - 1.
`Accepts` is the test of `addLedger`, `Post` its effect.

### ChatCompletion

`pc[r]` says where the handler of request `r` is, `loc[r]` holds its local
variables, and each action is one database transaction or one event of
`Hub.Dispatch`:

| Phase (`pc`) | Next call of the handler | Actions |
|---|---|---|
| idle | key, body, model, route (one read each) | `Admit`, `Reject` |
| routed | `CreateJob` | `CreateJob` |
| created | `ReserveForUser` | `Reserve`, `RefuseReservation` |
| refused | `MarkJobFailed`, answer | `MarkJobFailed` |
| reserved | `MarkJobDispatched`, error ignored | `MarkJobDispatched` |
| marked, waiting | `Hub.Dispatch` | `SendJob`, `NotConnected`, `JobTimeout`, `ProviderError`, `Result` |
| releasing | `Release`, error ignored | `ReleaseFailed` |
| failing | `MarkJobFailed`, error ignored, answer | `MarkJobFailed` |
| settling | `FinalizeUsage` | `FinalizeUsage` |
| unsettled | `Release`, error ignored, answer | `ReleaseUnsettled` |

Every call goes through `Call`, which says whether the transaction was applied
and whether the handler was told so. A call that failed left no trace, except
for those in `AmbiguousCommits`, which may have committed and yet fail
(`InTx` returns the error of `Commit`). `hold` and `faulty` are history: what
became of a reservation, and which requests met a failing call. `Crash` ends
every running handler and keeps the database.

`wallet`, `price`, `job`, `usage` and `stats` are the rows of the database.
Of `provider_stats` the success rate is kept only as 0 or 1: the statement
sets it when it inserts the row, and its second modification of the same row
has no effect in PostgreSQL.

### Hub

`reader[c]` is the goroutine of `ProviderWS` on connection `c`, `dispatch[j]`
the one of `Dispatch` for job `j`; each critical section under `Hub.mu` is an
action, and so is the send in `Complete`, which happens outside the lock. The
network carries `requests` and `answers`; a connection may break at any time
(`Break`), the API process notices later (`ReadFails`), and a write to a
broken connection may fail or be lost. A node dials again only after it has
given up its old connection (`serveOnce` closes it), answers each request at
most once, and may stay silent. Ids of jobs are taken to be unique.

### ProviderPresence

`approval`, `disabled`, `status`, `silence`, `ad` and `mapped` are columns of
`providers`, `provider_instances` and `provider_model_advertisements`; each
action is one statement. `silence[i]` is the age of `last_heartbeat_at`, and is
not kept for an offline row, where no query reads it. `session[s]` is the
goroutine of `ProviderWS`: `open` before a hello, `hello` once it knows its
instance, which it forgets again when a later hello fails. No message looks at
the provider's row, so that the session of a disabled provider still sets its
instance online; the routing query alone excludes it. `connection` is the
hub's map, whose steps are in `Hub`; here it says where a routed request
would go. Time is counted in ticks; `sinceTick` is the sweep's ticker and
`sinceSweep` the time since a sweep was carried out. The statement of a sweep
may fail (its error is ignored) and the API may stop and start again, when the
rows stay as they are. Model versions are edited in the database, by nothing
in this repository's API.

### ApiClient, the pages, and Dashboard

`db` holds the rows of the server in the order its queries answer in, `page`
the `useState` values of the mounted page, and `wire[s]` a promise: the calls of
`lib/api.ts` still to be carried out, the answers that have come, and `then`, the
name of the code that waits. A call is carried out at some moment after it was
made (`Answered`, one transaction of the server), and the code that waits runs
at some later moment, in any order with the others (the actions of `Handles`).
It may fail, carried out or not (`Failed`), and the page sees the same rejected
promise. `Remount` is leaving the page or loading it again: the reads of the old
page are forgotten, its writes still happen (`Ignored`). `Elsewhere` is a change
by somebody else. Actions are named for the handlers:

| Page | Actions |
|---|---|
| `/dashboard` | `HomeLoaded`, `KeySetsLoaded`, `KeySetsFailed` |
| `/dashboard/credits`, `/models`, and of `/admin` the overview, jobs, usage, audit | `ReadLoaded` |
| `/dashboard/usage` | `ReadLoaded`, `Filter`, `Filtered`, `FilterFailed` |
| `/dashboard/api-keys` | `KeysPageLoaded`, `ChooseProject`, `KeysLoaded`, `SubmitKey`, `KeyCreated`, `CreateKeyFailed`, `Revoke`, `KeyRevoked`, `KeysCallFailed` |
| `/dashboard/projects` | `FormLoaded`, `SubmitProject`, `ProjectCreated`, `CreateFailed`, `SubmitInvalid` |
| `/dashboard/providers` | `FormLoaded`, `ShowNodeForm`, `SubmitNode`, `NodeCreated`, `CreateFailed` |
| `/admin/models` | `FormLoaded`, `SubmitModel`, `ModelCreated`, `EditModel`, `SaveStatus`, `StatusSaved`, `Pause`, `ModelPaused`, `CatalogueCallFailed`, `CreateFailed`, `SubmitInvalid` |
| `/admin/wallets` | `Tick`, `SubmitAdjustment`, `DismissAdjustment`, `AdjustmentAnswered`, `SubmitInvalid` |
| `/admin/providers` | `ReviewLoaded`, `TurnTo`, `Judge`, `JudgeDismissed`, `Judged`, `JudgeFailed` |
| `/admin/provider-models` | `AdQueueLoaded`, `JudgeAd`, `AdJudged`, `JudgeFailed` |

`LoadFailed` is the `catch` and `finally` of all that load. The text typed into
forms, success messages, the balance and the rows of the audit log, totals and
layout are left out; two lists that differ only in such details are the same.
A settled request stands for its row of usage, of the ledger and of the jobs.

`calm` and `alone` are history: whether a call has failed or overtaken another
that it interferes with, and whether others have changed rows, since the page
was mounted. `LikeAReload` speaks of pages to which none of this has happened,
because the pages make no promise about the others: they do not load again.

### BrowserSession

`tab[t]` is what a tab shows, whose name is above it, and where
`router.replace` is leading it; `check[t]` is the shell's `me()`, `sign[t]` the
form that was sent. The token is read when a call is made, so that `me()` is by
the account of the token then. `Enter` is what mounting a page does, `Redirect`
the router; to the page that is there already it mounts nothing. `Navigate` is
the user's way to another view, or to the same one loaded again; `MoveWithin`
is a link inside the shell (`NavLink`, the brand, links of the pages) or a step
back in it: the layout keeps `AppShell` mounted, so that its user stays and its
effect does not run again, and the router gives up the redirect that was under
way. The answer to `me()` of a shell that has gone is thrown away; the answer to
a form is not, and sets the token wherever the tab is by then (`SignedIn`). (A
page that is loaded again throws that answer away too, which in the model is one
that was lost.) A registration is a transaction in two steps, `CountUsers` and
`CreateUser`.

Three variables are history and change nothing: `disturbed`, that the token
behind a shell was changed by something else; `overlapped`, that two
registrations were under way at once; and `lost`, that the last redirect which
was to lead out of the shell was replaced by a navigation that mounts nothing,
which is `MoveWithin`, or the `router.replace("/dashboard")` of a form on the
dashboard itself. The program does not recover from that by itself, so the
properties speak of it: `AdminShellGuarded`, `NameMatchesToken` and
`ShellSettles` hold but for a redirect that is `lost`, and show that no other
step of this tab or another does harm.

## Runs

| Run | Instance | Shows |
|---|---|---|
| `chat_billing` | 2 requests on one wallet of 6 credits, 1 provider, 2 prices, adjustments by 3, 1 faulty request, crash, `MaxInt` = 8 | the invariants of billing, that finished jobs stay finished, that overflow is refused, refinement of `Escrow` |
| `chat_wallets` | 2 users with a request each, 2 providers, a model that becomes free, 1 faulty request, crash, fairness | wallets and counters do not mix, every admitted request is answered |
| `metering` | texts of up to 9 bytes, counts from -1 to 3 and 99 to 106, three rates | the arithmetic against its reference |
| `hub` | 2 connections (of two nodes of one provider), 2 jobs, an administrator, fairness | nobody blocks, the job map is exact, refinement of `RemoteCall`, `Dispatch` returns, readers leave |
| `presence` | 2 machines of one provider (one can drain) with a session each, 1 model, 1 request, approval as in development, timeout and interval of one tick, at most 2 ticks without a sweep, restarts, fairness | how stale a live row can be, only silent instances are swept, silent instances are swept, only vetted instances are routed to |
| `dashboard` | each of the 15 pages on its own, 2 promises under way, 1 to 3 rows in all by page, 1 change by others per visit, lost and refused calls, fairness (100,000 states) | flags, patched lists, empty screens and the first command tell the truth; secrets survive and are shown once (refinement of `SecretLife`); pages settle |
| `session` | 2 tabs, 2 accounts not registered yet, fairness (967,000 states) | names match tokens, administrators' pages are guarded, the first user is administrator, shells settle, all but for redirects that are lost |

Why the bounds are enough. A wallet is shared by all its requests in the same
way, so two requests show what one can do to another; the theorems below
remove the bound. A request reserves 2, 3, 5 or 8 credits, depending on its
`max_tokens` and the price, so that a wallet of 6 has room for both, for one or
for none, and an adjustment may change that while they run. `MaxInt` = 8 lets
an adjustment or a release overflow. One faulty request is enough for each
kind of failure next to an undisturbed request; two are again covered by the
proofs. The settlement is not ambiguous in the passing runs, see below. In the
hub, two connections of one provider are what can be confused, and two jobs
are what can be mixed up. `AdjustmentBound` and `FaultyBound` bound the
adjustments and the failing calls; they are the only bounds in guards besides
`MaxInt` in `Admit`, which keeps prices in range. In `presence` the two
machines may be chosen between and confused; a timeout and an interval of one
tick put each event before, at and after the deadline, and `MaxUnswept` = 2
leaves room for one failed sweep or one restart, after which a sweep succeeds.
A process that has started runs for a tick before it stops again. The theorems
hold for any timeout, interval and `MaxUnswept`.

A behaviour of `dashboard` stays on one kind of page: pages share no state, and
what one of them leaves behind (writes under way, rows of the server) is there
when it is mounted again. `MaxCalls` = 2 promises can be answered in either
order and interfere; a `Promise.all` of several calls is one of them. Lists of
one and two rows tell front from back and one row from another. The review page
opens on one waiting node or one waiting advertisement (`Found`), the others on
an empty server that they, or others, fill. `MaxRows` bounds the rows of the
server by page (`RowsKept`), `Elsewhere` changes them once per visit, and models
are `active` or `paused`, the two statuses pages treat differently. In `session`
two tabs suffice for a token that changes behind a shell, and two accounts for
names that can differ and registrations that overlap; a tab has one form under
way, as its disabled button allows.

Deadlock is not checked in the runs of the API: a system whose requests are all
answered stops. It is checked in the two runs of the dashboard, and in their
claims: a page can always be left, and a link followed.

Five more runs check one sentence of the documentation each, and find it
violated:

| Run | The documentation | The code |
|---|---|---|
| `claim_provider_is_paid` | the reward goes to the provider's wallet | it is credited to the user's wallet |
| `claim_connected_is_available` | a connected node is available | not after the late `Unregister` of its old connection |
| `claim_jobs_go_to_judged_machines` | an advertisement is approved before jobs are routed to it | the hub sends a job to the provider's last connection, which may be another machine |
| `claim_keys_of_selected` | the page of keys is that of a selected project | answers that cross leave another project's keys in the table |
| `claim_adjust_by_email` | an administrator finds the user by email and adjusts the balance | the page sends the email where the server looks for a public id, and every adjustment is refused |

Known disagreements that no run is spent on:

- `provider_stats` (`store.go:348`): one statement inserts the row and updates
  it, of which PostgreSQL applies one; success rate and trust keep the values of
  a provider's first job. `StatsCountJobs` is about the counters, which the
  insert writes with `ON CONFLICT`.
- A job marked `failed` may still hold its reservation, because the error of
  `Release` is ignored (`handlers.go:389`), and so may a request whose handler
  died. `NoReservationLeak` therefore speaks of requests that met neither.
- The reward is not always the floor of cost times ratio: in float64, 90 * 0.7
  is just below 63 and gives 62 (`services.go:255`).
- A provider that is disabled while its node is connecting (`handlers.go:567`)
  stays connected. `RoutesAreVetted` shows that it gets no job all the same.
- A job that runs into the timeout of `Hub.Dispatch` is marked `failed` with
  code `provider_unavailable`, so that `timeout_jobs` stays zero, where
  `docs/architecture/04_backend_implementation_spec.md:319` asks for `timed_out`.
- The routing query has no filter for fresh heartbeats, current jobs or hardware
  (`docs/architecture/09_routing_metering_credits.md:10`, `:14`, `:15`);
  `Freshness` says how much of the first the sweep makes up for.
- On insufficient credits
  `docs/architecture/09_routing_metering_credits.md:126` asks for no job; the
  handler creates its row before it reserves (`handlers.go:377`) and then marks it
  `failed`, which also counts against the provider. `AnswerMatchesCharge` takes
  either.
- The pages of projects, nodes, models, usage and jobs, the queue of advertisements,
  the audit log and the review page say that there is nothing next to the error
  when their first load fails (`dashboard/projects/page.tsx:96`, and so on).
  `EmptyIsHonest` is about the three pages that wait for success.
- `docs/product/10_frontend_dashboard_spec.md:31` has "Admin navigation shown only
  for admins". Between the answer of `me()` and the redirect, the administrators'
  shell is shown to everybody (`AppShell.tsx:68`), and to those who follow a link
  in it, or go back, before the redirect lands, for as long as they stay: the link
  takes the redirect's place, and the effect that asked for it does not run again.
  (What the API answers there is not affected.) `AdminShellGuarded` shows that a
  redirect is under way unless it was lost in this way.
- Who signs out and follows a link, or goes back, before the redirect to
  `/login` lands stays in the shell, with the name and without a token
  (`AppShell.tsx:157`): the calls of the pages fail. `NameMatchesToken` shows that
  they are never made as somebody else.
- A tab whose form is answered after its page was left for the dashboard stays
  on the loading screen: the `router.replace("/dashboard")` of the form takes
  the place of the pending one to `/login` and mounts nothing; and so does one
  that goes back within the shell while it is led to `/login`. `ShellSettles` says
  where such a tab ends: it settles, or its redirect was lost.
- Two registrations that overlap on an empty database both make an
  administrator (`services.go:71`); `FirstIsAdmin` says that nothing worse
  happens.

## Fairness

`ChatCompletion` assumes weak fairness of `Handle(r)`: a handler that can make
its next call makes it, since goroutines are scheduled and database calls
return. The timer of `Hub.Dispatch` is part of it, the provider's answer is
not. `Hub` assumes weak fairness of each reader goroutine, of each dispatching
goroutine (its timer included) and of the administrator's second step, and
none of nodes, networks or administrators. It takes `WriteJSON` to return,
which the code does not enforce with a deadline (see the hazards).

`ProviderPresence` assumes weak fairness of time, of the sweep's statement and
of the restart of a stopped process. A sweep that is due is carried out before
time goes on, or fails, which `MaxUnswept` allows only for so long: without
that assumption a database that refuses every sweep keeps silent instances
online for ever. Nodes, administrators and requests promise nothing.

`Dashboard` assumes that every call is answered or fails in the end (handlers
of the API return, a broken connection is an error of `fetch`) and that the code
that waits for an answer runs, which is the browser's event loop. Users and
others promise nothing; `PageSettles` leaves out only users who leave and open
the page for ever. `BrowserSession` assumes the same of `me()` and of the
router, unless its user navigates first, and nothing of forms, of registrations,
or of other tabs. `ShellSettles` leaves out only users who go to other views, or
load the page again, for ever; links inside the shell may be followed for ever.

## Proofs

Theorems hold for any number of users, providers and requests, any prices and
any width of the integers, from the assumptions `MaxIntAssumption` and
`ConstantsAssumption`, which say that users and providers are distinct, that
the set of requests is finite and that amounts have their types.

- `TypeCorrect`: `TypeOK` is inductive. Its content is the arithmetic:
  `PostExact` (from `AcceptedSumIsExact`) shows that a sum of in-range
  values that does not come out negative did not wrap, so `Accepts` also
  rejects overflow, and `SettledExact` follows the three postings of a
  settlement. `RewardWithinCost` bounds the reward by the cost.
- `ReservedIsBacked`, `ReservationsDoNotLeak`, `SettlementsAreCovered`: from
  the inductive invariant `IInv == TypeOK /\ Control /\ ReservedBacked`.
  `Control` ties each phase of a handler to what became of its reservation:
  `releasing` and `settling` hold it, `failing` has returned it unless a call
  failed, `unsettled` still holds it. `ReservedBacked` is not inductive alone,
  because a release subtracts a reservation that only `Control` says is there.
- `SpendingIsMetered`: by `TypeOK` and the step itself.
- `ImplementsEscrow`: each step of the handler is a step of `Escrow` or a
  stutter, under `IInv`.
- `BillingProofs` holds what `Ledger` and `Metering` compute: `PostExact`, what a
  provider's report can do to a bill, and that a bill over the server's own
  estimates fits the reservation. `MCMeteringProofs` proves the three invariants
  of the `metering` run from it, for texts of any length, any report and any
  rates (`InputsAssumption` says that they are such): `ReportsMoveBillsLittle`,
  `CapNeverCutsEstimates`, and `PricesAreLeast`, for which `CeilDivLeast` and
  `CoveringIsCeilDiv` identify the rounded quotient with the least covering amount.
- The records (end of `ChatCompletionProofs`): `AnswersAreTrue`, `FinishedJobsAreFinal` and
  `CountersAreExact`, from `RInv == TypeOK /\ Records`. `Records` says what is on
  record for a request at each phase of its handler: no job before it is created,
  an open one until the handler is through, a usage record exactly with a
  succeeded job. The counters then follow a job's one change from open to
  finished (`Cardinality` of a finite set).
- `ProviderPresenceProofs`: `TypeCorrect`; `RowsAreFresh`, from
  `FreshInv == Freshness /\ SweepComes`, where `SweepComes` says that the time
  since the last sweep leaves room for the next one (without it a tick could
  exceed the bound); `RoutesAreApproved`, from `VerdictInv`: the status of
  an advertisement that was decided on is the last verdict of an administrator;
  and `OnlySilentAreSwept`, by types and the step itself.
- `HubProofs`: `HInv`, whose heart is `OnePlace`: a job that was written to a
  connection is in at most one place, at a node, in an answer on its way, in the
  hands of a reader, or in its channel, and nowhere before it was written
  (`UnwrittenIsNowhere`). So the channel is empty when a reader gets to send on
  it (`CompleteNeverBlocks`), which its capacity of one alone does not show.
  `ExecutedOnce` puts the execution between request and answer, from which
  `DispatchImplementsCall` follows. `TypeOK` needs that a routed job has a
  provider (`RoutedToProvider`).
- `DashboardProofs`, for any number of promises and rows, in four parts.
  - Flags: `FlagsTellTheTruth` and `SecretIsKept`, from `FlagsInv == Shapes /\
    Flags`. `Flags` adds to `BusyMeansPending` that one promise at a time saves
    and, but on the two pages that may load again, one loads, so that the answer
    that lowers a flag is the one that was waited for; and that no secret is on
    the screen while the next is being made. `Effects` sums up the actions of all
    pages by what they do to the flags, one lemma for each group, so that the
    invariant is shown once.
  - Data: `DashboardTypeCorrect`, from `DataInv`, which adds to the types
    `WireOK`: a promise asks what the code that waits for it expects (`Asks`),
    and holds answers of the types of its calls. `ResultsAreGood` is what the
    server does with each of its calls. The lists that a `WHERE` or a `filter`
    leaves are computed by a recursive function (`Kept`); that its rows are those
    of the table in the set, and that it is empty only if there are none
    (`KeptRows`), is shown by induction over the length, as a set of numbers
    without a least element left out (`NatInductionOnSet`, from `WFMin`).
  - Secrets: `SecretsAreShownOnce`, the refinement of `SecretLife`. Every step
    makes one secret (`Makes`), shows the one awaited (`Shows`), or loses some
    (`Loses`). `SecretsInv` says that what is shown or on its way has been made;
    with `Flags`, something is on its way only while the page saves, and then
    nothing is shown. That a key is never taken for a node, nor an answer that
    makes no secret for one that does, rests on public ids naming the kind of
    their row, which `ClientAssumption` states.
  - Reading: `EmptyPagesAreHonest` and `CommandOnlyWithKey`, from `Current`: on
    the eight pages that only read, every answer that has come is what the server
    holds now, as long as nobody else has changed the rows; and so are the lists,
    once the page is there or waits for its second round.
- `ReloadProofs`: `PatchedIsLikeAReload`, that `LikeAReload` holds for any number of
  promises and rows. `LikeAReload` speaks of pages at rest and says nothing of the
  steps between, so it takes an invariant of a page with calls under way. While the
  page is `Serene` (nobody else has changed the rows, nothing failed, no call met
  another it could interfere with), `ReloadInv` says:
  - `SereneWire`: every promise is the mounted page's, none failed, no two of them
    clash, and what has been read is what the server still holds. That a failed call
    or a clash ends serenity is in `calm`; that no answer to a read goes stale
    follows from reads and writes never being under way together (`ReadsTogether`,
    `ReadAlone`).
  - `ListsFit`: a list that is shown is asked for again, or it *fits* (`Fits`): on a
    page with a form, the server's list is the list on the screen with the answers
    that have come and are not handled yet applied to it, changed rows in place
    (`DueRows`) and a new row in front; in the queue of advertisements it is the list
    on the screen without what has been judged. So a step of the server moves an
    answer into this difference (`MakeComes`, `ChangeComes`, `JudgeComes`) and the
    handler moves it out again (`Made`, `Changed`, `JudgedAway`), in any order, because
    changes of different rows commute (`ChangesApart`).
  - `NamesKnown`: a row that was made and is not on the screen yet is none of those
    that the page can change, so that no change is lost on it.

  With nothing under way there is nothing left to apply, and fitting is equality
  (for the catalogue, which the server orders by slug, equality as sets). On the start
  page `HomeInv` adds that every key has one of the projects the page asks with
  (`KeysKnown`, which `FoundAssumption` gives for the first rows from the foreign key
  of `api_keys`), that the second round asks for the keys of all of them, and that an
  active key is seen once the page has stopped loading. Lists are handled by induction
  over sequences, as membership in a set that holds `<< >>` and is closed under
  `Append` (`SeqInductionOnSet`): what `Kept` makes of a longer list (`KeptAppend`),
  of a list that was kept already (`KeptKept`), and of a list with a marked row
  (`KeptMarked`).
- `BrowserSessionProofs`: `Typed` adds to `TypeOK` whose form is under way.
  `NamesMatchTokens` needs `AsksWithToken` (the token a `me()` was asked with is
  still there unless something has disturbed it), `FirstUserIsAdmin` needs
  `CountsHold` (what a registration has counted stays true until it commits,
  unless another overlaps), `AdminShellIsGuarded` only that roles are kept. Both
  theorems about shells have the exception `lost`, which only two steps can set
  and every new redirect out of the shell resets.

All theorems that rest on `IInv` have the hypothesis
`"finalize" \notin AmbiguousCommits`. It cannot be dropped: the handler
answers a failed `FinalizeUsage` with a `Release`, and if the settlement had
committed, that release takes the same credits a second time, out of another
request's reservation. `TypeCorrect`, `SpendingIsMetered` and
the three theorems about the records need no such hypothesis. The other modules
rest on their assumptions about constants (`HubAssumption`, `PresenceAssumption`,
`SessionAssumption`; for the dashboard `ClientAssumption`, and `FoundAssumption`:
a page may find any tables in which every key has a project).

Only model-checked: liveness, which is out of the prover's reach
(`EveryRequestAnswered`, `DispatchReturns`, `ReadersLeave`, `SilentGoOffline`,
`PageSettles`, `ShellSettles`). Every safety invariant, action property and
refinement that a passing run checks is also a theorem.

## Where it stands

The plan was to model what moves credits first, then what a request travels
through, then who is routed to, then the client. Done: `Metering`, `Ledger`,
`ChatCompletion` with `Escrow`; `Hub` with `RemoteCall`; `ProviderPresence`; the
dashboard and the browser session; with runs for all and theorems for all but
liveness. Left, most important first:

1. `ProviderNode`: reconnecting with backoff (which is never reset), composed
   with `Hub`.
2. `WalletTx`: `addLedger` with row locks, two transactions at a time, as the
   refinement of the atomic posting of `Ledger`.
3. Overlapping model lists of one instance in `ProviderPresence`, and
   advertisements made before their model has a version.
4. `RateLimit`, and the routing score as an operator with its bounds.

## Not modelled

- Rate limiting: INCR and EXPIRE on a Redis key that nothing else depends on.
- Tokens, passwords, ids and hashing: cryptographic helpers; ids are taken to
  be unique. A job id is made of the clock in nanoseconds; of two requests in
  the same one, the database refuses the second.
- Router, configuration, logging and the HTTP plumbing: no state that changes.
- The landing page and presentational components: text and layout.
- The node's backoff, its Ollama client and its hardware report; a `job_error`
  without a code (this repository's node sends none), which the handler would take
  for an empty answer and charge.
- Starting credits and the wallets made with an account; limits of projects;
  the normalisation of a model's input.
- Writers that meet on one websocket connection (acknowledgements do not take
  `writeMu`) and a `WriteJSON` that never returns: the library's behaviour.
- A price so high that its product exceeds int64 before it is converted
  (`handlers.go:376`): implementation-defined in Go.
- Streaming (the endpoint refuses it), the contents of messages, timestamps
  other than their order, formatting and logging, and the internals of
  PostgreSQL, Redis, the websocket library and Ollama.

## Running

```
tlc -config ChatCompletion.cfg MCChatCompletion.tla
tlc -config Dashboard.cfg MCDashboard.tla
tlc -config BrowserSession.cfg BrowserSession.tla
tlapm ChatCompletionProofs.tla
tlapm DashboardProofs.tla
tlapm ReloadProofs.tla
```
