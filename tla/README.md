# A TLA+ verification of Magic Claude Code

Magic Claude Code (MCC) is a local proxy between Claude Code and third-party
model providers. It terminates the client's TLS, answers most endpoints itself,
forwards `POST /v1/messages` to a provider, switches the default provider when
one fails, limits and retries what it sends, queries the providers' quotas, and
has an admin page that changes all of this while requests are running.

This directory holds TLA+ models of the parts of MCC whose correctness depends
on the order of events, their TLC configurations, and proofs that TLAPS checks.
Paths below are relative to the repository; `src/` is left out.

## The system

| Part | State it keeps | Operations | Talks to |
|---|---|---|---|
| `internal/proxy/handler.go` | per request: configuration copy, route, response, deferred functions | route, queue, call upstream, rectify, fail over, stream | configuration store, queues, failover manager, usage store |
| `internal/proxy/ratelimit/queue.go` | per provider: `active`, limits, `waiters` | acquire, time out, release, change limits | handler (first call and replay) |
| `internal/proxy/ratelimit/retry429.go` | none | retry with backoff | handler |
| `internal/failover` | tables `provider_failover_state`, `provider_failover_events` | quarantine, select, switch, reconcile, clear | handler, admin, quota hook, configuration store |
| `internal/config` | settings and providers in SQLite | `Load`, `Update` (read, change, validate, save under one lock), legacy migration | everybody |
| `internal/providerquota` | table `provider_quota_snapshots`, in-flight map, generations, semaphore | query, draft query, schedule, invalidate | admin, failover (hook), script worker process |
| `internal/admin` | login sessions | provider, quota, failover, update, session handlers | all managers above, the page |
| `frontend/src`: router guard, stores, dashboard | staged status, timers, connection mode, theme | navigate, mount, poll, save, log out | admin handlers |
| `frontend/src`: provider list and form | cards, drag, open form, preview | poll, edit, reorder with rollback, import | admin handlers |
| `frontend/src`: quota cards and dialog | snapshots shown, form, generator | load, refresh, test, save | admin handlers |
| `frontend/src`: session lists, usage tab | cached lists, filters, pages, chart | load, filter, clear, draw | admin handlers |
| `internal/proxy/server.go` | listeners, gateway server | start, restart, stop, TLS handshakes | main, admin |
| `internal/usage` | usage tables, deduplication candidates | record, import session logs, deduplicate, query | handler, admin |
| `internal/updater` | restart flag, program file | check, download, replace, restart | admin, main |
| `internal/bootstrap`, `internal/cert` | hosts file, environment, certificate stores | set up and undo per operating system | main |
| `internal/proxy/transform`, `hardcoded.go`, ... | none | convert bodies, answer locally | handler |
| `internal/session`, `i18n`, scripts | none that others rely on | show, translate, install | user |

(`frontend/src` stands for `internal/frontend/src`.)

What is hard here:

* **Goroutines.** Each request is one, so is each quota query, the scheduler and
  each admin call. They meet in the queues' mutex, `Manager.mu` of failover, the
  configuration store's lock, and three locks of the quota manager. Between two
  critical sections anything may run.
* **Nested resources.** A request that fails over keeps the slot of the provider
  that failed while it queues for the next; every slot and response body hangs on
  a deferred function or on a line at the end of an unhappy path.
* **Old copies.** A request decides by the configuration it loaded when it
  started, possibly minutes ago. A quota query loads its provider twice. The page
  reorders the list it saw at the last poll.
* **Answers out of order.** The page is one thread, but each `await` lets polls,
  saves, tabs, navigations and a logout in between; versions, generations and
  `disposed` flags decide which answer still counts.
* **Two-part handlers.** The admin saves first and tells the failover or quota
  manager afterwards; the failover manager changes its table or the default and
  inserts the event row afterwards. A crash falls between any two of these, an admin
  save too, and between the first two a query or a request.
* **Timeouts racing with grants** in the queue; cooldowns that pass; upstream
  calls that last up to ten minutes.
* **Errors that are dropped**: `CommitSwitch` ignores what `Update` returns, the
  failover manager ignores the store's errors.

`PROJECT.json` lists every component, with those not modelled and why, and the
hazards, each at its line.

### What makes each component correct

* *Queue*: no slot is lost or counted twice; waiters are served in turn and only
  while the limit allows; nobody waits unless somebody will wake him.
* *Request*: whoever uses a limited provider owns one of its slots, everything
  owned is given back, and every request ends.
* *Failover*: of the requests that see a provider fail one switches, away from
  what is the default at that moment; the event list is truthful, and complete but
  for a switch after which the process ended at once; an invalid credential is lifted
  only by what may have repaired it; nobody replays to the provider that failed.
* *Quota*: one upstream query per provider and configuration at a time; everybody
  gets an answer; the table holds no result of a replaced configuration.
* *Page*: what is shown at rest belongs to what is selected; no older answer
  replaces a newer one; spinners and locks end; timers belong to the view that is
  mounted; the user learns how a save ended; a save changes only what was meant.
  Where the code does not keep to this, the exception is part of the property and is
  named under "Disagreements with the code".
* *Later parts*: every accepted connection is delivered or closed and shutdown
  ends; the program file survives a failed update; incremental deduplication equals
  a rebuild; an interrupted migration can be repeated.

## Modules

| Module | Models | Runs |
|---|---|---|
| `SlotPool` | what a slot pool promises: holders, one line, no lock or counter | abstract |
| `FixedPool` | the pool a request relies on: who holds, who waits, what is given back is handed on; no order, settings that stay | abstract |
| `RateLimitQueue`, `RateLimitQueueProofs` | `ratelimit/queue.go`; theorems, refinement of `SlotPool` and `FixedPool` among them | `MCRateLimitQueue.cfg` |
| `RequestPath`, `RequestPathProofs` | one request in `handler.go`: slots, calls, 429 retries, rectifier, replay, deferred functions; theorems about the slots, the pools and the number of calls | `MCRequestPath.cfg` |
| `DefaultProvider` | what failover promises about the default provider and the event list | abstract |
| `Failover`, `FailoverProofs` | `failover/manager.go`, its store, the replay loop, the admin handlers, the quota hook, time, the end of the process; theorems, refinement of `DefaultProvider` among them | `MCFailover*.cfg` |
| `QuotaManager`, `QuotaManagerProofs` | `providerquota/manager.go`, the snapshot table, the admin handlers that invalidate it | `MCQuotaManager*.cfg` |
| `LatestWins` | what a view that shows the answer of its newest request promises | abstract |
| `SessionData`, `PageListsProofs` | `useLazySessionData.ts`, `useSessionBrowserData.ts`, `SessionBrowser.vue`; refinement of `LatestWins` | `MCSessionData.cfg` |
| `Theme` | `useTheme.ts`; its actions are steps of `Dashboard` | with `Dashboard` |
| `Dashboard`, `DashboardProofs` | the guard, the staged status, `onMounted` and its timers, the connection mode, logout | `MCDashboard.cfg` |
| `ProviderList`, `PageListsProofs` | the provider cards, `ProviderModal.vue`, `providerImportFlow.ts`, the server's list | `MCProviderList.cfg` |
| `QuotaModal`, `QuotaModalProofs` | the quota snapshot of a card, `ProviderUsageModal.vue`, `quotaSaveFlow.ts`, `quotaForm.ts`, the generator dialog | `MCQuotaModal.cfg` |
| `UsageTab`, `UsageTabProofs` | filters, pages, clearing and chart of the usage tab | `MCUsageTab.cfg` |

The two sides of one thing are modelled apart and meet in an interface: both
`RequestPath`, which uses the slots of each provider, and `RateLimitQueue`, which
provides them, are proved to behave as a `FixedPool`; the server in `QuotaModal` is what `QuotaManager`
shows (a result is stored only if no save invalidated it, and whoever asks
meanwhile gets the result of the running query); which candidates a request of
`RequestPath` tries is open, and `Failover` says which.

Definitions whose name is a fault (`ReleaseSilently`, `LeadAlways`, ...) stand
before the definition they vary. No specification uses them; each is a bug that
one property is there to find, and the run finds it when the two are exchanged.

### RateLimitQueue

One provider. `pc[c]` is where a calling goroutine is between two critical
sections; `active`, `maxConcurrent`, `maxQueueSize`, `waiters` are the fields of
`queue`; `ready` is the set of waiters whose one-place channel holds a token.
`acquire` is four alternatives of its first section (`TakeFreeSlot`,
`RefuseFull`, `JoinLine`, `ContextDone`), the two outcomes of its `select`
(`Granted`, `GiveUp`), and `TryDepart`, the section after a timeout or a
cancellation: still in line, leave with the error; not in line any more, keep the
slot that `release` counted meanwhile. `GetOrCreate` writes the limits of the
configuration the request loaded, which may be any the admin ever saved, into the
shared queue. Time is abstract: the timer may fire at any moment of the wait.

### RequestPath

`pc[r]` is the stage of one `ServeHTTP`. `first[r]` is the provider it was routed
to, `at[r]` the one at hand, `untried[r]` what `runCandidateReplay` has not
reached. `open[r]` are response bodies nobody closed; `deferred[r]` is the stack
of deferred functions, each named by what it gives back, run one step at a time
in `RunDeferred`. `calls[r]` counts upstream calls until the request streams or
returns, so that `TypeOK` can bound them: one call and its retries per provider,
and one of the rectifier. A slot is one step here (`TakeSlot`, `JoinLine`,
`Granted`, `GiveUp`), because `RateLimitQueue` looks inside; `line[p]` is a set,
so that a slot may pass to anyone who waits.

`replayToProvider` returns the candidate's release instead of deferring it, so
between its answer and the decision about it a slot is owned that no deferred
function knows of; `NothingKept` says so. A candidate that answers after a failed
response has its body deferred before its slot, after a failed call the other way
round: the slot may then be free before the body is closed. `LimitsHold` thus
bounds calls and streams and leaves out requests that are only returning.

### Failover

The configuration (`order`, `enabled`, `active`, `auto`), the quarantine table,
the event row the last step wrote (`event`), the calls an admin handler may still
make (`calls`), and per request its stage, the copy of the providers it loaded, the
provider that failed, the kind of failure, the candidates left and the winner.
Every admin handler that touches the provider list is an action; one that calls
the failover manager after its save is two, as is the test of a provider, which
sends a request in between (`StartTest`, `TestSucceeds`, `TestFails`).
Identifiers survive deletion, since an import brings one back. A quarantine row
holds its kind and the ticks left until `disabled_until`.

`CommitSwitch`, `ClearCredentialFailure` and a report of recovered quota make two
durable writes: the change, then its event row. `owed` is the row between the two,
which `InsertEvent` writes. The call holds `m.mu` meanwhile, so no other manager call
runs (`ManagerFree`), but the admin may save the configuration, whose lock is another,
and `Stop` may end the process, which loses the row, every request and every call that
was due. `Start` finds the database. Rows carry the reason the code gives them, so that
a recovery by token or test can be told from one by quota.

A request that may not fail over is not followed past its route: nothing it does
later touches this state.

### QuotaManager

`pc[c]` follows a query through the three locks of `Query` and the body of
`executeQuery`: begin under the current generation, lead or follow, load the card,
load the settings, take a place in the semaphore, ask, persist under
`snapshotMu` if the generation is unchanged, call the hook, close the channel,
forget the entry. What the admin saves is a version number, so that a row of the
table says which versions of card and settings it was asked with. `uncleaned`
counts handlers that have saved and have yet to call `DeleteSnapshot`. A deleted
provider may be imported again under its identifier; `born` is the version it came
with. The version of the settings stands for the fields `isMaterialQuotaChange`
compares, and, in the one action that says so, for `script_api_key_2`, which it
does not. `Lapses` selects the two ways in which the admin can change settings
unnoticed: an interval edit that overlaps another edit, and an edit of the second
secret alone. With neither, the table is proved current; with the first, TLC shows
how it is not.

The scheduler's choice of due providers is left out: a query may start at any
time, which includes every schedule.

### The page

The page runs one piece of JavaScript at a time, so an action is what runs
between two `await`s, with the Vue watchers it triggers. A request is *sent*, then
*served* (the server reads or changes its state in one step, as its configuration
store does), then *answered*; or it fails at any moment before, and whether the
server acted is then unknown to the page.

* **SessionData.** A list is its filter and the number of the request that brought
  it. The generation counters are kept as the one request that still holds them
  (`current`, `asker`). `Follow` is the prop watchers of the browser.
* **Dashboard.** `guards` are navigations that wait for `/api/status`, `token` and
  `staged` the store `dashboardInitialStatus`, `view` and `dead` the mounted
  dashboard and those unmounted during an `await` of their `onMounted`. A load of
  the connection mode joins a status request with a configuration request;
  `mode.owner` is who sent the newest status request. `missed` remembers that an
  answer was lost or nobody listened to it, `elsewhere` that another page or client
  saved the mode last (`ModeSavedElsewhere`): this page hears of no such save and its
  polls load no configuration. `Theme`'s versions are two flags of a sync request.
  `epoch` counts logouts; a guard carries the one in which it asked for the status,
  and so does what it stages.
* **ProviderList.** `store` is the server's list with its stored default,
  `providers` the cards. `Outcome` is what each admin handler does to a list.
  A reorder carries the list to roll back to. The form's token is what was typed,
  the mask the server shows in place of one, or what a reveal brought.
* **QuotaModal.** `ops` are the handlers that wait (`save`, `refresh`, `test`, the
  opening of the dialog, the button of the card, `confirmImport` after its import) and
  their stages are those of `quotaSaveFlow`. `clock` numbers what happens to the
  snapshot. `SavePayload` is `buildSavePayload` and `Patched` the server's
  `applyQuotaUpdate`, over sets of secrets. `revision` counts the changes of the
  settings and `generation` is the revision of the last one that the server noticed:
  a change of `Uncompared` secrets alone may go unnoticed (`Unnoticed`), and a query
  that runs then keeps the revision it asked with. `ShowNow` is what a refresh, a save
  or an import does: it shows its reply without a comparison and supersedes the loads
  in flight.
* **UsageTab.** The six requests of `loadUsageData` are one. `element` is the chart
  element by a number of its own, since Vue makes a new one each time the overview
  is shown. `doubt` says that loads overlapped or one failed.

## Runs

| Run | Instance | Shows |
|---|---|---|
| `rate_limit_queue` | 4 callers, limits 0 to 2, line of 1 or 2; 13 084 states | slots conserved, no lost wake-up, line accurate, `SlotPool` implemented, queued callers served |
| `request_path` | 2 requests, 2 providers with one slot and one place each, 1 without a limit; 184 725 states | the limits hold, nothing is kept, upstream calls are bounded, every request ends |
| `failover` | 2 requests, 3 providers, 2 saves, automatic failover on at first; 629 240 states | sound failover, sticky credentials, `DefaultProvider` implemented |
| `failover_unsaved` | as `failover`, saves may fail | *violation*: a `switched` row without a switch |
| `quota_manager` | 3 callers, 1 provider, 2 versions, semaphore of 1; 131 030 states | single flight, snapshot current |
| `quota_live` | 2 callers, second-secret edits included; 53 958 states | every query returns |
| `quota_overlap` | 2 callers, overlapping edits | *violation*: the snapshot of other settings stays |
| `page_sessions` | 2 projects, 5 requests; 20 667 states | the list fits the selection since the tab was opened, spinners end, `LatestWins` implemented |
| `page_dashboard` | 4 navigations, 1 logout, 1 saved mode, 1 chosen theme or a mode saved elsewhere; 691 786 states | timers have an owner, staged status is current, theme and mode converge but for a mode saved elsewhere |
| `page_providers` | 2 providers, a file of one of them and a new one, 6 new ids, 2 requests in flight, 2 acts, 1 failure; 222 546 states | no mask stored, reorder keeps the default, forms close when stored, the list converges |
| `page_quota` | 2 secrets, one of them not compared, 2 loads, 4 acts; 453 770 states | saves report a result of their own settings where the server compares them, only uncompared replies go back, secrets change by intent, saves end |
| `page_usage` | 2 filters, 2 page sizes, 2 rows, 3 loads, 5 acts; 264 221 states | what is shown fits the filters, the chart follows |

Each run checks the type invariant of its module as well, except the two
violations and `quota_live`.

Why these sizes suffice. *Queue*: four callers are two holders, a full line of two
behind a limit of one, and a caller refused; a limit that falls below the number of
holders and rises again occurs with two. *Request*: two requests and two providers
with one slot are what it takes for each to hold the slot the other queues for; the
third provider lets a dropped candidate be followed by another; one retry at one
provider shows slots held over retries. *Failover*: two requests are what a race for
the switch takes; the program starts with one provider, so that two saves reach an
addition followed by any change, a deletion followed by an import, a reorder, or a
third provider. The third maps the asked model as the first does, so that the order
of candidates differs from the configured one and a second candidate is tried;
while it is listed TLC serves one request at a time (`MCShape`), which keeps the
instance small. For the same reason TLC tests only the first provider, before the
second save, and serves one request at a time during a test; the theorems know no such
limits. `MaxLeft = 1` distinguishes a
running cooldown from one that is over. *Quota*: a leader, a follower under the same
generation and a leader under the next are three callers; one replacement
(`MaxVersion = 2`) may fall between any two steps of a query. *Sessions*: a slow
first load, two choices and a reload, and a logout in between. *Dashboard*: two
guards that overlap, the login page between them and a return; each `await` of
`onMounted` may be the last of its view; a mode saved elsewhere falls anywhere, but in
behaviours that choose no theme (`MCShape`), since the theme has no part in the mode. *Providers*: what changes the list under a
reorder, a drag or a form is one other edit; the edits of other pages are a deletion
and an activation, the two that change membership and default. *Quota dialog*: one
secret is kept when its template is left and not compared, one cleared and
compared; four acts are an opening, a save and two more of a save, a query, an import,
a refresh or a load, as many as it takes for a query to be asked with an old secret,
the secret to be saved, and the save to join it. *Usage*: two pages of one row or one page of two, a clearing
between two loads.

Callers and requests are interchangeable; symmetry is used in `failover` and
`quota_manager` only, which check no liveness. Deadlock is checked except where a
bound on what the user does ends the behaviour (`page_dashboard`, `page_quota`,
`page_usage`).

### Fairness

* `RateLimitQueue`: weak fairness of a caller that was granted a slot, of one whose
  timer fired, and of `Release`: the Go scheduler runs runnable goroutines, the lock
  is held for a few instructions, and every forwarded response ends (the HTTP client
  and the servers have timeouts of ten minutes). Timers are *not* assumed to fire, so
  a waiter is served by others' releases alone.
* `RequestPath`: weak fairness of each request's next step. Here the queue's timer
  does fire (`GiveUp`): two requests may each hold what the other queues for, and
  nothing else ends that. Slots are not assumed to become free.
* `QuotaManager`: weak fairness of each step that needs nobody, since upstream calls
  have a timeout; strong fairness of taking a place in the semaphore, because it is a
  Go channel and blocked senders are served in order. No context is assumed to end.
* The page: every fetch settles, and an interval that is set fires (weak fairness of
  the answers and of `Poll`, `PollSent`). `Dashboard` also assumes strong fairness of
  `PollAnswered`: an interval of seconds is not forever faster than its answer. The
  user owes nothing.
* `Failover`, `SessionData` and `UsageTab` state no fairness: their runs check safety.

## What is proved

For every value of the constants that satisfies the module's named assumption, by
inductive invariants that TLC agreed with first.

* **RateLimitQueue.** `IInv` joins `TypeOK` with the counter, the wake-up and the
  line property, and says that a positive limit is known while anybody is inside.
  None of them is inductive by itself: that a release keeps the counter right needs
  that the head of the line is no holder, which is the line property; that a timeout
  keeps the slot it was granted needs that a caller who is neither in line nor sent a
  token cannot be departing. From it: `TypeCorrect`, `SlotsAreConserved`,
  `NoWakeupIsLost`, `LineIsAccurate`, and `Refinement` (most actions stutter in
  `SlotPool`, since a token in a channel already makes its receiver a holder).
  `FixedRefinement` and `NoSlotIdles` are about the queue while its settings stay
  (`SettingsStay`: one setting, with a positive limit). `Settled` says that the slots
  handed out are then never above the limit, so that `release` always finds room for
  the head of the line, and that somebody waits only while every slot is taken. Without
  the assumption neither holds: after the limit was raised, slots are free beside a line.
* **RequestPath.** `SlotsFollow`. What a request owns is told by its stage and its
  deferred functions together, so `Fits(r)` gives, for one request, which functions
  each stage may have deferred, and that it owns a slot exactly if one of them
  returns it or it is between the grant and the decision. The functions are distinct:
  otherwise a slot could be given back twice. Requests meet only where a slot is
  handed on (`GivenBack`); everywhere else `OthersKeep` carries the others over. The
  lemmas before it say what pushing on and popping from the stack does to its set.
  `TypeCorrect` bounds the upstream calls. `TypeOK` is not inductive, since a counter
  alone does not know what is still ahead of it; `CountInv` does: the calls made, the
  calls and retries left at the provider at hand and at those not reached (`Left`), and
  one for the rectifier while it may come (`Spare`) are together at most `MaxCalls`.
  A call moves one of them over, so that the lemma `Spent` serves every action.
  `PoolsAreFixed` closes the gap between the two modules: what requests do to one
  provider's slots and line, whatever they do at others, is what `FixedRefinement` shows
  of the queue. No action takes a slot past the line, or keeps one that somebody awaits.
* **Failover.** `IInv` is `TypeOK`, `FailoverIsSound` and what the requests keep of
  their snapshot (its order has no duplicates and lists what is enabled). It is needed
  because the head of the candidate list is a member only of a list that is not empty,
  and because a switch is away from the default only if the winner is not the provider
  that failed. From it: `TypeCorrect`, `RequestsFailOverSoundly`;
  `CredentialStaysInvalid`, which tells a test or a new token from a quota report by the
  call that ends and the reason of the row that is owed; and `Refinement` under
  `SaveOutcomes = {TRUE}`: with saves that fail the refinement does not hold, as
  `failover_unsaved` shows. In the refinement a switch and its row are two steps, an
  admin save may fall between them, and the row is lost only if the process ends there.
  A save of the admin moves the default only if it is about the default or enables a
  provider: that a reorder, an addition or a deletion of others does not move it rests
  on where `FirstOf` finds the first enabled one in the new order.
* **QuotaManager.** Types, that a caller's key names a generation not beyond the
  present one, and `SingleFlight` are inductive together. `TableIsCurrent` needs more:
  that what a query has loaded is still in force while its generation is and nobody
  owes a deletion (`LoadsCurrent`), that versions in rows and in queries do not exceed
  the newest, and that an interval edit under way loaded the settings in force. It is
  proved for `Lapses = {}`.
* **SessionData.** All four of its properties, in `PageListsProofs`. The list fits because the browser's
  newest request asks for what is selected (`AskFits`), a list still
  being loaded was asked for before it (`LoadBeforeAsk`), and once it was answered the
  list is of the selection or an error stands beside it (`PickedFits`). In a tab that
  was opened and in which nothing was chosen yet, the selector is at all projects and
  the list is the cache's (`SeedStays`).
* **ProviderList.** All its safety, in `PageListsProofs`, from `ListIInv`. Three things
  are needed that `ListTypeOK` does not say. *Ids do not run out*: the code draws a
  random id where one is needed, the model draws the next of `Fresh`, and the
  assumption `MaxActs * (1 + Len(File)) <= Len(Fresh)` only gives the model enough of
  them. `IdsLast` is the count that shows it: what was drawn, plus one share for every
  request that may still draw, is at most one share per act; a request gives up its
  share as it is served. *No id is new twice* (`ServerFits`): the ids not drawn yet are
  in no list, so that a copy, a creation or an import keeps every id once; for an
  import under new ids, `RenamedFits` shows that the conflicts in the file, counted off
  in its order, get exactly the next ids. *What the requests carry* (`CallsFit`): a
  reorder carries ids once each, a save a token that is never the mask and the number
  of a form already opened, and a save that was taken belongs to a form in `stored`.
  From it: `ListTypeCorrect`; `ReorderingKeepsDefault`, since an order with the same
  members has the same effective default once the default was stored (`ReorderedFits`);
  and `FormClosesOnceStored`. The lemmas before it say what slicing, removing,
  inserting, joining and filtering do to a sequence without repetition; no rule of
  induction is used but the least element of a set of numbers.
* **Dashboard.** `OwnerInv` for the timers, `StageInv` for the staged status,
  `ThemeInv` for the theme and `ModeInv` for the connection mode: each invariant says
  which request in flight may still write what is shown, and what it will write.
  `StageInv` needs that a guard of the navigation that may stage (`token`) asked in the
  present epoch, which `clearDashboardInitialStatus` sees to; `ModeInv` allows for an
  older cached mode while `missed` or `elsewhere`.
* **QuotaModal.** `IInv` is `ServerInv`, `OpsInv`, `CardInv` and `DialogInv`. A stored
  result was asked with a revision not older than the generation in force
  (`ServerInv`); a save that the server noticed began a generation, so what it loads
  afterwards was asked with its settings or later ones (`SaveOK`). The card goes back
  only by a reply that nothing compares, because a served load that is still the newest
  is not older than what is shown (`CardInv`), and nothing else but the ends of the
  card's refresh, a save and an import changes what is shown (`ShownSteps`).
* **UsageTab.** All three of its properties. The chart needs that, unless an import or a
  load is on its way, the overview draws what is shown (`ChartInv`); what is shown
  fits because, without doubt, at most one load is in flight and it asks for what is
  selected (`FitsInv`).

Only model-checked: everything under fairness (`QueuedAreServed`, `RequestsEnd`,
`QueriesReturn`, `ModeConverges`, `ListConverges`, `SaveEnds`), because the prover has
no `ENABLED`. Every invariant, every action property and every refinement that a
passing run checks is also a theorem, except these two instances: `TableIsCurrent` is
proved for `Lapses = {}` and the refinement of `DefaultProvider` for saves that
succeed, which is what their runs check. `UsesFixedPools` and `ImplementsFixedPool` are
stated by theorems only; the runs keep to `SlotPool` and `SlotsFollowRequests`.

## Disagreements with the code

Two runs are expected to be violated. Each shows that the code does not do what its
own comment or document says; `PROJECT.json` quotes the line under "findings".

1. `CommitSwitch` reports a switch whose save failed (`failover_unsaved`).
2. An interval edit that overlaps another edit undoes it and keeps its snapshot
   (`quota_overlap`).

The models reach some more states that a reader of the code may not expect; their
properties are stated around them, and the hazard list names each at its line.

* `release` serves one waiter and leaves its loop, also when the limit was raised and
  more slots are free.
* The quota hook is called for a result that was invalidated and not stored.
* A change of `script_api_key_2` alone keeps the snapshot of the old secret and the
  generation of the queries: the query of that save may join one that was asked with
  the old secret, and its result is reported as that of the save.
* A switch whose process ends between the save of the configuration and the insertion
  of its event row has no row, and a recovery that is cut off there has none either.
* In a sessions tab that is opened again after a project was chosen, the selector says
  all projects beside the list of that project, at rest and without an error
  (`useSessionBrowserData.ts:43`), until the user chooses or reloads.
* A mode saved from another tab or client is not shown by a dashboard that stays open:
  its polls use the configuration it has cached (`DashboardView.vue:1374`, `:1390`),
  which is loaded when the view is mounted and after its own saves.
* The load of all snapshots after an import is shown without a comparison
  (`DashboardView.vue:1329`), as are the reply to the refresh of a card and that of a
  save: each may put an older snapshot back over one that was answered meanwhile.
* While a project's sessions are being loaded, the dashboard's own older answer may
  overwrite the list in the browser through a prop watcher until the newer one comes.
* After a filter was changed and before its load, Next may lead to a page beyond the
  end.
* Two usage loads that overlap are not ordered: the later answer stays.

## What is not modelled

Named in `PROJECT.json` with the reason. In the modelled parts: the legacy
`BackendURL` route (it has no provider to fail over from); errors of the failover
table's own statements and of `DeleteSnapshot`; the pruning of events; the validation
of fields; which response body is which kind of failure (`Fail` chooses); how long a
pause after 429 is; which error asks the rectifier for which cleanup; on the page the
detail and export of one session, gateway address and port, the other fields of the
provider form, and texts.

Not modelled at all, because nothing in them depends on an order of events that TLC
could explore: conversion of bodies, endpoint policy, quota adapters, certificates,
bootstrap, the session scanner, translations. Left for want of a model so far: the
listeners and the gateway, the heartbeat writer, shutdown, the updater, usage
deduplication, login sessions, the script worker.

## Plan

Done: queue, request path, failover and quota with their abstract specifications and
proofs, and the admin page with its proofs. Next would be:

1. The hook between `QuotaManager`'s order of reports and `Failover`'s table: failed
   results that clear a quarantine, reports out of order, errors of `DeleteSnapshot`.
2. `proxy/server.go`: handshakes against close, two restarts against stop. Every
   connection delivered or closed; `Close` returns.
3. The writer shared by the stream and the heartbeat: one response to the client.
4. The updater and shutdown: a crash between the two renames, rollback, two requests,
   and what `os.Executable` names on each platform when main executes the binary again.
5. Usage deduplication against a rebuild, the legacy migration, login sessions, the
   script worker.
