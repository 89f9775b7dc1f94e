# Industry dashboard: TLA+ models and proofs

The system is a dashboard for factories. An API server (`cmd/server`) keeps
sites, machines, users, dashboards and alert rules in PostgreSQL and serves a
React frontend. Worker processes (`cmd/worker`) run near the machines, read
their registers over Modbus, write data points, and evaluate alert rules. The
server and the workers share nothing but the database: every interaction
between them is an order of SQL statements, and that is where the hard
behaviour of the back end is. The frontend is a second distributed system: each
page works on cached copies of rows that others write, and its requests, their
replies and the refetches they cause overlap.

## Inventory

| Component | State | Operations | What makes it correct |
|---|---|---|---|
| Worker process and coordination (`cmd/worker`, `internal/worker/coordinator.go`, `provisioner.go`, `runner.go`) | rows of `workers`, `machine_workers`, `machines`, `worker_commands`; in memory a context, a wait group, the goroutines | register or take over, provision, claim, heartbeat, poll machines, poll commands, stop, restart, signal shutdown | one live worker per name, one owner per machine, commands run once, shutdown ends and releases, a dead worker's machines become free |
| Worker API (`internal/worker_api`) | the same tables | list workers (sets stale ones offline, deletes their claims), send a command | never reaps a live worker; a command reaches the worker |
| Alert rules and events (`internal/alert`, `internal/worker/alerteval.go`) | `alerts`, `alert_events` | create, edit, switch, delete rules; evaluate; acknowledge | bounded open events, events follow the rules, conditions that end resolve their events |
| Data sources (`datasource_modbus.go`, `decoder.go`, `generator.go`, `config.go`) | a connection, a backoff delay | connect, read, reconnect, decode registers | backoff bounded and reset, no half-read values, decoding exact at every width |
| Accounts and sessions (`internal/auth`, `lib/api.ts`, `lib/auth.tsx`, `LoginPage`, `RegisterPage`) | `users`, the two cookies, requests in flight | register, log in, refresh and repeat a request, log out, Microsoft callback and binding, seed the first admin | a live session is renewed, no request runs twice; deactivation takes effect |
| API keys (`internal/llmauth`, `ApiKeysPage`) | `llm_api_keys`; a dialog with the key just made | create, list, revoke, validate | a key is shown in full once; a revoked or expired key stays refused |
| Roles and permissions (`internal/rbac`) | `roles`, `role_permissions`, `user_site_roles` | create and edit roles, assign, remove, check | a check agrees with the assignments |
| Users and preferences (`internal/user`) | `users` | list, activate, deactivate, locale | see accounts |
| Audit log (`internal/audit`) | `audit_logs` | append by a goroutine after the handler | no entry for a failed request |
| Dashboards (`internal/dashboard`, `pages/dashboards`, `components/widget-config`, `components/widgets`) | `dashboards`, `dashboard_widgets`, `dashboard_access`; an editor with unsaved widgets, the sheet of one of them, the samples of a chart | create, edit, configure, save, rename, share, delete; fetch and draw samples | the view shows what was saved, a source is drawn from its own samples |
| Sites, lines, machines, registers (`internal/site`, `SitesPage`, `SiteDetail`, `RegisterTable`) | `sites`, `production_lines`, `machines` with a register map; a list, details, dialogs, a table of rows | create, edit, delete with cascades; edit, import, copy and save registers | list and detail agree with the tables; a machine keeps the registers that were saved |
| Worker configurations (`internal/worker_config`, `WorkerConfigEditPage`) | `worker_configs`, the machines in each; a form | create, edit, save by two requests, delete, generate YAML | a save that was acknowledged is what is shown |
| Data points (`internal/datapoint`) | a time series | aggregate queries | no state of its own |
| Fake worker (`cmd/fake-worker`) | the worker tables | a demo binary | not a part of the product |
| Server wiring (`cmd/server`, `internal/config`, `database`, `apierr`) | the route table | start-up | — |
| Frontend library (`frontend/src/lib`) | the query cache, the session | fetch, join, invalidate, mutate; renew and repeat | copies never go back; see the pages |
| Frontend pages and widgets (`frontend/src/pages`, `components`) | forms, dialogs, selections, ticks | edit, send, react to replies and to copies that arrive | what a page says was done is done and, if what it waits for arrived, shown |
| CLI (`cmd/dashboard-cli`) | a config file | one request per command | — |
| Deployment, documents, simulators | — | — | — |

How they interact: the server inserts commands that workers poll for; the
workers' heartbeats are read by the server's list query, which in turn deletes
claims under workers; alert rules are edited by the server while workers
evaluate them; the provisioner of a worker creates sites, lines and machines
that the server also edits. Nothing uses NOTIFY or a queue. A page reads
through hooks (`lib/hooks.ts`), which cache each answer under a key; it writes
through mutations, whose success invalidates keys and so makes the mounted
hooks read again. Pages share the cache, by keys that do not overlap between the
ones modelled, and the cookies that `apiFetch` renews.

What is hard: processes that hang past a threshold others rely on, takeover of
a name, statements whose errors are only logged, two shutdown paths that can
run at once, a restart that keeps the PID, checks and inserts without a
transaction. In the frontend: answers that left the server before a write and
arrive after it, forms that are filled again by a refetch, selections and
dialogs that refer to rows that are gone, several renewals of one session at
once, saves in two requests of which one fails, and refetches that fail while the
page that waits for them goes on as if they had not. `PROJECT.json` lists these hazards at their lines, with the
properties that cover them.

## Plan

Done, in this order:

1. `WorkerFleet` with its proofs: it carries the concurrency of the back end.
2. `AlertLifecycle` with its proofs.
3. `QueryCache` and the pages that edit something, each with the tables it
   writes: `ConfigEditor`, `DashboardEditor`, `RegisterEditor`,
   `AlertRulesEditor`, `SiteAdmin`, `AlertEvents`, `WidgetForm`, `ChartWidget`,
   `WorkerConsole`, `ApiKeys`; the session in `Session`, with its proofs;
   `Console` puts them side by side. `CachedCopy` is the abstract specification
   that the copies of two editors implement; proofs of that and of what every
   page promises.

To come:

4. `ModbusSource` (connection, backoff, the error counter of the runner) and
   the decoder as operators checked against a reference definition.
5. The rest of the accounts (Microsoft binding, deactivation) with
   `Permissions`: roles and the check a request passes; the choice of the site.
6. `WorkerLease`, an abstract specification (a name and a machine each have at
   most one holder whose lease runs), implemented by `WorkerFleet`.

Theorems to come: the refinement of `WorkerLease`, and the invariants of the
modules above. Those of the modules that exist are proved.

## WorkerFleet

One element of `Proc` is an operating-system process. `pc[p]["main"]` is the
main goroutine, `pc[p]["poll"]` the command goroutine; the heartbeat goroutine
is `due` and `toBeat`, and `polls` is the set of `RunMachine` goroutines that
have not returned, which is what `wg.Wait()` waits for. `cancelled` is the
context. A machine's goroutine is reduced to the statement by which it touches
the shared tables, the write of `machines.status`.

| Code | Actions |
|---|---|
| `main` up to the goroutines | `Start`, `Register`, `RegisterRefused`, `ProvisionMachine`, `ClaimMachine`, `StartThreads` |
| `StartHeartbeat` | `HeartbeatWorker`, `HeartbeatMachine` |
| `RunMachine` | `RunMachine`, `MachineStops` |
| `processNextCommand` and the handler in `main` | `PickCommand`, `PreMark`, `HandlerCancels`, `Drained`, `ReleaseMachine`, `SetOffline`, `Exit`, `Exec`, `ExecFails`, `MarkFailed` |
| the end of `main` | `Signal`, and the same `Drained` to `Exit` in the main goroutine |
| `ListWorkers`, `SendCommand` of the API | `ListWorkers`, `CheckOnline`, `InsertCommand` |
| the environment | `Crash`, `Tick` |

Every statement, or transaction where the code opens one, is a step. A crash
between `PickCommand` and the write of completed or failed leaves the command
`in_progress`, and no action picks it up again, as the code has nothing that
does: `PickCommand` only takes what is pending. Nothing is promised of it.
`reload_config` is not in `validCommands` of the API handler, so no such
command reaches a worker and the handler's branch for it is left out.

*Time.* A tick is the heartbeat interval (30 s). A row keeps the age of its
`heartbeat_at` in ticks, and one that is older than `StaleAfter` ticks (3 in
the code: 90 s) is stale. Ages stop at `StaleAfter + 1`, as nothing tells
older rows apart.

*Events.* The constant `Events` says what the environment of an instance may
do: `pause` (a process hangs for any time), `crash`, `signal`, `execfail`,
`dberr` (a statement whose error the code only logs has no effect), `readerr`.

*Lapsing.* No code can keep two processes apart when one of them hangs past
the threshold, and this code has no fencing. The properties therefore speak of
processes that have not `lapsed`: a history variable that gets a process when
a tick takes its row, or a claim it won, past the threshold while it still
relies on it, or when a late `SetOffline` of an older process of its name hits
the shared row. `Held(p)` is an active process that has not lapsed.

### Properties and runs

- `fleet_lease` (two processes, one name, one machine, one command, they may
  hang, crash, lose statements and fail to exec; threshold 2):
  `OneWorkerPerName`, `HeldIsOnline`, `WonClaimKept`, `OneExecutor`,
  `CommandsMoveForward` and the type invariant.
- `fleet_names` (two names whose configs share a machine): `OneOwnerPerMachine`.
- `fleet_liveness` (one process that is started again and again, two machines,
  signals, a command, crashes, failed reads): `ShutdownReleases`,
  `CommandIsPicked`, `ShutdownEnds`, `DeadWorkerLetsGo`.
- `fleet_restart`, `fleet_exec_fails`, `fleet_takeover`, `fleet_stop_queue`
  show where the program departs from its documents: a restarted worker is
  refused by its own row; a failed exec leaves a process that never exits; a
  successor polls a machine it has not claimed; a command queued behind a stop
  hits the next process. `PROJECT.json` quotes the documents.

Bounds. Two processes are enough for the interesting races, since the
takeover, the upsert and the reaper each concern a process and the one before
it; the proofs below do away with the bound for the lease properties. One
machine suffices where the property is about one machine, two where a loop
over machines can be interrupted half-way. Thresholds 1 and 2 stand for 3: the
guards compare an age with the threshold only, and 2 leaves one heartbeat to
be missed. One command is enough for what one row goes through; the queue of
two is in `fleet_stop_queue`.

Fairness (`FairSpec`). Weak fairness of the goroutines of a started process,
because the Go scheduler runs what can run and every statement returns; of
`Tick`, because the clock runs; of `ListWorkers`, because the admin page polls
it while it is open. Without anyone opening that page nothing reaps, and
`DeadWorkerLetsGo` would not hold. No fairness is assumed of starting a
process, sending a command, a signal or a crash.

## AlertLifecycle

The rules and events of one machine (rules never move between machines).
A `Poller` is a `RunMachine` goroutine in `Evaluate`: it reads (`Read`), loads
the active rules (`LoadRules`), and for each rule in any order skips it
(`SkipRule`), finds an open event (`AlreadyOpen`) or none (`FindNone`), then
inserts (`InsertEvent`, `InsertFails`), or resolves (`ResolveEvents`,
`ResolveFails`). The dropped errors are part of it: a failed `SELECT EXISTS`
reads as "no open event" (`blind`), a connection lost while the rules are read
shortens their list. The API actions carry the names of the store's methods;
deleting a rule deletes its events, as the foreign key says. A reading is a
partial function from metrics to values.

Two pollers may work on one machine because a worker starts polling every
machine of its config whether or not its claim took effect.

- `alerts_edited` (two pollers, one rule with two thresholds and severities,
  readings above, below and without the metric): `OneOpenPerPoller`,
  `NoOrphanEvents`, `EventsFollowRules`, the type invariant.
- `alerts_settle` (two rules, one poller that may fail and stop):
  `ClearedResolves`, `ViolationIsReported`. Two rules make the loop go round;
  duplicates of open events come from failed queries here.
- `alerts_deleted`: `EventsPreserved`, which the document on the alert pages
  promises, fails by the cascade.

`MaxEvents` bounds the rows present at a time; a deleted row's place is used
again. Two are enough for a duplicate. `ViolationIsReported` allows for the
table being full, which the program's table never is.

Fairness: weak for the steps of `Evaluate`, since the ticker keeps firing;
strong for loading all rules, inserting, finding no event and resolving. It
says that errors and restarts are transient, not that they do not happen: the
step fails or is cut off any number of times, but not for ever.

## The frontend

### The cache

The pages use react-query, which is not part of the repository; `QueryCache`
is what `lib/hooks.ts` and the pages rely on. An entry has its data, and a
fetch that is asked, answered from the tables as they are at that moment, and
delivered, so that writes fall between the answer and the delivery. Four facts
carry most properties:

- a fetch of an entry that is being fetched joins the one in flight, which may
  have been answered before a write;
- `invalidateQueries` drops the answer in flight and asks again, but only for
  an entry that a mounted component uses and that has data; one without data
  only joins;
- an answer equal to the data leaves the data as it is (structural sharing), so
  an effect that depends on it does not run;
- an `onSuccess` that returns the promise of `invalidateQueries` keeps its
  mutation pending until the refetch is over, one that does not (a body in
  braces) ends it at the reply; the callbacks given to `mutate` run after that,
  and only for the latest `mutate`. Both forms occur in `hooks.ts`, and which
  one a mutation has decides what a page shows when its dialog closes.

No hook sets a stale time, so every mount asks again.

*Failed fetches.* `fetchJSON` throws at every status but 2xx and when the
request or the reply is lost; `new QueryClient()` repeats a fetch three times.
A repetition is a longer stay in "asked", for what the server read for the
attempts before it nobody sees. After the last one the entry rests with an error
and the data it had (`Fail`, state "failed"): every page's fetch may end this
way at any time, also while the row exists. The promise of `invalidateQueries`
is fulfilled all the same, so what waits for it goes on: `mutateAsync` returns,
`navigate` leaves for the view, a dialog closes, the selection is cleared, on
the copy of before. A later fetch, on focus or at the next mount, puts the entry
right or fails again. What a page promises of its copy is therefore said of an
entry whose last fetch arrived ("idle"), or of the step in which the awaited
refetch did; nothing is promised of one that failed beyond what was promised
before. Three things the pages then do are in the model and are promised by no
property: the list of `SitesPage` still has the site that was deleted, and
the effect at `SitesPage.tsx:14` may select it again; a dialog or the ticks of
`AlertRulesPage` go while the list behind shows the rows of before; a form or
table whose first fetch failed is empty and editable, and saving it stores that.

*Reads in several statements.* `GetConfig` reads the row and then its machines,
`GetDashboard` the row and then its widgets, without a transaction. Both are two
steps (`ReadConfig`, `AnswerConfig`; `ReadBoard`, `AnswerBoard`), so others write
between them, and a copy may have the row of one version and the rest of a
later one. `GetConfig` does not ask `rows.Err()`, so a connection lost while the
machines are read gives a short list with status 200: that is not modelled, such
a fetch fails here. Three other reads take several statements and are one step
in the model: the detail of a site (`GetSiteDetail`), the events of a page (a
count, then the rows), the detail of a worker (the row, then its commands).

### The pages

A module has the page, its cache entries, its requests in flight and the
tables they read and write; other tabs and users write the same tables through
actions of the module (those named `Others...`, `OtherTab`). Requests and
replies can be lost. A
request is sent, served (one transaction of the store, or what part of it
succeeds), and replied to, and each effect and callback of the page that a
reply or a copy triggers is part of the action that delivers it.

| Module | Code | Properties |
|---|---|---|
| `ConfigEditor` | `WorkerConfigEditPage`, `internal/worker_config` | `AckedSaveIsShown`: once both saves are acknowledged and the last fetch arrived, the form is filled from what the tables hold. `ConfigCopyNeverGoesBack`: the copy implements `CachedCopy`. |
| `DashboardEditor` | `DashboardEditorPage`, `DashboardViewPage`, `internal/dashboard` | `ViewShowsOwnSave`: the view opened by a save never shows an older version; if the refetch that the save waited for failed, not from the view's own first fetch on that arrives. `BoardCopyNeverGoesBack`. |
| `RegisterEditor` | `RegisterTable`, `CsvImportDialog`, `internal/site` | `SavedRowsAreStored`: acknowledged and untouched rows are, as the server completes them, what the machine has, once the last fetch arrived. |
| `AlertRulesEditor` | `AlertRulesPage`, `AlertRuleDialog`, `internal/alert` | `RuleWatchesItsMachine`: no order of choices and answers makes a rule whose metric its machine does not have. `ConcludedIsShown`: when one of several requests succeeds and its dialog, confirmation or ticks go, the list behind has what it did, unless the refetch it waited for failed. |
| `SiteAdmin` | `SitesPage`, `SiteDetail`, `internal/site` | `DeletedSiteNotReselected`, `DeletionShownInBoth`, `NewPartIsShown`: selection, list and detail after deletions and creations, once what they wait for arrived. |
| `AlertEvents` | `AlertsPage`, `internal/alert` | `RowsMatchView`: the rows are of the filter above them. `AckIsShown`: an acknowledged event is shown as the table has it once the last fetch arrived. |
| `WidgetForm` | `DataSourceList`, `DataSourceMachine`, `LineChartConfig`, `BarChartConfig`, `IndicatorConfig`, `StatusCardConfig` | `SourceMatchesItsMachine`: picker, legend and metric follow the machine while sources come and go. |
| `ChartWidget` | `LineChartWidget` | `RefetchedChartIsRight`: refetched samples are drawn under their own source. `PointsUnderTheirSource` is refuted, see below. |
| `WorkerConsole` | `WorkersPage`, `WorkerDetail`, `CommandConfirmDialog`, `internal/worker_api` | `OrderIsListed`: an acknowledged command is listed once the last fetch arrived, whichever rows were expanded meanwhile. |
| `ApiKeys` | `ApiKeysPage`, `internal/llmauth` | `KeyIsShownOnce`: a key is never shown again once its dialog was closed, and is in the list while it is shown, unless the last fetch of the list failed. |
| `Session` | `apiFetch`, `AuthProvider`, `LoginPage`, `RegisterPage`, `AccountPage`, `internal/auth` | `CallRunsOnce`: the repetition after a 401 never runs a handler twice. `LiveSessionIsRenewed`: a call ends with 401 only if the session ended or could not be renewed while it lasted. |

`AlertRulesEditor`. The dialog saves one rule at a time (`SavePending`), but no
other handler of `AlertRulesPage` looks whether a request is pending, so any number
may be in flight (`RuleRequest`): each carries the ids
and the row captured at its click and concludes for itself, on whatever is then
open. What the metrics are that a machine offers changes with its registers;
`MetricsOf` has those it has or has had, and `ChooseMetric` takes any of them,
so a rule with a metric since removed is not told apart. Condition, severity and
threshold are part of the row that is copied as a whole.

`DashboardEditor`. A dashboard without widgets is sent as `null`, and the
editor's effect then leaves what is being arranged as it is (`FillEditor`).
`SaveBoard` does not ask whether the dashboard was loaded, as `handleSave` does not.

`Session`. Each call that is answered 401 renews the cookies for itself. Tokens
carry no state on the server: any refresh token that has not expired is good,
so two renewals at once both succeed and the later reply wins. A token is told
by the time it is still good for; `Tick` ages cookies and the tokens in
requests alike. It waits while a refresh or a repeated request is in flight:
the model assumes that the two take less than the life of an access token
(15 minutes), repetitions included. Without it the repeated request could be turned away with a token
that expired on its way, and `LiveSessionIsRenewed` would not hold.

`CachedCopy` has two numbers, the version of a row and the version of the copy
shown; a write adds one to the first, a refresh moves the second forward, at
most to the first. `ConfigEditor` and `DashboardEditor` implement it with the
count of writes and the count the cached copy was read at
(`INSTANCE CachedCopy WITH`).

### Runs

`console` runs `Console` with all of these properties: a tab is on one page,
chosen in the initial state, and the others rest. Nothing is lost by it: the
entries of the pages are disjoint, coming to a page and leaving it are actions
of its module, and the other tabs write the tables from inside it. What one
page leaves in the cache for another is not covered. The run is safety only and
`CHECK_DEADLOCK FALSE`, as a page at its bounds has nothing left to do; no
fairness is assumed of users or of the network.

Bounds. Two writes per table let a copy be two versions behind: one write by the
page and one by others, in any order. A configuration is written three times,
as it must be created before its two saves; three keys overlap in two dialogs;
one write to the events, to a worker's commands and to the tree of sites is
enough, as what is promised of them lasts until the next write, and the tables
are found in different states to begin with (`FirstTrees`: two sites without a
machine, one site with one). Two sites, two workers, two
machines on different lines or with different metrics are one that is selected
and one it is changed to; the configuration has one machine, which leaves its
site when the form's site is changed. Two requests on the rules race each other. One rule, one slot, one row and one line
or machine in a site suffice where the property concerns one row; a bulk
request is then one of a single row. Two events on pages of one give two pages.
Two calls, AuthProvider's and another, race on the cookies; access tokens live
one tick and refresh tokens two, so that the clock ends both. Two sources give a
list its order, and one removed before another.

`chart_collision` runs `ChartWidget` alone for `PointsUnderTheirSource`: the
comment at `LineChartWidget.tsx:70` says that lines keyed by the source's id do
not collide. They do: the cached entry of a machine and metric carries the
source that fetched it, and a source that is given another machine keeps its
id. If a second source takes over the first machine, the first source's line is
drawn from it until the entry is fetched again.

## Proofs

`WorkerFleetProofs` proves `TypeCorrect`: `Spec => []TypeOK`, for any sets of
processes, names and machines, any configs, any threshold and any events.
The assumption `ConstantsOK` (in `WorkerFleet`) says that constants have their
types and that the NULL value is none of the others.

`WorkerLeaseProofs` proves the four lease properties from one inductive
invariant. None of them is inductive by itself: that a registration is
exclusive follows from the row being online and written by its holder
(`HeldIsOnline`), which holds because the reaper and `Register` only touch
rows past the threshold, at which point the tick has made the holder lapse;
that a claim is kept needs both its age and that no running process has the
same hostname-PID (`DistinctIds`); and both need to know in which phases a
process has what (`ProcessShape`: one that has not registered has won nothing,
one that is down has no goroutine in a shutdown path).
`LeaseInv == TypeOK /\ ProcessShape /\ DistinctIds /\ HeldIsOnline /\
WonClaimKept`. The proof of a step goes by what a step writes: lemmas
`WritersOfWorkers`, `WritersOfClaims` and `WritersOfWon` say which actions
change a row, and `HeldBefore` that a process holding after a step either held
before or has just registered. `RegistrationIsExclusive` and
`MachineHasOneOwner` then follow from the invariant: two holders of one row,
or of one claim, would both be the one it names.

`ShutdownReleases` has an invariant of its own, `ShutdownInv`. The property
speaks of a goroutine whose loop over the machines is over; `LetGo` says it of
every goroutine past `wg.Wait()`, of the machines the loop has been through, and
is what a step of the loop carries on. It stays true of one goroutine while the
other runs the same loop because nothing brings a claim back: only `ClaimMachine`
writes one in the process's name, by the main goroutine on its way up, where no
command goroutine exists yet (`StartsAlone`) and where no other living process
has that hostname and PID (`DistinctIds`).

The second half of `WorkerFleetProofs` proves the two properties of commands from
the invariant `Hand`: the command a goroutine holds is neither absent nor pending, and has
the status its place in the handler says. Picking a pending command therefore
never picks one in another's hands, and the marks that follow write a status
that nobody else has changed.

`AlertProofs` proves the type invariant and the safety properties of
`AlertLifecycle` from `AlertConstants` (values are integers, rules can be
switched on and off, NULL is no row). Its invariant `EventInv` adds to the
properties what a poller has in hand: about to insert, it has seen the rule
violated and, unless its query failed, none of its own events open
(`NoneOfItsOwn`); what it has loaded is the rule as it stands or has been
edited since (`InHand`); and a rule that exists has been given out (`GivenOut`),
so that a new rule is in no poller's hands. The action property
`EventsFollowRules` follows from it one step at a time.

`SessionProofs` proves the type invariant and the two properties of `Session`,
for any number of calls and any lives of the tokens, from `SessionConstants`
(an access token lives less long than a refresh token). Neither property is
inductive. `SessionInv` adds, call by call (`CallInOrder`), that the handler
has not run while the request is on its way or its answer is 401, so a
repetition is the first run; that a repeated request carries a token that is
still good, so it is not turned away again; and that a call which has no good
refresh token, in the cookies or in the reply it got, has noted the end of the
session. The steps that take the cookies away (logout, another tab, the clock)
note the end in every call in flight; the others touch one call, and the lemmas
on its request, reply and refresh say that it stays in order.

`CacheProofs` holds what the operations of the query cache do to an entry: its
type, its data, its answer and its stage after a fetch was asked, read in
part, answered, delivered, failed or invalidated, and that they keep the order of versions used
next. The proofs about the pages cite these lemmas instead of the operations.

`EditorProofs` proves the types of `ConfigEditor` and `DashboardEditor` and that
both implement `CachedCopy`, for any number of writes. It assumes of the
constants what `ConfigConstants` and `BoardConstants` say, and that the value
of an entry without data is no row (`NoConfigIsUndefined`,
`NoBoardIsUndefined`; the other pages have such an assumption too: in the code
the one is `undefined` and the other an object). Its invariant relates three
versions: the data are not newer than the answer in flight, be it whole or in its
first part, nor that than the row, whose version is the number of writes
(`EntryInOrder`). A failed fetch drops an answer and keeps the order. A step of a page
then is a write, which leaves the entry alone, or moves the copy to a version
between the copy's and the row's.

On top of it, `ViewShowsOwnSave` needs to know what is in flight while
`handleSave` waits: as the reply dropped an earlier answer, what arrives was
read after the save, its first statement included (`SaveAwaited`); and if it
failed, that the view has asked anew. `AckedSaveIsShown` needs three more facts.
The page of a new configuration has nothing cached, so the fetch after
the create is a first one (`AskedInOrder`). A save is applied only while its
form is mounted and there is a copy, so that its reply finds an entry to
invalidate rather than a first fetch to join (`SavesInOrder`): this is the fact
that does not hold by itself, and the code owes it to showing nothing to edit
while the first copy is on its way. And what is in flight after the last
acknowledged write is the row (`AckInCopy`), where a first part counts as asked for, as the
machines are still to be read and the row cannot have changed since.

`ListProofs` has the four pages that act on the rows of a list. Their promises
speak of an entry whose last fetch arrived; each invariant says what holds of the
entry in every state: it is asked for, or the answer in flight, or the data,
agree with the table, or the fetch failed, after which only an answer yet to come
can make it arrive again.

- `ApiKeys` (`KeyInv`): what is shown is a part of the answer in flight, and
  that of the table, since keys are only added to what was made (`KeysInOrder`);
  the key that is on its way to the dialog was in no dialog before and is in the
  table, hence in an answer that brings it to the page (`KeyOnItsWay`).
- `WorkerConsole` (`FleetInv`): the detail of an expanded row is in one of these
  four states from the reply to the last write on (`DetailListed`), also when
  the row is expanded after it.
- `AlertEvents` (`EventInv`): what an entry holds and what is on its way to it
  is of that entry's filter, whatever the page shows by then
  (`EntriesOfFilter`); the entry looked at agrees with the table in the rows it
  has (`LookedAtAgrees`).
- `SiteAdmin` (`TreeInv`): a deleted site is in no list that is shown or in
  flight (`NothingDeletedListed`), once the deletion waited for the list and the
  list arrived (`DeletionOnItsWay`), and ids are not used again. List and detail each are in
  one of the four states after a deletion (`DeletionShows`), and a new part is
  in the answer its dialog waits for (`NewPartOnItsWay`). Both rest on
  `SitesAreKnown`: a dialog or a request is about a site whose detail was
  delivered, so that the invalidation finds data and asks anew rather than
  joining a fetch from before the write.

`ConsoleProofs` has the pages with a form whose rows others write too.

- `RegisterEditor` (`RegisterInv`): rows that were not touched since a save was
  clicked are those the table was filled from meanwhile, or come to what was saved
  (`UntouchedRows`); an open table was filled from the data of its entry
  (`FilledFromData`); after an acknowledged save the entry is asked for, has
  the row, or failed (`RegistersOnTheirWay`). `CompletedOnce` says that what the server
  adds to a row it adds once, so that a row it has completed comes back as it is.
- `AlertRulesEditor` (`RuleInv`): every copy of a rule, listed, in flight, open
  in the dialog or in any of the requests, has a metric of its machine, and the machine
  the rule has if it still exists (`RuleCopiesRight`). A rule is thus right
  whatever old copy of it an edit sends back. `RightLater` says that a copy
  stays right while the table moves on as `KeepsMachines` says. For
  `ConcludedIsShown`: while a request that wrote last waits for the list, the list
  is asked for or the answer in flight is the table (`RulesOnTheirWay`).
- `ChartWidget` (`ChartInv`): a fetch is of the series its entry is for
  (`RequestsAreOfTheirEntry`), and an entry asked for since the last change was
  asked for by a source that still measures it
  (`CurrentEntriesAreOfTheirSource`).
- `WidgetForm` (`WidgetInv`): the ids of sources differ and are not given out
  twice (`OneEach`), so that the picker kept under an id is of one source,
  whatever the list's order; `SequenceTheorems` gives what appending and
  removing do to the list.

Then `Console`. A step of it is a step of one page and leaves the others' tables,
entries and dialogs alone, so each page behaves in it as its own module says
(`ConsoleRunsPages`, an implication between the specifications) and all that is
proved of a page holds in it: the types (`ConsoleTypes`), the fourteen
invariants (`PagesKeepTheirPromises`) and the four properties of steps and
copies (`PagesNeverDoHarm`). The run `console` checks the same list.

Two attempts at these proofs failed for a reason in the model. An alert rule
could be created with the id of a deleted one, on another machine; a dialog open
on the old rule then saved its metric into the new one. The table gives every
row a new id, and the small instance of the run does not tell the difference:
`ruleIds` now says so. And `SiteAdmin` took a dialog's write for the page's own
after another site had been selected; whether a write is the own one is now told
by the site it is about.

| Theorem | Module | Statement |
|---|---|---|
| `TypeCorrect` | `WorkerFleetProofs` | `Spec => []TypeOK` |
| `HeldRowStaysOnline` | `WorkerLeaseProofs` | `Spec => []HeldIsOnline` |
| `WonClaimStays` | `WorkerLeaseProofs` | `Spec => []WonClaimKept` |
| `RegistrationIsExclusive` | `WorkerLeaseProofs` | `Spec => []OneWorkerPerName` |
| `MachineHasOneOwner` | `WorkerLeaseProofs` | `Spec => []OneOwnerPerMachine` |
| `ShutdownLetsGo` | `WorkerLeaseProofs` | `Spec => []ShutdownReleases` |
| `CommandsHaveOneExecutor` | `WorkerFleetProofs` | `Spec => []OneExecutor` |
| `CommandsNeverGoBack` | `WorkerFleetProofs` | `Spec => CommandsMoveForward` |
| `AlertTypes` | `AlertProofs` | `Spec => []TypeOK` |
| `NoEventOutlivesItsRule` | `AlertProofs` | `Spec => []NoOrphanEvents` |
| `OpenEventsAreBounded` | `AlertProofs` | `Spec => []OneOpenPerPoller` |
| `EventsFollow` | `AlertProofs` | `Spec => EventsFollowRules` |
| `SessionTypes` | `SessionProofs` | `SessionSpec => []SessionTypeOK` |
| `CallsRunOnce` | `SessionProofs` | `SessionSpec => []CallRunsOnce` |
| `LiveSessionsAreRenewed` | `SessionProofs` | `SessionSpec => []LiveSessionIsRenewed` |
| `ConfigTypes` | `EditorProofs` | `ConfigSpec => []ConfigTypeOK` |
| `ConfigCopiesAreCached` | `EditorProofs` | `ConfigSpec => ConfigCopyNeverGoesBack` |
| `BoardTypes` | `EditorProofs` | `BoardSpec => []BoardTypeOK` |
| `BoardCopiesAreCached` | `EditorProofs` | `BoardSpec => BoardCopyNeverGoesBack` |
| `SavesAreViewed` | `EditorProofs` | `BoardSpec => []ViewShowsOwnSave` |
| `AckedSavesAreShown` | `EditorProofs` | `ConfigSpec => []AckedSaveIsShown` |
| `KeysAreShownOnce` | `ListProofs` | `KeySpec => []KeyIsShownOnce` |
| `OrdersAreListed` | `ListProofs` | `FleetPageSpec => []OrderIsListed` |
| `RowsAreOfTheView` | `ListProofs` | `EventSpec => []RowsMatchView` |
| `AcksAreShown` | `ListProofs` | `EventSpec => []AckIsShown` |
| `DeletedSitesStayUnselected` | `ListProofs` | `TreeSpec => []DeletedSiteNotReselected` |
| `DeletionsAreShownInBoth` | `ListProofs` | `TreeSpec => []DeletionShownInBoth` |
| `NewPartsAreShown` | `ListProofs` | `TreeSpec => NewPartIsShown` |
| `RegisterTypes` | `ConsoleProofs` | `RegisterSpec => []RegisterTypeOK` |
| `SavedRowsAreKept` | `ConsoleProofs` | `RegisterSpec => []SavedRowsAreStored` |
| `RuleTypes` | `ConsoleProofs` | `RuleSpec => []RuleTypeOK` |
| `RulesWatchTheirMachines` | `ConsoleProofs` | `RuleSpec => []RuleWatchesItsMachine` |
| `ConcludedCallsAreShown` | `ConsoleProofs` | `RuleSpec => ConcludedIsShown` |
| `ChartTypes` | `ConsoleProofs` | `ChartSpec => []ChartTypeOK` |
| `RefetchedChartsAreRight` | `ConsoleProofs` | `ChartSpec => []RefetchedChartIsRight` |
| `WidgetTypes` | `ConsoleProofs` | `WidgetSpec => []WidgetTypeOK` |
| `SourcesMatchTheirMachines` | `ConsoleProofs` | `WidgetSpec => []SourceMatchesItsMachine` |
| `ConsoleRunsPages` | `ConsoleProofs` | `ConsoleSpec => ConfigSpec /\ BoardSpec /\ ... /\ KeySpec` |
| `ConsoleTypes` | `ConsoleProofs` | `ConsoleSpec => []ConsoleTypeOK` |
| `PagesKeepTheirPromises` | `ConsoleProofs` | `ConsoleSpec => []PagePromises` |
| `PagesNeverDoHarm` | `ConsoleProofs` | `ConsoleSpec => ConfigCopyNeverGoesBack /\ BoardCopyNeverGoesBack /\ ConcludedIsShown /\ NewPartIsShown` |

Only model-checked: the five liveness properties (`CommandIsPicked`,
`ShutdownEnds`, `DeadWorkerLetsGo`, `ClearedResolves`, `ViolationIsReported`), as
the prover has neither fairness nor ENABLED, and the six refutations, which are
about one counterexample. Every invariant and every property of steps that a
run checks is also a theorem. Induction over data and RECURSIVE operators are
outside the prover as well; no module proved about uses either.

## Not modelled

Rows written by hand, a clock that jumps, and PostgreSQL failing over. The
values of data points and of machine metadata. In `WorkerFleet`, the rows of
sites, lines and machines that the provisioner upserts, apart from the status
it sets.

In the frontend: the choice of the site (`site-context`) and the refetch it
causes, translations, the refresh interval; `ShareDialog`, `UsersPage`,
`RolesPage`, `MachineDetailPage`, and the pages and widgets that only show what
they fetched. The dialogs of `SiteAdmin` send one request at a time, where the
page lets each have its own, and those for lines and for machines are one. A name, a host, a layout
or a widget's settings are members of small sets.

In the server: roles and permissions (the user of a page may do what it
offers), Microsoft login and binding, deactivation, expiry and use of API keys,
sharing of dashboards, the audit log, the reading of registers. Some of these
are in the plan; the remaining reasons are in `PROJECT.json`.
