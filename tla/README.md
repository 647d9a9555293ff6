# DealRoute pipeline: a TLA+ verification of its core

The DealRoute pipeline finds subscription offers on the web, extracts them with an LLM, lets people review what was
extracted, publishes what they approve and takes it down again when the page behind it is gone. This directory holds
TLA+ models of the parts of `src/` where steps of several actors meet (reviewers, scheduled passes, discovery runs,
sign-ins, processes that start and die, the database and its retries), of the rules that decide what a page becomes, and
of both database adapters. TLC checks the models on small instances; for the results that matter most, TLAPS proves them for every
value of the constants. `PROJECT.json` lists components, runs, mutants, the code each definition stands for, hazards,
findings and theorems.

## 1. Inventory

| Component | State it keeps | Operations | What is hard | What makes it correct |
|---|---|---|---|---|
| Deal review (`application/review/review.ts`) | `deals`, `review_records`, `evidence`, `manual_capture_tasks` | approve, edit, reject (with reason), complete or create a manual capture | handlers read, log, write in separate awaits without a transaction or a status predicate; two reviewers work at once | decisions and edits are audited; a terminal deal stays decided; an approval publishes what was edited |
| Candidate persistence (`application/crawl/candidate-sink.ts`) | `deals`, `evidence`, `field_proposals` | persist the offers of a capture | duplicate checks and insert are separate statements; lanes overlap; reviewers re-key rows meanwhile | no new content is dropped, no content waits twice but for what two steps could not know of each other, every row has its evidence |
| Scheduled crawl (`application/crawl/crawl-source.ts`, `source-policy.ts`) | `sources` (schedule, reliability, resolved url), `crawl_runs` | one pass over a source | works on the row read first, writes it back whole | only approved sources are crawled; a wall does not count for or against the source |
| Monitoring (`application/monitor/monitor-source.ts`) | `changes`, `sources`, `deals` | fetch, diff, re-crawl, expire | debounce over a log shared by passes; failures in any await; the crawl lane moves the same schedule | nothing is expired after one outage; what is gone for good is expired in the end |
| Source registry and review (`application/review/source-review.ts`, `discover/lane-b-support.ts`, `seed-import`) | `sources`, `source_reviews` | register, propose, approve, reject, import | look-up and write are separate; lane B reads the known domains in four queries | a source is active because somebody approved it; a rejection is only undone by who had read before it; a known domain is not proposed |
| Discovery, ingestion (`application/discover`, `application/ingest`), run records (`crawl/run-recorder.ts`), budget guard (`metrics/daily-budget-guard.ts`) | `crawl_runs` | search, follow links, triage, extract, propose, charge, close the row | the cost of a call is known after it; the guard sums closed rows; midnight passes between check and start | caps hold, run rows never dangle, every run ends |
| Auth and administration (`application/auth`) | `users`, `roles`, `role_permissions`, `auth_meta`, `refresh_tokens` | sign in, refresh, sign out, edit roles and users | checks and writes are separate awaits; permissions live inside access tokens until these expire | somebody who can administer remains, however requests overlap, until one writes what another's change has outrun; a token that outlived an edit is recognised; concurrent refreshes do not sign a user out |
| Sessions and lockout (`auth/refresh.ts`, `authenticate.ts`, `logout.ts`, `domain/auth/rules.ts`) | `refresh_tokens`, failure count and lock of a user | rotate, forgive or punish a replay, log out, disable, count failures | verdicts are taken on rows that other requests rotate or revoke; slow failures erase locks | an ended family stays ended but for requests that overtook the end; racing tabs are not signed out; a lock is worth its threshold |
| Worklists (`review.ts:300-502`) | `manual_capture_tasks`, `field_proposals`, `condition_vocabulary` | open, complete or create a capture, promote a proposal | five statements per capture, read-modify-write of an entry | a done task has its candidate, a captured candidate its evidence, a promoted proposal its alias |
| Extraction and rules (`application/extract`, `domain/rules`, `page-classifier.ts`, `json-recovery.ts`) | none | classify, validate, score, map vocabulary, compute cost, repair replies, patch | order of overlapping checks, missing values, a cost stored beside the price it derives from | an unmarked candidate costs what its price says; a repair gives back what was meant and completes nothing |
| Fetching (`adapters/fetcher`) | pacing and robots rules of one process | fetch politely | outages, redirects, retries | pages spaced per host, an answered `robots.txt` asked for once, no content a rule forbids, no refusal that outlasts an outage |
| Database resilience (`adapters/db/postgres/db-resilience.ts`) | none | a bounded number of retries; a duplicate key on the retry of an insert counts as its success | a statement that committed but whose answer was lost is sent again | what is reported as written is there |
| Database adapters (`postgres-db.ts`, `in-memory-db.ts`) | all tables | every statement and query, twice | the tests run on the double | both answer alike, or the difference is named |
| Evidence stores (`adapters/evidence-store`) | objects of a bucket, files of a directory | save, publish, get, verify | torn writes, lost answers, crashes, partial restores | a bundle is whole or not there |
| Settings (`application/settings`) | the queued daily budget | queue, clear, consume at start | read, delete and adopt are separate awaits of many processes | a queued value applies in another deployment and has a fate |
| Alerting (`application/alerting`, `persisting-alerter.ts`) | `alert_events` | raise, acknowledge, resolve, list | the listing reads sources while they change | trouble that returns is open, trouble that lasts is shown as long as its alert is on the page |
| Metrics, HTTP, CLI, configuration, security and vendor adapters, deployment | see `PROJECT.json` | | mostly I/O and formatting | |

How the parts interact: the components share nothing but the tables. Cron jobs start one command each (crawl every six
hours, monitor at 00:30 and then every three hours, ingest hourly, broad discovery nightly; `deploy/k8s/cronjobs.yaml:70,103,133,166`),
an operator may start the same commands by hand, and a reviewer's HTTP request runs a use case that awaits several
statements. No use case opens a transaction around them, so every await is a place where another actor may step in or
where the process may die. That is the granularity of all models here: **one action per awaited database or network
call**, with the values read earlier carried in a record (`req`, `lane`, `pass`, `run`, `requests`) until they are used.

## 2. Plan

| Module | Composes / implements | Checked by | Proved in | State |
|---|---|---|---|---|
| `LifecyclePromise` | abstract life cycle of a deal | through `DealLifecycle` | `DealLifecycleProofs` | done |
| `DealLifecycle` | review handlers, capture lanes and expiry over one set of tables; implements `LifecyclePromise` | `MCDealLifecycle` | `DealLifecycleProofs` | done |
| `SourceMonitor` | monitor pass, the re-crawl inside it and the crawl lane over one source | `MCSourceMonitor`, `MCMonitorScenes` | `SourceMonitorProofs` | done |
| `SourceRegistry` | source review, lane B, seed import and the write-back of passes | `MCSourceRegistry` | `SourceRegistryProofs` | done |
| `LaneRuns` | the three paid lanes, their run rows and the budget guard | `MCLaneRuns` | `LaneRunsProofs` | done |
| `Accounts` | administration requests, sign-in/refresh and the check of a token | `MCAccounts` | `AccountsProofs` | done |
| `RecordRules` | one page: classification, extraction rules, candidate, reviewers' patches | `MCLaneRuns` | `LaneRunsProofs` | done |
| `JsonRecovery` | one malformed reply, repaired character by character | `MCLaneRuns` | `LaneRunsProofs` | done |
| `Sessions` | refresh tokens: rotation, races, logout, disabling | `MCOperations` | `OperationsProofs` | done |
| `Lockout` | failed sign-ins | `MCOperations` | `OperationsProofs` | done |
| `CaptureDesk` | capture tasks, field proposals, vocabulary | `MCOperations` | `OperationsProofs` | done |
| `PoliteFetch` | pacing and robots.txt of one process | `MCOperations` | `OperationsProofs` | done |
| `EvidenceStores`, `DbRetry` | the fault models: torn writes, lost answers | `MCOperations` | `OperationsProofs` | done |
| `Settings` | the queued budget across processes and deployments | `MCOperations` | `OperationsProofs` | done |
| `Alerts` | alerts and their listing | `MCOperations` | `OperationsProofs` | done |
| `Tables`, `DealTables`, `LogTables`, `AccountTables` | the two adapters in lockstep; the Postgres one is the reference the double is compared with | `MCReference` | `DealTablesProofs`, `ReferenceProofs` | done |

Order: first what decides whether a published offer is right (`DealLifecycle`), then what takes it down
(`SourceMonitor`), who may be crawled (`SourceRegistry`), what it costs (`LaneRuns`) and who may decide (`Accounts`); then
the rules a record passes, the services around the core and the tables all of it stands on. The project keeps to a
dozen runs, so that all of them can be repeated on every change: modules that share no variable share a run, in which
each behaviour exercises one of them (the variable `part` of the MC modules says which). A safety property of one module is
checked there exactly as it would be alone.

Every safety invariant and action property that a passing run checks has a theorem. What only the runs check is liveness
(section 5).

## 3. Modules and the code

### DealLifecycle

`deals`, `evidence` and `reviews` are the tables; a row keeps its status, deduplication key, capture (its evidence),
approver and the authors of human corrections. `req[r]` is the request reviewer `r` has in flight:
`ReadForDecision` (find the deal, check who and in which status), `StoreManualEvidence` (a capture's first write),
`RecordReview` (the audit row), then `UpdateDeal` (approve, edit), `UpdateStatusRejected` or `InsertCaptured`, and
`RequestFails` at any await. With `LostAcks` an UPDATE may commit and lose its answer, so the retrier sends the same
statement again later. `lane[l]` is one pass of the candidate sink: `CaptureEvidence`, `NextOffer`, `FindByDedupeKey`,
`CheckDuplicate`, `InsertCandidate`, `PassFails`. `ExpirePublished` is what the monitor does to this table (why it does so
is `SourceMonitor`'s subject). `covered` and `persisted` are history: the contents that were ever rows, and those the
sink is done with. So are `overtaken`, the lanes behind whose duplicate check another lane has inserted the same content,
and `doubtful`, the rows such a lane inserted or a stale write-back returned to the queue (`Noted`, a conjunct of `Next`, keeps
both): `QueueHasNoTwin` names them as what it cannot promise.

### SourceMonitor

One source and its page. `page` is what a fetch would see (reachable, walled, refused, gone; final url; content hash),
`recent` the newest rows of the change log in the window the debounce reads, `due` the schedule, `source` reliability and
resolved url, `deals` the rows captured from it. A monitor pass goes `StartMonitor`, `Compare`, `RecordChange`, then
`Recrawl`/`Persist`/`FinishCrawl` when the content changed, or `CountDisappearances`/`Expire` when the page is gone, then
`AdvanceSchedule`; a crawl pass goes `StartCrawl`, `Persist`, `FinishCrawl`. Both write the source row they read first.
`MonitorFails`, `RoutingFails`, `CrawlFails` are failures of a call, each with what the code does then; `PassEnds` is the
end of a pass that stays without effect. `PageChanges`, `Elapse` and `Review` are the environment. `overtaken` is history:
passes that have counted and are about to expire while another pass logs a change.

### SourceRegistry

`sources` by url with id and status, `reviews` the decisions, `seeded` the ids imported. `req` are the requests of
reviewers (`ReadForDecision`, `ReadForRegister`, `RecordReview`, `Decide`, `RequestFails`), `run` the lane B runs
(`StartProposals`, one `ReadKnown` per status in the code's order, `Propose` per source, `ProposerFails`), `pass` the crawl
and monitor passes that hold a copy of a row and write it back (`StartCrawl`, `StartMonitor`, `Recrawl`, `WriteBack`,
`PassFails`); `ImportSeed` is the seed import. History: `crawled`, the ids whose page was fetched; `takenOver`, the
registrations that logged one id and wrote a row that has another; `since`, for every actor at work, the urls whose status
others have changed since it began (a monitor pass that re-crawls reads its row again and starts anew).

### LaneRuns

Each batch is one command: `check` asks the guard for the day's headroom, `start` clamps the cap, `open` inserts the row,
`top` and `lead` loop over pages, queries, results or feed items while the caps allow, `extract` pays for one or two LLM
calls, `pages` follows links, `propose` persists sources, `finish` and `fail` close the row. Money and items are counted;
`billed` is history, what the providers charge, against `cost`, what the run charges itself. `capped` is history too: for every
row closed as daily_budget_cap the day whose headroom its run was given (`against`) and the cost it booked on another day
(`elsewhere`, not 0 only for a run that midnight parted from its check); `lost` counts the rows of killed processes and failed
closing writes.

### Accounts

`users`, `roles`, `grants`, `permVersion` are the tables. A request of the administration goes through the awaits of its
handler: load, read the role, listings for the last-administrator guard, decide, then its writes one at a time in the
code's order (`todo`); a failure may stop it between any two. A mint is what a successful sign-in and refresh share: read
the user, read the grants, read `perm_version` and sign. `tokens` are the live access tokens, and `Effective` is what the
HTTP layer makes of one: refused on a stale `token_version`, looked up again on a stale `perm_version`, trusted otherwise.
`crossed` and `outrun` are history: the requests under which another one has changed a role, a status or grants, and whether
such a request has gone on to write what it had decided.

### Sessions, Lockout

`Sessions`: `rows` is the table of refresh tokens, `req` what each request has read. A refresh goes `Present` (the clock is
read first), `FindByHash` (the verdict of `Rotation`), `LoadUser`, then `Rotate` or `IssueConcurrent`, or `RevokeFamily` on a
replay outside the grace window. `Logout`, `SetDisabled`/`RevokeAllForUser` and `Enable` end what refreshes build; `GiveUp`
is a failed call. `strays` is history: tokens inserted by requests that had read their row before the family ended.
`Lockout`: an attempt goes `CheckLock`, `Verify`, then `RecordLogin`, or `RecordFailedLogin` and `SetLockedUntil`, which
writes null below the threshold whatever is there.

### CaptureDesk

A call of the panel is in `calls`: a capture goes `BeginComplete` or `BeginAdHoc`, `SaveBundle`, `AuditCapture`,
`InsertCandidate`, `CloseTask`; a promotion `BeginPromotion`, `UpsertEntry` (the whole entry it read, and one alias),
`MarkProposal`; `Abandon` is a failure anywhere. The crawl side adds work: `RouteToManualCapture`, `ProposeField`.

### RecordRules, JsonRecovery

`RecordRules` follows one page: `Classify` (the checks of `page-classifier.ts` in their order), `Extract` (map the conditions,
validate, score, ground, derive the cost) and `EditCandidate`, any number of patches. Money is in cents, confidence in
hundredths; the rounding of the code is kept. `JsonRecovery` follows one reply: the phase `reply` finds the document (fence
or first balanced object), `repair` runs the automaton of `repairJsonStrings` one character class at a time.

### PoliteFetch

One job at a time, as the commands fetch: `Begin`, `CheckRobots`, `Throttle` (touch the host or sleep until `wake`), `Wake`,
`InnerFails`/`InnerReads`, `Recheck` of the final url. `weather` is how each `robots.txt` answers; it changes meanwhile.
`Consult` asks for rules that are not cached at once, without the throttle and without a mark on the host, as the code does;
`answered` is history, the hosts whose `robots.txt` was not answered 5xx, which must not be asked again.

### EvidenceStores, DbRetry

`EvidenceStores` has both stores: `BeginSave` validates the capture, `LandPart` and `FailPart` are the parallel writes, `Publish`
puts the metadata conditionally (bucket) or renames the staging directory, `PublishFails` loses the write or its answer,
`Die` ends the process and `LosePart` is a restore that brought back less. `DbRetry` sends one statement per call: `Execute`
is the server, `LoseAnswer`, `NeverReach` and `PoolTimesOut` the network, `TryAgain` and `Violate` the retrier, with
`CommittedEarlier` deciding whether a primary-key violation is the call's own row.

### Settings, Alerts

`Settings`: `QueueBudget` and `ClearQueue` by a person, `Deploy`, and per process `Start`, `ReadQueue`, `DeleteQueue`, `Adopt`,
`Exit`. `Alerts`: `FlagSource` raises before `UpdateSource` writes the row; `BudgetReached`; `Handle` by a person; the listing is
`BeginList`, which takes one page of the newest rows, handled ones included (`Page`), one `ReadStatus` per status, `EndList`. The open
keys among them are what it can show (`OpenOnPage`); `shown` is history, what the last listing showed open, and `steady`, the
open keys on the page whose cause has lasted since the listing began.

### Tables, DealTables, LogTables, AccountTables

The state holds each table twice, as Postgres has it (a set of rows) and as the in-memory double has it (a map or an array
in insertion order). A step of `Next` writes both; `Pg...` and `Mem...` are the statements and queries of the two adapters,
translated separately. A query whose order leaves ties open is the set of answers Postgres may give, and the double's
answer must be one of them. `DealTables` also has the ranking of the feed and its cap. `LogTables` exercises one table per
behaviour (`table`), `AccountTables` users, roles and grants, with the projections of the team view.

## 4. Runs

| Run | Instance | Shows |
|---|---|---|
| `DealReview` | 1 deal, 2 reviewers and a caller without a name, 2 keys, 1 lane, lost acknowledgements, every handler | `TypeOK`; `AuditedDecision` and `HumanEditsAudited`: nobody decides or corrects a deal without a log row under his name, in any interleaving and wherever a handler dies; `EvidenceBacked`; `LifecycleKept` (the refinement, with both reviewers at work and UPDATEs sent twice) |
| `DealQueue` | 3 deals and captures, 2 contents, 1 reviewer, 2 lanes | `NoOfferDropped`; `QueueHasNoTwin`: no content waits twice but for what a lane inserted behind the other's check or a stale write-back returned |
| `DealTerminal` (violated) | 2 reviewers | `TerminalNeverRedecided`: the second decision overwrites the first |
| `MonitorLane` | 1 monitor, 1 crawler, 2 final urls, 2 page changes, 1 fault, reliability fixed | `GoneIsRetired`: a page gone for good loses all published deals of the url its source settles on, although the crawl lane keeps moving the shared schedule |
| `MonitorCaptures` | 2 contents, 2 rows, 1 fault with cron's pass (scene "capture"); 2 overlapping monitor passes, 1 content, 2 page changes (scene "overlap"); reliability 0..1 | `TypeOK`; `ExpiryDebounced`: no expiry without two disappearances in a row on record, but by a pass whose count the other pass has overtaken; `ContentIsCaptured`: content that stays is captured in the end |
| `MonitorBaseline` (violated) | passes started by hand | `NewestIsBaseline`: the baseline of the comparison is the row with the greatest random id |
| `RegistryAudit` | 1 url, 3 ids, 2 reviewers who also register, 1 lane B run, 1 crawl, 1 monitor, seed import | `DecisionAudited`, `CrawledIsApproved`: nothing is active, rejected or crawled without the log row that vouches for it; `RejectionRespected`: a rejection is only undone by the seed list or by who had read before it |
| `RegistryProposals` | 2 urls of 1 domain, 2 overlapping lane B runs, 1 reviewer who also registers, seed import | `KnownIsNotProposed`: no run proposes a domain the registry held when it began to ask, but for sources that have changed their status since |
| `LaneBudget` | 1 command at a time, all lanes, 2 days, ceiling 3, cap 2, calls up to 1, 1 fault; beside it 47 drafts, 22 pages, 3 vocabularies and 5 patches; texts of up to 3 characters in 6 wrappings | `TypeOK`, `RunCostBounded`, `DailyCeiling`, `DailyCapIsHonest`, `DiscoveryChargesAll`, `NoRowDangles`, `RunsEnd`; `CleanIsSound` (an unmarked candidate costs what it says and was read from a whole, quoted page), `CorrectionsAreTraced`, `ReadingIsFaithful`; `RepairIsFaithful` |
| `AccountAdmin` | 2 users, 3 roles, the 2 critical permissions, 2 requests, 1 mint, 1 token, 1 fault, 1 bypass; any request alone, those that make or remove a role or a user of it overlapping, and two that each demote or disable somebody | `AdministrationSurvives`, `TokensFollowUser`, `TokensFollowGrants` |
| `Reference` | 3 deals, 2 sources, 2 rows per log table, 2 users, 2 roles | `DoubleAgrees`: the double answers as Postgres may; `CapIsHarmless`: the cap costs a page only an undecided tie |
| `Operations` | 1 family of 3 tokens and 2 requests; 2 sign-ins; 3 pages of 2 hosts; 2 tasks, 2 proposals, 2 reviewers; 1 bundle in either store; 5 statements; 2 processes in 3 deployments; 1 source, 2 alerts, a page of 1 | `EndedStaysEnded`, `TabsStayIn` (`Sessions`); `LockIsWorthIt` (`Lockout`); `PolitenessKept` (`PoliteFetch`); `WorkIsComplete` (`CaptureDesk`); `EvidenceIsSound`; `RetriesAreHonest`; `QueuedBudgetKept`; `TroubleIsShown` |

The properties of the modules that share a run are conjunctions of named parts, type invariant included, each part with
mutants of its own in `PROJECT.json`:

| Property | Parts |
|---|---|
| `CorrectionsAreTraced` | `CostFollowsPrice` (the ranking cost is the price's, or its override is on the trail), `EditsAreNamed` (no correction loses its mark) |
| `ReadingIsFaithful` | `UnmarkedIsContent` (no sign of a challenge, wall or withdrawn offer is passed over), `ConditionsFiled` (a known condition under its key, an unknown one with one proposal) |
| `RepairIsFaithful` | `MeantIsRead` (the repair gives back what was meant), `CutIsNotCompleted` (a cut-off reply is never completed) |
| `EndedStaysEnded` | `LogoutSticks`, `DisabledStaysOut`: only what overtook the end of a family survives it |
| `TabsStayIn` | `LineageLives` (a family nobody ended has a live token), `RacesForgiven` (only a replay after the grace window ends one) |
| `LockIsWorthIt` | `GuessesBounded`: wrong passwords looked at between two locks |
| `PolitenessKept` | `SpacedPerHost` (pages spaced, an answered `robots.txt` not asked for again), `DisallowedIsNotRead`, `RefusedForAReason` (an outage that is over refuses nothing) |
| `WorkIsComplete` | `DoneTaskYielded`, `CaptureIsBacked`, `PromotedIsMapped` |
| `EvidenceIsSound` | `NoTornBundle`, `SavedIsReadable`, `ServedIsWhole` |
| `RetriesAreHonest` | `NoPhantomSuccess`, `DuplicateIsGenuine`, attempts and repetitions bounded (`RetryTypeOK`) |
| `QueuedBudgetKept` | `NextDeploymentOnly`, `QueuedHasFate` |
| `TroubleIsShown` | `RaisedIsOpen`, `LastingCauseShown` (of the alerts on the page) |
| `DoubleAgrees` | `LookupsAgree`, `ScreensAgree` (`DealTables`), `LedgerAgrees`, `TrailsAgree`, `WorklistsAgree` (`LogTables`), `AccountsAgree` |

The types of `SourceRegistry` and `Accounts` are not checked by a run: `TypeCorrect` proves them for all constants. In the two
MC modules that let several instances share a run, `part` and `scene` never change within a behaviour.

Bounds and why they are enough. Every hazard needs few actors: two readers of one row for a lost check, one lane and one
reviewer for a stale look-up, one pass against one crawl for the shared schedule. Two keys or hashes make "same" and
"different" both possible; three deals let one content leave the queue and come back while another waits; re-keying, which
needs a second key, is in `DealReview` and in the theorems. Two page changes
allow gone, back, gone again, which is what the debounce must tell apart; `Threshold` is the code's own constant. Ceiling 3
with cap 2 and calls of 1 lets the second run of a day be clamped and the third be refused; two days let midnight fall
anywhere, between the check and the start of a run too. Three roles are both system roles and a custom one; with two live tokens instead of one `AccountAdmin` passes
too (10.4 million states), which is why the smaller one is kept. Three tokens let a family be rotated, raced
and replayed; a grace window of one tick with times 0..2 has an instant inside, at and after its edge. Three pages are two of
one host, one of them forbidden, and one of another. The five statements are two inserts that share a natural key, an
upsert, the rotation and a counter. Texts of three characters put a bare quote before, after and between anything, an opening brace included; replies are cut with and without a fence before them. The
drafts are chosen at the boundaries of the rules: 70 and 71 of confidence, one cent over the band, no term and 24 months of a
prepaid price. `MaxFaults`, `MaxFlips`, `MaxVersion`, `MaxTokens`, `MaxBypassed`, `LastDay`,
`MaxLinks`, `MaxNew`, `MaxQueries`, `MaxFeeds`, `LastTick`, `LastInstant`, `LastMoment`, `MaxWeather`, `MaxCandidates`, `MaxQueued`,
`LastDeployment`, `MaxAlerts`, `PageSize`, `MaxDeals`, `MaxRows`, `MaxCount` bound what the code leaves open; each is a constant of its module
and the proofs hold for all their values. `MonitorLane` fixes reliability at 0,
which decides nothing in a pass. A page of one alert with two alerts in all lets an open one fall off it.
`CHECK_DEADLOCK FALSE` stands because ids, page changes, days, versions and the urls to propose run out and every actor may
then be done: such a state is where the instance ends, not one where actors wait for each other (nothing here holds a lock).
That a started pass or run does not get stuck is what the liveness properties say.

Symmetry is used for identifiers only compared for equality, and in no run with a liveness property. In `DealReview`, `LifecycleKept` is
checked under symmetry because both specifications and the mapping treat the permuted identifiers alike and no fairness
is involved.

### Fairness

`SourceMonitor`: `Elapse` (time passes until the source is due), the steps of a pass once started, and its start. A cron
job starts each lane again and again with `concurrencyPolicy: Forbid` (`deploy/k8s/cronjobs.yaml:70-71,103-104`), and a
call inside a pass ends in an answer or a timeout: weak fairness. The start of the monitor is strongly fair, since a crawl
pass may take the source's turn and set the shared schedule forward; that the monitor is never unlucky for ever is what
the two schedules, of three and six hours, justify and weak fairness could not express. In `MonitorCaptures` the same is assumed
of the pass cron starts (`Cron`) in the scene `capture`, and nothing of the scene `overlap`, whose property is about steps. Nothing is assumed of page changes,
reviews or failures, the last being bounded by `MaxFaults`.

`LaneRuns`: weak fairness of each batch's next step, because every call has a timeout. No new command has to start.

## 5. Proofs

All theorems hold for any values of the constants and any number of actors, but for `DayStaysUnderCeiling`, which assumes
that commands do not overlap; the named ASSUMEs of the modules are evaluated by every run.

* `DealLifecycleProofs`. `AuditedDecision` alone is not inductive: a handler that has logged still has to write, so the
  invariant also says what each stage of a request may rely on (`RequestsSound`: an audited request's row is on the log
  under the caller's name and its evidence is stored). `IInv == TypeOK /\ AuditedDecision /\ HumanEditsAudited /\
  EvidenceBacked /\ RequestsSound`. For `NoOfferIsDropped`, `CInv` adds `RowsCovered` (the content of each row has been
  covered) and `LanesCovered` (so has the content of the row a lane found, even if it was rewritten since).
  `PromiseIsKept` is the refinement of `LifecyclePromise`: every step of the handlers, lanes and the monitor is a step of the
  promise or a stutter, for any number of reviewers at work at once and with UPDATEs sent twice. `open` is what carries it:
  the promise keeps, for each reviewer at work, the deal he found in the queue and what he set out to make it, and only
  such an entry lets a status change, so that `IInv`'s `RequestsSound` is all the steps need. What `DealTerminal` refutes, that the
  deal still waits by then, is not promised. `NoTwinsQueue` adds `LanesClear` (nothing untouched and not `doubtful` reports what
  a lane is about to insert, unless the lane was `overtaken`) and `CopiesCurrent` (the copy a
  request holds of such a row has its route and page, or is corrected), for any number of lanes and reviewers.
* `SourceMonitorProofs`. `DInv == TypeOK /\ Decided`: a pass about to expire and not `overtaken` still has two disappearances at
  the head of the log. Any number of monitor passes may overlap; crawl passes write no log.
* `SourceRegistryProofs`. `IInv` adds to `DecisionAudited` and `CrawledIsApproved` the facts `RowsBacked`, `RequestsSound` and
  `PassesSound`: copies of rows that passes and requests hold are as legitimate as stored ones, because the log only grows
  and a registration that meets another id than it logged leaves its mark in `takenOver`.
  `RejectionStands` and `NoKnownIsProposed` rest on `FInv == TypeOK /\ NothingStale`: what a request, a run or a pass has read
  and remembers of a url is still so, unless the url is in its `since`. All actors may overlap, registrations by hand and the
  seed import among them.
* `LaneRunsProofs`. `Accounted` (a batch's inserted rows are closed, but for the current one), `Sound` (cost against cap,
  stage by stage; what discovery billed it has charged), `Headroom` (a clamped cap is what the day had left, whichever day
  the run then starts on; `DailyCapNeverLies` follows for the day the guard looked at, and commands may overlap). `DailyCeiling`
  needs `FutureFree` (nothing is booked on a day to come) and `Placed` (a run fits into its day, a midnight between check
  and start included), for one command at a time.
  `RecordRules` and `JsonRecovery`, which share the run of the lanes, walk over sequences, so their proofs need induction over
  data. The library's induction rules take a predicate as an operator, which no installed prover instantiates; here the
  predicate is a set instead: `LeastOf` (from well-foundedness of `<`) and `Induct` speak of subsets of `Nat`, and a use
  defines the set of the lengths or positions for which the fact holds. From these follow the recursive functions of
  `JsonRecovery` (`Read`, `Scanned`), the fold `Proposals` and the index of the vocabulary.
  - For `RecordRules`, `RulesInv` adds to the type that the outcome is the classification of the page (`Classified`) and that the
    candidate is what `ProcessDeal` makes of draft, page and vocabulary but for the patched fields (`Descends`); the three
    properties follow from it and from what the operators compute: one proposal per unknown condition, a key that bears the
    condition's name, a cost within half a cent of the price.
  - For `JsonRecovery`, `RepairInv` says where the repair stands in what the model meant. `Spelled(text, sent, pos)` gives for each
    character of the text the place its spelling ends in what was sent; `Standing(pos)` then is one of `BeforeText`, `InText`
    (the reader of what has been written so far is inside the string and has read exactly the text up to here), `AfterText` and
    `CutShort`. The unwrapping needs `BodyIsBeginning`: the body under repair is the document or, for a reply that was cut, a
    beginning of it, which rests on where the bracket count of `Scanned` first returns to zero. Two of the proof's cases were
    missing from the instance the run checked, an opening brace in the text and a cut reply that had opened a fence; the run
    has both now.
* `AccountsProofs`. `Planned`: the writes left are a suffix of the handler's plan, so a role change still owes its bump.
  `UserClaims` and `GrantClaims` carry the two token properties over the reads of a mint, for any number of requests.
  `AdminInv`, until a request has outrun another or the team view has overwritten an account: what the guard of a request that
  nobody crossed has listed is still true when it writes, and a demotion, disabling, edit or deletion that the guard passed
  leaves a holder of every critical permission outside what it touches. Requests may overlap in any number and kind.
* `OperationsProofs`. For `CaptureDesk`, `CallSound` follows each call of a reviewer through the writes it has done and still
  owes; for `Settings`, `ProcessSound` says what a process that has read the queued budget may find when it writes. For
  `PoliteFetch`, `MemorySound` ties the remembered hit of a host to the last real one and the cached rules to the hosts that have answered, and `JobSound` what a job may rely on
  after its check, its sleep and its redirect. For `Alerts`, `ListingSound` follows a listing status by status: of
  an open alert on the page, a source that stayed low and of one status is never taken for reliable and is found when its
  status is read, and so it ends up in `shown`.
  For `DbRetry`, the type invariant bounds counters by attempts, and `AnswersAreHonest` rests on what a retried
  insert may rely on: before its first attempt took effect its key is free, because ids are fresh. For `EvidenceStores`,
  `Progress` follows a save stage by stage: bodies land before the metadata may, what is staged is not readable, and a
  bundle no restore has touched keeps what a successful save published. `OnlyWholeIsServed` needs nothing but the check in `get`.
  `RetrierIsHonest` and `EvidenceStaysSound` put the parts together.
  For `Sessions`, `SessionInv` says of every stored token when it may be stamped (`TokenSound`: before its family's end unless
  it overtook it, and, while nobody ended the family, only by rotations no earlier than the first one), of every request
  what it may still rely on after the next step of another (`RequestSound`), and that a family is opened once. Steps that mint
  and steps that end families each have one lemma (`MintKeeps`, `RevokeKeeps`); that races are forgiven follows from the stamps.
  For `Lockout`, `LockoutInv` is about the time after the failure that reached the threshold: `Counted` weighs the guesses made
  with those still open (everybody who neither holds a failure below the threshold nor one that locks, or, once the lock is in
  force, only those past the check) and with the guesses each pending erasure would let in again. No step raises that sum,
  which starts at `MostGuesses`: an erasure pays for what it reopens, and a reader of the lock only closes it.
* `DealTablesProofs` and, built on it, `ReferenceProofs`. `DoubleAgrees` is about what some sixty pairs of queries answer,
  after any sequence of writes. Its ground is a lockstep of the tables, one invariant per module: `DealsInv`, `LogsInv` and
  `AccountsInv` say that as sets the tables and the Maps hold the same rows, and each Map one entry per key, so that a scan
  finds each row once; with them what the writes keep and some reads need (one open alert per key, equal answers of the last
  write, equal permission versions). Where a constraint of Postgres has refused what the double accepts the comparison is
  over, and so is the lockstep. `ReferenceInv` puts the three together. From it each query follows, by what it is made of:
  - sorting. An ORDER BY and an Array.sort are both `Arranged`, which gives each row the place of the number of rows before
    it; for an order that leaves no two rows tied (the last criterion is mostly the id) this is the only such sequence
    (`InPlaceOnce`), so sorting does not depend on where the rows came from (`SortIsArranged`), and rows that come before all
    others are arranged the same without them (`ArrangedHead`). The last is what makes the cap harmless (`CapHolds`):
    without a tie on the primary key across it, whatever was kept ranks before whatever was cut. Where the order leaves ties
    open, the double's page is shown to be one of the pages Postgres may give.
  - loops. The double counts and adds up in one pass over an array, SQL in one expression over a set. `Induct`, as in
    `LaneRunsProofs`, carries a fold over the array along its prefixes (`Upto`) and a sum over a set along its members
    (`Taken`), and the two meet in the set of all rows: counters of the queue, buckets of the cost summary, reviews per
    approver, live tokens, users per role, failures and locks of users.
  - lists of a Map's values, found by a scan: `Found(s, T)` is the sequence of the rows of `T`, each once, so its length is
    their number and its members are the rows a WHERE selects.
  The assumptions are typing of the rows that are written (`DealTablesAssumption`, `LogTablesAssumption`,
  `AccountTablesAssumption`), that seeded roles differ in id and name, and that every name has a place in the alphabet.

The SMT backend of tlapm 1.4.5 is told that whatever has `Len` n has the domain 1..n, which is more than TLA+ says of values
that are not sequences. The proofs were therefore also checked with only the converse (domain 1..n gives `Len` n); two
steps that had rested on the axiom were given the facts they lacked.

### Only model-checked

`GoneIsRetired`, `ContentIsCaptured` and `RunsEnd` are liveness under fairness, which the prover does not handle.
`TerminalNeverRedecided` and `NewestIsBaseline` are statements that the code does not keep (section 7).

## 6. What is not modelled, and why

* Data outside `RecordRules`: prices, texts, names and headers are model values or counts, and the lanes take any outcome of an
  extraction. Inside it, the grounding of a quote is membership, not substring search; locale rules of the price parser,
  the vendor's attributes and the prompts are left out.
* The run rows of plain crawls and of the crawls inside monitor passes: the budget guard sums them and never stops them, so
  `DailyCeiling` speaks of the three lanes the guard serves.
* The settings that are only stored, the delivery of alerts to a webhook, the grammar of `robots.txt`, the choice between
  fetchers, the scores of links and the denylist: each is one pure function or one call at best effort.
* Cryptography, provider SDKs, HTML and feed parsing, HTTP routing, the dashboards, command-line parsing and most of the
  composition root: I/O, formatting or read-only arithmetic, with no state of their own that steps of two actors could meet in.
* Row parsing, migrations and the connection pool of the Postgres adapter (a pool that has no connection to give is
  `PoolTimesOut`).
* Transactions exist in three places only: the claims of a token (two reads, which READ COMMITTED keeps apart, and so does
  `Accounts`), the grants of a role (one step) and the rotation of a refresh token (one step of
  `Sessions`).

## 7. Where the code and its own statements disagree

Two runs show a disagreement as a counterexample; `PROJECT.json` quotes both sides.

1. `DealTerminal`: a decision may land on a deal that another reviewer's decision has made terminal (`review.ts:513`
   against `review.ts:627`).
2. `MonitorBaseline`: "newest first" is by random id (`postgres-db.ts:466` against `ports/repositories.ts:57`).

Reading the code for the models brought up more of the same kind. Where a model contains such a behaviour, the properties
above hold in spite of it or by an exemption they name; only `DailyCeiling` excludes it, in its run and by the assumption of
its theorem (commands that overlap):

* Deals: an approval writes back the row it read, so a correction that committed meanwhile is lost; two lanes that overlap
  can queue the same content twice; editing the route or country changes the deduplication key; an expired deal whose page
  comes back unchanged is not queued again.
* Monitoring: `next_due` is shared by both lanes and either write-back may undo the other's; deals are looked up by the
  resolved url of today, not by the one they were captured under, and stay published when the source has moved on; a page behind a wall counts as a successful crawl
  (`source-policy.ts:96-98` says otherwise); overlapping monitor passes count each other's change rows.
* Registry: a known domain is proposed again when its source changes status between two of the four queries of
  `knownDomains` (`lane-b-support.ts:89` against `lane-b-support.ts:100-102`, "an already-known domain (active provider, pending,
  or disabled) is never re-proposed"); `register` looks a url up, logs and upserts in three statements, so that it may override a decision made in
  between although its guard says "never" (`source-review.ts:111`), and its approval is on the log under an id of its own when
  lane B inserts the url meanwhile, because the upsert keeps the id that is there (`source-review.ts:144`); two reviewers can decide one source both ways; a pass
  writes back the status it read.
* Money: commands that overlap each get the whole headroom of the day; a run clamped before midnight that starts after it is
  closed as daily_budget_cap on a day that may have all its headroom left (`crawl-run.ts:22-31`); ingestion charges nothing for a lead whose extraction
  was rejected or could not be stored, whereas `discover-broad.ts:337-341` says why it must; when the second call of an
  extraction throws, the cost of the first is lost; a killed process leaves its row running at cost 0 and nothing closes it.
* Accounts: two overlapping requests can each demote the administrator the other one counted, and nobody is left; `team.upsert` rewrites role and
  status with neither guard nor bump and knows no custom roles, so that renaming a user of one makes him a reviewer
  (`team.test.ts:53`: "updateProfile changes only the name of an existing member"); a token's grants and `perm_version` are
  read by two statements, so a token may carry old grants under the new version (`manage-roles.ts:51-53`).
* Sessions: `rotate` is marked idempotent although it inserts, so a rotation whose answer was lost may be reported as failed;
  `recordFailedLogin` and `bumpPermVersion` count twice after a lost answer; a failure below the threshold writes null over a
  lock set meanwhile (`authenticate.ts:204`).
* Worklists: two reviewers who complete one task mint two candidates; an ad-hoc task is written as done before its input is
  checked; two promotions into one vocabulary entry lose an alias.
* Rules: when a later vocabulary entry takes over a name of the `intro_period` entry, a condition of that name is filed under
  the later one and no longer marks its deal, whose cost may then be understated; any validation failure already forces a review, so the penalties on confidence never decide it; a condition whose
  name normalises to nothing can never be mapped; the patterns of a blocked page come before those of a withdrawn offer, and a
  404 with a full body is read as an offer; wall signals do not mark a candidate for review. A bare quote before a separator,
  or a brace between bare quotes in a reply wrapped in prose, is misread by the repair and left to the re-ask.
* Fetching: the requests for `robots.txt` are neither throttled nor noted as hits (`polite-fetcher.ts:140-146`), so one may go out
  right before a page and, from a host that answers 5xx, before every page, although `polite-fetcher.ts:38-40` promises
  spacing of the requests to one domain; redirects and retries are not spaced either.
* Settings: a queued budget is adopted by every process of the new deployment that reads it before the first of them deletes
  it; those that start later keep the configuration's; it is lost when it is replaced between a start's read and delete, or when that process dies before it adopts; a blank value
  queues a budget of zero; `settings-catalog.ts:209-211` describes overrides that `getSettings` passes through unfiltered.
* Alerts: an alert is raised before the row of its source is updated, so a listing in between shows it resolved; a listing
  is one page of the newest rows, handled ones included, and a repeat keeps its `created_at`, so an open alert whose cause lasts
  can fall off it (`alerts.ts:41-42`); `open_count` counts the alerts of the page.
* Adapters: the unique index on deduplication key and evidence refuses what the double accepts, and so do all foreign keys
  and unique indices of the account tables; ties (equal timestamps, rows of one source url) are in random-id order in
  Postgres and in insertion order in the double; open field proposals are ordered by count in one and by insertion in the
  other; the double's `roles.update` takes `is_system` from its input, its team view throws on a custom role which Postgres
  shows as a reviewer, and deleting a role leaves its grants.
* Feed: `published-ranking.ts:38-47` says the cap never loses a row that a page could reach; a tie that the cap splits can be
  lost (`CapIsHarmless` excludes exactly that).
* Evidence: an S3 metadata write whose answer was lost is reported as a failure although the bundle is readable.

## 8. Running the checks

`tlc -config <run>.cfg <module>` with the pairs listed under `runs` in `PROJECT.json`; the longest runs (`Reference`,
`Operations`, `LaneBudget`) take about two minutes on two cores, the others less. `tlapm <Module>Proofs.tla` checks
a proof module from nothing in at most four minutes, `DealTablesProofs` in five, `LaneRunsProofs` and `ReferenceProofs` in
about nine.
