# GEO-Tracker: specifications and proofs

GEO-Tracker asks several LLM command line programs the same list of questions
every week, several times each, finds which brands and sources the answers
mention, and shows the shares of each brand.  This directory holds TLA+
specifications of the program, the configurations under which TLC checks them,
and theorems about them that TLAPS proves for every value of the constants.

Contents: [1 Inventory](#1-inventory), [2 Plan](#2-plan),
[3 Modules](#3-modules-and-how-they-correspond-to-the-code),
[4 Runs](#4-runs), [5 Fairness](#5-fairness), [6 Proofs](#6-proofs),
[7 Findings](#7-findings), [8 Not modelled](#8-what-is-not-modelled).
Paths are relative to `src/`; `app/` is `src/backend/app/`.

## 1 Inventory

### Processes and how they interact

Three kinds of process share one PostgreSQL database and nothing else:

- the **web process** (`app/main.py` under gunicorn, `backend/gunicorn.conf.py`):
  several synchronous worker processes, each serving one request at a time and
  killed when a request takes longer than the timeout.  It writes the catalog
  (prompts, brands, providers, repeat count) and creates or resumes execution
  runs; it never calls an LLM;
- the **worker daemon** (`app/worker/daemon.py`), one process restarted by
  systemd after a failure: a main thread that polls the table of runs, and one
  thread pool per provider that executes them;
- the **browser application** (`frontend/js/`), which keeps its own copies of
  what it read and polls the status of a batch.

### Components

| component | state | operations | what is hard | what makes it correct |
|---|---|---|---|---|
| Weekly batch: `services/batch_runner.py`, `cost_estimate.py`, `api/runs.py` | rows of `execution_run` | trigger, resume, status | two requests at once; the estimate and the plan read the catalog at different times; a request killed half way | an answered trigger left no combination without a run; never more runs than the limit; a success is never put back |
| Worker daemon: `worker/daemon.py` | where the main thread is, the queues and threads of the pools, `_last_aggregated_done_count`, `_running` | recover, poll (select, mark, load, submit, aggregate), execute, stop, shutdown | runs handed over in three steps; kill between two commits; failures of a query, a commit, an aggregation; requests between all of them | a run is held by at most one executor; a RUNNING run is held by somebody; a batch is aggregated only at rest; every batch completes and is reported |
| Tables: `models/execution.py`, `models/snapshot.py` | `execution_run`, `mention`, `citation`, `weekly_snapshot` | insert, update, delete and insert | unique keys, rows of one week replaced as a whole | results are final; a snapshot is that of the runs of its week |
| Aggregation: `services/aggregation.py` | rows of `weekly_snapshot` | aggregate a week | which runs count, which scopes are written, zero denominators, rounding | aggregation is a function of the batch; shares lie in 0..100 |
| Prompts: `services/prompt_service.py`, `api/prompts.py`; import: `services/prompt_import_service.py` | `prompt` rows, versions, `is_active` | create, new version, deactivate, deactivate all, import a file | versions that branch; an import that stops half way | one active version per prompt; all or nothing |
| LLM providers: `services/llm_provider_service.py` | `is_active`, `model_string` | update | a provider is toggled while a batch runs | runs are executed by the provider they were made for |
| Batch settings: `services/batch_config_service.py` | `batch_config` | update the repeat count | read twice by one trigger | value in the accepted range |
| Brands: `services/brand_service.py`, `api/brands.py` | `brand`, `brand_alias`, `brand_domain` | create, update (lists replaced) | duplicate names found late; lost updates | names stay unique; an edit loses no other edit |
| CLI clients: `llm_clients/` | a shared working directory, an output file, the attempt number | query with retries, subprocess with timeout | concurrent calls in one directory; classification of errors; output of an earlier attempt | an answer is that of the attempt that succeeded; at most four attempts; no retry of an authentication failure |
| Response parsing: `services/response_parser.py`, `brand_matching.py`, `citation_extraction.py`, `sentiment.py` | none | parse an answer | overlapping aliases, word boundaries, subdomains | one mention per brand, in order of appearance |
| Reports, dashboard, trends, export: `services/report_service.py`, ... | none | queries | zero denominators, weeks without data, earlier prompt versions | sums and ratios agree with the rows |
| Week labels: `services/week_utils.py` | none | label of a date, next, previous, start | 52 or 53 weeks, ISO year | labels are ordered as the weeks are |
| Seeding: `db/seed.py` | catalog rows | insert missing rows | run twice | idempotent |
| Browser: `frontend/js/` | caches, the list a page was rendered from | navigate, poll, edit settings | answers out of order; edits computed from a stale list | the page shows what was asked for last |
| Authentication, application factory, schemas, migrations, markup, deployment | none, or constants | | | |

The hazards are listed one by one, each at its line, in `PROJECT.json`
(`hazards`), with the properties that would catch each going wrong or the
reason why none does.

## 2 Plan

All of it is done except the last item.

1. **The weekly batch**: `Catalog`, `ExecutionRuns`, `BatchRunner`,
   `WorkerDaemon`, composed by `BatchPipeline`; the abstract life cycle of a
   run, `RunLifecycle`, and the proofs that the pipeline and `Measurements`
   implement it.
2. **The CLI calls**: `CliCall`, one query with its retries, several threads
   sharing the working directory, the output files of codex; theorems about the
   files and the retries.
3. **Prompts and imports**: `PromptCatalog`, versions, deactivation, the import
   and its commits; theorems about version chains, imports and immutability.
4. **Brands** on the side of the server: `BrandCatalog`, the transactions of
   `create_brand()` and `update_brand()`; composed with the prompts by
   `Administration`; theorems about unique keys and atomicity.
5. **What is measured and shown**: `ResponseParser`, `Metrics`, `WeekLabels`,
   the tables with their data in `Measurements`, every read-only endpoint in
   `WeeklyViews`; theorems about all of its properties.
6. **The browser**: `Dashboard` (the awaits of the page, the cache of a week, the
   end of a batch), `SettingsDrawer` (several tabs that send whole lists),
   composed by `Browser`; theorems about all of its properties.
7. **Seeding**: `Seeding`, a step of the tables `SettingsDrawer` works on.
8. Left: an abstract specification of an import, seen through the rows of its
   request, that happens at once and may stop.

Runs are shared: a run asks all the questions that one instance can answer.

## 3 Modules and how they correspond to the code

`PROJECT.json` (`map`) gives the lines of every definition.

| module | models | state | 
|---|---|---|
| `Catalog` | what a batch is made from: prompts, providers, repeat count, the clock's week | the catalog tables, as sets; `week` |
| `ExecutionRuns` | the two tables the processes share | `status` (by unique key; `"ABSENT"`: no row), `snapshot` (by week: the scopes present and the runs the rows were computed from) |
| `BatchRunner` | trigger and resume requests | `request`: where the trigger of each gunicorn process is and what it read |
| `WorkerDaemon` | the worker process | `pc` of the main thread, `rows`, `queue`, `thread`, `toCheck`, `current`, `lastDone`, `stopping` |
| `BatchPipeline` | the three together, and the properties | |
| `RunLifecycle` | abstract specification of a run's life | `status`, `executing` |
| `MCBatchPipeline` | constants and symmetry of the runs | |
| `BatchPipelineProofs` | theorems, and the refinement of `RunLifecycle` | |
| `CliCall` | `query()` of the adapters, `run_cli()`, `retry_with_backoff()` | `step`, `attempt`, `said`, `result` of each call; `outFile`, `litter` |
| `MCCliCall`, `CliCallProofs` | constants; theorems | |
| `AdminRequests` | the requests of administrators | |
| `PromptCatalog` | `prompt_service.py`, `prompt_import_service.py`, `api/prompts.py` | `prompt`: the table in the order of ids; `admin`: where each request is |
| `BrandCatalog` | `brand_service.py` (`create_brand`, `update_brand`), `api/brands.py` | `committed`: the rows of three tables; `edit`: the session of each request |
| `Administration` | the two together | |
| `MCAdministration` | constants and symmetry of its runs | |
| `PromptCatalogProofs`, `BrandCatalogProofs`, `AdministrationProofs` | lemmas and theorems | |
| `WeekLabels` | `week_utils.py` over the ISO calendar | none |
| `ResponseParser` | `response_parser.py`, `brand_matching.py`, `citation_extraction.py`, `sentiment.py` | none |
| `Metrics` | `aggregation.calculate_snapshot_metrics()` with its rounding | none |
| `Measurements` | the tables of a week with what is in them: `brand_loader.py`, `aggregation.py`, the data of `batch_runner.py` and `daemon.py` | `brands`, `run` (status, answer, mentions, citations, the brand list it was claimed with), `snapshots`, `activePrompts`, `activeProviders`; history: `edits`, `changedAt` |
| `WeeklyViews` | `dashboard_service.py`, `trend_service.py`, `report_service.py`, `export_service.py`, `get_prompt_detail()`, `get_brand_overview()` | none: operators on the tables |
| `MCMeasurements`, `MeasurementsProofs` | constants; theorems | |
| `CalculationProofs` | lemmas about sums over sets, and about what is found in a text | |
| `Dashboard` | `dashboard.js` with its two panels, `weekData.js`, `main.js` and `router.js`, `pollBatchUntilDone()` of `api.js` | `page`, `inits` and `waiting` (bags of the calls at an await), `fetches` and `cache` (promises), `selected`, `polling` |
| `Seeding` | `db/seed.py` | none: an operator on the tables |
| `SettingsDrawer` | `settings.js` in several tabs, and the endpoints it uses | `db`; `tab`: what each shows and the requests on their way; history: `meant`, `staleLists`, `staleToggle` |
| `Browser` | the two screens and the seeding together | `main` |
| `MCBrowser`, `BrowserProofs` | constants and symmetry; theorems | |

**Atomicity.** One action is what happens between two points at which another
thread or process can observe or change shared state: a query, a commit, or a
hand-over to a queue.  `trigger_batch()` is three actions (`TriggerBatch`: week
label, estimate and limit; `ReadExistingKeys`: the second reading of the
catalog and the existing keys; `EnsureExecutionRuns`: the inserts and the
commit, failed as a whole by the unique constraint).  `poll_once()` is
`SelectPending`, `MarkRunning` (UPDATE and commit), `LoadBrandInfos`, one
`Submit` per run, `SelectCompleted`, one `CheckDoneCount` and at most one
`AggregateBatch` per completed batch.  `_run_single_execution()` is
`BeginExecution` and `EndExecution`: it reads at its beginning, and everything
it writes is committed once, at its end.  `Start` is the constructor and
`recover_stuck_running_jobs()`, which run before the first poll and before any
pool has work.

**Abstractions.** A prompt and a provider are model values.  A CLI call is a
step that succeeds or fails.  The mentions and citations of a run are written in
the transaction that makes it SUCCESS and only there, so SUCCESS stands for
them.  A snapshot is the set of scopes that have a row and the set of runs
counted; the numbers in it are a function of those.  Prompts that the database
already holds when the system starts and that nobody has active take no part in
a batch; the model starts without them.  Submission within one poll is in any
order, since the query has no ORDER BY.

**Faults** are a constant, so that a run says which it allows: `"crash"` (the
worker is killed at any moment; its memory is lost, the tables stay), `"poll"`
(a query or commit of the first half of a poll raises), `"commit"` (the commit
of a result fails), `"aggregate"` (`aggregate_week()` or a query around it
raises).  A request that is killed (`RequestKilled`) is always possible.

**The calls.** In `CliCall` every attempt is `EnsureWorkdirReady` (the directory
is listed), `Popen`, the exit of the program (`ExitOk`, `ExitError`, `Timeout`)
and what `retry_with_backoff()` does with it (`Raise`, within the exit).  The
programs are external: `UseWorkdir` lets one create and remove files in the
shared directory at any time while it runs, `WriteOutput` lets codex write its
output file, and one that is killed leaves what it has written.  The name of an
output file has a fresh uuid and is therefore the call; who wrote the file is
what the model keeps of its text.  The mock mode and the lengths of delays are
left out.  The working directory is inspected before the program starts and not
at the same time, so litter can appear in between.

**The prompts.** A prompt is a record without its text; ids are positions in the
sequence.  A file is a sequence of kinds of rows: blank, not mappable, too long
for its column (the database refuses it when it is inserted), fine; a workbook
that cannot be read behaves as one with a row that cannot be mapped.
`ImportPrompt` is one `create_prompt()`, which commits: other requests come
between any two of them.

**The brands.** The three tables are one set of rows, each with its table, brand,
value and the request that wrote it; a brand is its row in the table `name`.
Lists are sets: one that names a value twice, which the settings page
refuses to send, would end as one that violates a key does (`FlushFails`).  A
transaction is a session that collects changes: what it has not flushed
(`pending`), what it deleted and inserted without committing.  PostgreSQL is
external (`Waits`): at READ COMMITTED, to which nothing in `db/session.py` is an
exception, a statement sees what was committed when it began; a DELETE waits
for a transaction that deletes one of its rows and then skips rows that are
gone; an INSERT waits for a transaction that has written or deleted a row of
the same key; and an insert that refers to a brand and a change of its name
exclude each other.  Cycles of waiting are broken by `Abort`, which is also the
lost connection and the killed process.  `FindRows` and `DeleteRows` are the two
halves of a DELETE: what it found before it had to wait is what it deletes.
Rows of other fields of a brand (`is_own` ...) have no constraints and are left
out.

A request of `Administration` is about prompts or about brands and happens
once; when all have been answered the system stands still (`AllAnswered`).

**What is measured.** A text is a sequence of items: a word carries what the
matching looks at (its letters without case, whether it is written with
capitals, its script, its length, whether it is a sentiment keyword), a URL the
labels of its host.  Two words without a space item between them are glued, which
is where word boundaries matter.  An alias is the sequence of its words, and one
without a letter or digit is the empty sequence, which the parser refuses.  A
`Decimal` is the number of its thousandths, rounded as `ROUND_HALF_UP` does.  A
date is a number of days since the Monday that began the year 1, so that ISO
years, with 52 or 53 weeks, come out of the Gregorian calendar and are not
assumed.  A poll, an answer and an aggregation are one step each in
`Measurements`: how they interleave inside is the subject of `WorkerDaemon`, and
what stays between them, that a run is parsed with the brands of the poll that
claimed it, is kept (`list`).  The endpoints are operators on the tables, and the
properties relate what several of them show, in states in which runs, brands and
snapshots are of different ages.

**The browser.** A handler runs up to its next `await` in one go.  `Dashboard` keeps
a record of each call that waits: with the elements of the page it looked up
(`skeleton`: when the page was built anew in between, what it writes is not
seen), and with the promise it waits for; all calls that wait for one promise go
on in the step that settles it.  The calls are bags (`inits`, `waiting`): a second
click on a brand is a second request, whose answer is written over what is there
when it comes, and a second `initDashboard()` that finds the page built reuses its
elements, so that both load its panels.  `PanelsMatchSelection` says what is left of
"the panel shows the selected brand" then: always for the keywords, which take the
selected brand when the mentions arrive, and for the channels if no answer about
another brand was awaited for the panel when the brand was selected, whether or not
that brand had been shown already (`rushed`).  `loadWeekMentions()` caches the promise, not the
result.  A rejected one stays in the cache, so the "try again" of the panel shows
the same error and sends nothing until something empties the cache
(`StartPanels`).  In `SettingsDrawer` a click sends a request computed from what
the tab shows; the server handles requests in any order and in one step
(`BrandCatalog` has the steps of its transactions), a connection may fail before
or after (`Lose`), and answers arrive in any order.  Requests of a tab are told apart
by their kind and the click they come from, the loads after a change by the click
of that change.  While a change travels the tab
can be clicked on: nothing in `settings.js` disables the buttons.  A click is stale if
the list it was made on, or the channels, were not up to date or had a change under
way; `staleLists` and `staleToggle` remember which ones that happened to.  The seeding is
one transaction that fails as a whole if two prompts have the text of a keyword
or a domain belongs to another brand (`SeedFails`).

## 4 Runs

| run | instance | checks | shows |
|---|---|---|---|
| `Claiming` | one prompt and provider, two weeks, a pool of two threads, resume, one kill, failing aggregations | `OneHolder`, `RunningIsHeld`, `AggregatesSettledBatches`, `PendingRunsFinish` | runs are handed from the table to the main thread, a queue and a thread without being lost or doubled, and are finished |
| `Faulty` | a provider with and one without executor, toggled; all four faults, two kills, resume | `HeldIsRunning`, `ImplementsLifecycle` | whatever fails, no result is overwritten and no success executed again |
| `Triggers` | two web processes, prompts created and deactivated, an OWN_BRAND prompt, one kill, failing aggregations | `AnsweredTriggerIsComplete`, `SkippedBatchIsFresh` | concurrent triggers lose no combination; a batch that grows is aggregated again |
| `Progress` | two providers with a thread each, the repeat count raised and lowered, one kill; fairness | `TypeOK`, `TriggeredBatchCompletes`, `CompletedBatchIsReported` | batches complete and get the snapshot of their successes |
| `Calls` | three concurrent calls, two of them codex, two attempts each; fairness | `CallTypeOK`, `AnswerIsOwn`, `EndedLeavesNoFile`, `LoginIsNotRetried`, `GivesUpAfterAllAttempts`, `EveryCallEnds` | concurrent calls do not mix up answers or leave output files; retries follow the kind of failure; every call ends |
| `Administration` | three requests, three files, three brands, eight edits | `AdminTypeOK`, `RefusedImportCreatesNothing`, `AnsweredImportIsComplete`, `VersionsCountTheChain`, `NamesAndDomainsAreUnique`, `RefusedEditLeavesNothing`, `PromptsAreImmutable`, `EditChangesWhatItLists` | imports are complete or refused, version chains stay sound, overlapping edits keep keys unique and leave nothing when they fail |
| `Measurements` | two weeks (53 of 2026 and 1 of 2027), two questions, one of them about the own brand, two providers, three brands, two orders of loading them, one edit of a brand, question or provider | `MeasurementTypeOK`, `MissedOnlyIfEditedSince`, `OrderIsARanking`, `ScopesAddUp`, `WholeIsBetweenParts`, `EveryAnswerIsCountedOnce`, `UnexposedMeansNoShare`, `DeltaMatchesTrends`, `ShareIsEarned`, `TrendsShowTheirWeeks` | what is stored of an answer is what the detail view finds in it; shares, ranks and sentiments of a snapshot are consistent; snapshot, report, dashboard, trends, export and channels agree where they should |
| `Browser` | two tabs, one drawer with lists of two brands and two channels each, or one with the dashboard; a seeding; three clicks, three requests for mentions, one change of the mentions | `BrowserTypeOK`, `CarefulClicksCount`, `SeedingIsIdempotent`, `FreshAfterBatch`, `PanelsMatchSelection` | a list is what was clicked on it whatever is done to others from old views, until it is clicked on an old view itself; the dashboard shows the selected brand and nothing read before the batch ended |
| `ResumeStale`, `CommitFails`, `ScopeLost`, `OverlappingEdits` | the smallest instances that show it | one property each | section 7 |

**Bounds.** `NumWeeks`, `MaxRepeat`, `MaxCrashes` and the sets of prompts,
providers and web processes bound an instance; queues are not bounded (a run is
queued once).  Two runs are enough for one of them to be queued while the other
executes, for a batch to be extended while it executes, and for two batches to
be completed in one poll; two web processes are enough for a conflict on a key;
one kill is enough to lose every holder at every point of a poll, a second one
(`Faulty`) to be killed during the recovery's consequences.  The safety
properties are proved for every instance (section 6).

Two codex calls and one other are enough for files to be mixed up and for one
call's litter to stop another; two attempts for a retry, the last attempt and
text left by an earlier one (the code has four; the theorems hold for any
number).  Three requests are the three synchronous processes of gunicorn: one
can import while a second creates and a third deactivates, and two transactions
can wait for each other while a third commits.  The files have a blank row
before a fine one, a row that is refused after one that is not, and one that
fails half way; the edits are the two the settings page makes (one list), edits
of several fields, a name that is taken, a name that another edit takes at the
same time, a brand that is created meanwhile.

The answers of `Measurements` are two for the market question and one for the
other; between them they have a brand named twice, two brands found at one place
(a shared alias), a short name in small letters that is not that brand, a name
glued to another, and a name that is only in a URL, of a subdomain that belongs to
another brand.  The edit adds a brand, adds an alias that changes what is found in
answers already stored, adds one that cannot be searched for, retires a question,
or switches a provider; one is enough for the tables to be of two ages, and runs
can fail, be resumed and be aggregated in between without a bound.
`TrendsShowTheirWeeks` asks for trends on New Year's Day of 2027, which is in week 53
of 2026, and on the Sunday of week 2, when its three points are on both sides of the
boundary; the theorem is for any day.  A share is zero although somebody was
mentioned only if that is one mention of more than 200000 (`MostShown`), which the
properties except and the instance never reaches; without the exception they could
not be proved.

`Browser` takes the initial states of two kinds to keep the product of the two
screens small (`main`): the dashboard of one tab is used, and of the drawers only
the form for keywords, which empties its cache; or the drawers of all tabs are
used.  `CanClick` bounds the clicks, on any view, to three.  Two tabs and three
clicks are enough
for a click to be computed while another's change or a seeding is under way, for a
stale click on one list to meet a careful one on another, and for a brand to be asked
for twice before another is selected; three
requests for mentions for one that is overtaken by a reload after a batch and one
that failed.  The theorems hold without these bounds on numbers.

`Measurements` and `Browser` may stop (`CHECK_DEADLOCK FALSE`): administrators
need not click, and the bounds on edits and clicks end them.  No other run stops:
the loop of the worker goes on, a thread whose call has ended goes
on with its next job (`AllEnded`), and requests may stop coming (`AllAnswered`);
deadlock is checked there, so a transaction that nobody can end, or a call
that has no next step, would be found.

## 5 Fairness

`FairSpec` adds to `Spec`:

- weak fairness of the main thread (`PollStep`, `Shutdown`, `Exit`): its loop
  sleeps and polls, catches every exception and waits for nobody, except
  `shutdown()`, which waits for the pools (`Exit` is enabled only then);
- weak fairness of each pool thread: `ThreadPoolExecutor` gives waiting work to
  an idle thread, and every CLI call ends, by itself or by the timeout of its
  subprocess;
- weak fairness of `Start` after a kill (`Restart=on-failure`), unless the
  worker was being stopped.

`CallFairSpec` has weak fairness of each call's thread: it is run by the
operating system, its sleeps end, and a program that hangs is killed after
`CLI_TIMEOUT_SEC`, so the step that ends an attempt is `Timeout` at the
latest.  The programs' own steps are not fair.

Nothing else is fair: nobody has to send a request, stop the worker or start it
again, and the clock may stand still.  The liveness properties therefore except
the states in which the worker is `Stopped`.  A fault is never fair either, but
a run that allows `"aggregate"` allows it every time, which is why `Progress`
does not.  Where `"commit"` is allowed `TriggeredBatchCompletes` fails
(section 7): one failure is enough.

## 6 Proofs

TLAPS proves, from the assumptions on the constants alone (`CatalogAssumption`,
`RunnerAssumption`, `WorkerAssumption`):

| theorem | says |
|---|---|
| `TypeCorrect` | `Spec => []TypeOK` |
| `RunsAreHeldOnce` | `Spec => [](OneHolder /\ HeldIsRunning)`, under all faults |
| `SettledBatches` | `Spec => []AggregatesSettledBatches` |
| `RunningRunsAreHeld` | `Spec => []RunningIsHeld`, if every provider has an executor and neither `"poll"` nor `"commit"` is among the faults |
| `TriggersAreComplete` | `Spec => []AnsweredTriggerIsComplete` |
| `SkippedBatchesAreFresh` | `Spec => []SkippedBatchIsFresh`, if nothing is resumed |
| `PipelineImplementsLifecycle` | `Spec => ImplementsLifecycle` |
| `RunsMoveLegally` | of every step: which changes of status it may make, and with which runs held |

**The argument.** `OneHolder` is not inductive: that `Submit` does not double a
run rests on the main thread's rows being disjoint from the queues, which
`MarkRunning` can only establish if the selected rows were PENDING and no
holder has a PENDING run.  `HoldingInv` in `BatchPipelineProofs` therefore joins
`OneHolder` and `HeldIsRunning` with `PhaseOK` (what the main thread's place
says of its rows: PENDING while it is about to mark them, none outside the
first half of a poll, nothing held while the worker is down or stopped) and
`JobsMatchPool` (a queue and a thread hold runs of their own provider, which is
what keeps two pools apart).  `HoldingStep` proves it inductive, one step per
action.

`SettledBatches` and `RunningRunsAreHeld` are inductive given `HoldingInv`:
only `MarkRunning` makes runs RUNNING, and the main thread is not aggregating
while it does; a RUNNING run loses its holder only in `Crash`, which brings the
worker down, and in the faults the second theorem excludes.
`TriggersAreComplete` needs `PlanCovers`: in a request that has read the keys,
what it wants and will not insert already has a row; rows are never deleted
(`RowsStay`).

`SkippedBatchesAreFresh` needs `CacheOK`: a cached count is never larger than that of
now, where they are equal the snapshot is that of the successes of now, and the count
about to be cached is that of now, although it was read a step earlier.  The last part
rests on `AggregatesSettledBatches`; the others on `CountTellsChange`: a run that has
finished stays as it is, since a thread only ends runs that are RUNNING, so that the
set of finished runs either stays or grows.  Resume breaks exactly that, which is what
`ResumeStale` shows.

`PipelineImplementsLifecycle` maps `executing` to `Held`.  The mapped steps:
`EnsureExecutionRuns` creates, `MarkRunning` hands out, `EndExecution` finishes
(or loses, when the commit fails), `Start` puts back, `ResumeBatch` retries,
`Crash`, `PollAborts` and the unknown provider of `Submit` lose; everything else
stutters.  That `Start` is a `PutBack` rests on `PhaseOK` (nothing is held), that
`EndExecution` is a `Finish` on `HeldIsRunning`.  `RunsMoveLegally` reads off the steps of
`RunLifecycle` what that means for one run: success is final, a result is stored only
for a run that is held, RUNNING is put back only when nothing is held.

From `CallAssumption`:

| theorem | says |
|---|---|
| `CallTypeCorrect` | `CallSpec => []CallTypeOK`: at most `MaxAttempts` attempts |
| `OutputFilesAreSeparate` | `CallSpec => [](AnswerIsOwn /\ EndedLeavesNoFile)` |
| `RetriesAreRight` | `CallSpec => [](LoginIsNotRetried /\ GivesUpAfterAllAttempts)` |

`CallInv` adds to the properties what a call's place says of its attempts
(`AttemptsLeft`: one is left where another may follow), of its file (`OwnFiles`:
nobody else has written it, and it is gone once the call has ended) and of the
output of its last attempt (`LoginIsLast`, `ExhaustedIsLast`: an attempt that
said a login is missing, or that was the last, is followed by no other).

From `RequestAssumption`, `PromptAssumption` and `BrandAssumption`, for files of
any length and any number of requests:

| theorem | says |
|---|---|
| `AdminTypeCorrect` | `AdminSpec => []AdminTypeOK` |
| `VersionsAreRight` | `AdminSpec => []VersionsCountTheChain` |
| `ImportsAreWhole` | `AdminSpec => [](RefusedImportCreatesNothing /\ AnsweredImportIsComplete)` |
| `PromptsStay` | `AdminSpec => PromptsAreImmutable` |
| `EditsAreTransactions` | `AdminSpec => [](NamesAndDomainsAreUnique /\ RefusedEditLeavesNothing)` |
| `EditsAreLocal` | `AdminSpec => EditChangesWhatItLists` |

`PromptInv`: that an answered import is complete is not inductive; while it runs,
the prompts of its request are those of the rows before the one it is at, and of
the first phrasing of that row if it is at the second (`ImportProgress`).  The
row after a blank one is defined by `CHOOSE` (`RowFrom`); that it exists is the
one place that needs induction, used as the least element of a set of natural
numbers (`LeastElement`).

`BrandInv`: that committed keys are unique after a commit needs that each open
transaction would commit without a clash on its own, and that no two open ones
touch.  `SessionOK` says the first: what a transaction sees of the tables is
distinct, it deletes committed rows of its brand only, its new name replaces the
old one (`NameReplaced`), a list it was given is flushed or still to be
(`ListsOK`), and its brand exists if it is an update (`KindOK`).  `Apart` says
the second; it is what waiting for locks gives.  The step that needs thought is
a flush: a key it inserts might be that of a row which another transaction has
deleted (then it waits), or which another one has inserted (then it waits), and
a key it deletes cannot be one another transaction has inserted
(`InsertedKeysAreNew`).  Two transactions that name the same brand are excluded
by the row they both replace or, for two new brands, by their ids.

From `SeedAssumption` (the lists of the file belong to its brands, and it
activates some provider), `DrawerAssumption` (the tables start with existing
brands, no shared domain and an active channel) and `DashboardAssumption`:

| theorem | says |
|---|---|
| `BrowserTypeCorrect` | `Spec => []BrowserTypeOK` |
| `DashboardIsFresh` | `Spec => []FreshAfterBatch` |
| `PanelsAreConsistent` | `Spec => []PanelsMatchSelection` |
| `CarefulClicksAreSafe` | `Spec => []CarefulClicksCount` |
| `SeedingTwice` | `Spec => []SeedingIsIdempotent` |

`BrowserInv` is the conjunction of an invariant of each screen, and each screen's
steps leave the other's alone.  `DashInv`: that the keywords shown are not older
than the last batch rests on the cached promise, and every promise a call on the
page waits for, being one that was created after it (the end of a batch empties the
cache and builds the page anew, so older calls hold elements that are gone).
`PanelsMatchSelection` needs that calls for the panel on the page are about the
selected brand unless `rushed` (`OverviewCallOK`), which new elements make true again:
no older call holds them.
`DrawerInv` speaks of each list by itself (`ListCareful`): as long as no click on it
was stale, at most one change of it has not been handled by the server, and that was
computed from what the table holds now.  Handling it therefore does to the list what
the click meant, and handling a change of another list, stale or not, does nothing
to it (`ReplacedValues`, `ToggledRows`).  Likewise for the channels
(`ChannelsCareful`): the refusal to switch off the last active one, taken from the
screen, is right for the table.  What a list becomes once it was clicked on an old
view, and whether a channel is active once one was switched on an old view, the
theorem leaves open: two such clicks can lose one, or switch off the last two
channels.

From `DaysAssumption` (the dates have two weeks before them), `TablesAssumption` (the
tables are finite, `None` is no value in them, and the brands are first as they may
be given), `OrdersAssumption` (a SELECT returns each brand once), `AnswersAssumption`
(an answer is a finite text with a finite list of URLs, a keyword has one tone at
most) and `WeeksAssumption` (a week is given by its label):

| theorem | says |
|---|---|
| `WeeksFollowEachOther` | labels of weeks follow each other, for any set of days |
| `TrendsAreRight` | `Spec => []TrendsShowTheirWeeks`, for any set of days |
| `MeasurementsImplementLifecycle` | `Spec => Lifecycle!Spec`: the steps of `Measurements` are steps of `RunLifecycle` too |
| `MeasurementTypes` | `Spec => []MeasurementTypeOK` |
| `OrdersAreRankings` | `Spec => []OrderIsARanking`, for any texts, brands and terms |
| `OnlyEditsAreMissed` | `Spec => []MissedOnlyIfEditedSince` |
| `AnswersAreCountedOnce` | `Spec => []EveryAnswerIsCountedOnce` |
| `SnapshotsAddUp` | `Spec => []ScopesAddUp`, for any number of brands, mentions and citations |
| `SharesLieBetween` | `Spec => []WholeIsBetweenParts`, for any number of providers |
| `DeltaIsRight` | `Spec => []DeltaMatchesTrends` |
| `UnexposedIsShareless` | `Spec => []UnexposedMeansNoShare` |
| `SharesAreEarned` | `Spec => []ShareIsEarned` |

*Weeks.* The ISO year of a day is defined by `CHOOSE`; that there is exactly one rests
on `FirstMonday` growing by 364 or 371 days a year and on the least year whose first
Monday is later.  `TrendsAreRight` adds that an aggregation deletes the rows of a
week before it inserts some with the same keys (`OneRowPerKey`).

*Texts.* What `FindAllAliasMatches` returns is given by a set of matches and an order
on it (`Sorted`), and the first mention of each brand by the places it is at
(`Subsequence`).  `SortedLists` shows, by induction on the number of elements, that
`Sorted` lists every element of a finite set once and in order;
`MentionsAreARanking` concludes what `ParseResponse` returns for any text and any
list of brands with distinct names: it names who is found, once each, and nobody
who is found earlier comes later.

*Stored answers.* The inductive invariant is `BrandsOK /\ RunsOK`.  That the mentions
of an answer name the brands found in it is not inductive: it speaks of the brands of
now, and a run is parsed with those of the poll that claimed it.  `RowOK` therefore
says of every row which list it holds or was parsed with, and `ListIsAsOf` that this
list has, of all brands not edited since its poll, the terms they have now, and all of
those brands.  A poll establishes it for the brands of now (`LoadedListIsAsOfNow`),
an edit excepts the brand it changes (`EditKeepsLists`), an execution parses with the
list held (`ExecutedIsOK`), a resume queues only runs that failed, which have no
mentions.  `OrdersAreRankings` and `OnlyEditsAreMissed` follow, since on the brands they
speak of, the list and the table agree.

*One life cycle.* `Measurements` makes one step of what the pipeline does in many: a
poll, an answer, a resume.  `MeasurementsImplementLifecycle` shows that this
simplification stays within what the pipeline promises: each step changes the statuses
of a set of runs from one value to another (`StepsMoveRuns`), and the runs of the
measured week that change make a `Create`, `HandOut`, `Finish` or `Retry` of
`RunLifecycle`, `executing` being the runs that are running.  The runs of earlier weeks
start with their results and are left out of the mapping.

*Numbers.* Induction over a finite set is available in first-order form: a set of
subsets that contains every subset whose proper subsets it contains, contains all of
them (`SubsetsByInduction`).  From it come the facts about sums that the proofs cite:
a sum does not depend on what is added last (`SumOfElement`, from
`MapThenFoldSet` by way of `AdderExists`), is monotonic, commutes with sums and
multiples, is the same under other names (`SumRenamed`), and counts what is split into
disjoint sets (`SumOfCardinalities`).  `SovIsRounded` says what `ROUND_HALF_UP` gives
for a share: the nearest thousandth.  `SnapshotsAddUp` adds the deviations up,
`SizesAddUp` being that the mentions of a scope are those of its brands; citations of
nobody's domain count for the whole only, so that their shares are bounded from above
(`CitationSharesFit`).
`SharesLieBetween` splits runs and mentions by provider (`IsSplit`); if the share at
every provider were larger than the whole one, the sum of the mentions of the brand
would be too large for it (`SomeShareIsLow`), and likewise for smaller.  It needs that
a brand is mentioned once in an answer (`OneMentionPerBrand`), since mentions are
counted as a set.  `UnexposedIsShareless` and `SharesAreEarned` need that a share is
shown exactly if there is a mention (`Shown`, up to `MostShown`), that a fresh
snapshot has one row per brand and scope (`FreshRow`), and, for the own brands
together, that a sum of natural numbers is zero only if each is
(`OwnShareIsShared`).  `SharesAreEarned` maps the answers about the own brands that
name a brand one to one to its mentions in them (`AnswersAreMentions`).
`AnswersAreCountedOnce` divides the successful runs into those counted and those
listed, which are mapped one to one to the rows of the report: the type of a question
is `None` for questions from the Settings page, and both sides of the division must
treat it alike.

**Only model-checked.** The liveness properties (`PendingRunsFinish`,
`TriggeredBatchCompletes`, `CompletedBatchIsReported`, `EveryCallEnds`): the prover does
not handle fairness.  Every other property of the passing runs is proved.

## 7 Findings

Each is a run that TLC finds violated; `PROJECT.json` (`findings`) quotes the
sentence of the repository it contradicts.

- `ResumeStale`: success plus failed is the signature by which the worker
  decides whether a batch has changed.  A FAILED run that is resumed and
  succeeds leaves the sum as it was, so the snapshot stays without it until the
  worker restarts.
- `CommitFails`: the commit of a result stands outside the `except`; when it
  fails, the run stays RUNNING and its batch incomplete until the worker
  restarts.
- `ScopeLost`: aggregating again replaces the rows of a week by those of the
  providers active now; rows of a provider deactivated since are lost, and every
  restart aggregates every batch again.
- `OverlappingEdits`: of two overlapping updates of one list the second DELETE has
  taken its snapshot before the first commits and does not see the rows that one
  inserts (`FindRows`); the brand ends with both lists, although a list that is given
  replaces what was there.  `EditChangesWhatItLists` is what holds: the list is
  stored, and nothing else is touched.

More behaviours are in the models without a run of their own.

- A keyword of the file that is there can be added in the form as well;
  `scalar_one_or_none()` (`seed.py:185`) then refuses every seeding (`SeedFails`),
  which is said to be safe to repeat (`seed.py:5-6`).  `SeedingIsIdempotent` is what
  holds: a seeding that works, works again at once.
- The channels that are active are counted on the screen, and the buttons stay
  usable while a request travels; switching off the last two in quick succession, or
  in two tabs, leaves none (`ToggleChannel`, `Handle`), although the message of the
  refusal says that one must stay active (`settings.js:298`).
  `CarefulClicksCount` is what holds: it takes a channel switched on an old view.
- Two clicks on an old view of the same list lose one of them (`Replaced`).
- Runs of questions about the own brand are left out of every snapshot
  (`IsMarketQuestion`), which `docs/metrics.md:14` and `:25` do not say although the
  module takes that document for its reference; the comment at
  `aggregation.py:93-95` says it is meant.
- Runs of an active provider without an executor are committed as RUNNING and then
  only logged (`Submit`), and a failure of `load_brand_infos()` after the commit does
  the same to all runs of a poll; their batch completes only after the worker
  restarts, if at all.
- The limit of a batch is compared with an estimate that is read before the catalog
  the runs are created from (`TriggerBatch`, `ReadExistingKeys`).

## 8 What is not modelled

- **Of the browser**: the lists of keywords and brands, the prompt detail and the
  reports tab load once and render what arrives; the last answer to arrive is
  shown, and nothing in the repository says what should be.  The reports tab is
  not loaded again after a batch.  Also left out are the charts, the status banner
  of a batch except for its button, the page of a database without any data, and
  the markup.  One resume of a tab is polled at a time.
- **Of the server**: authentication (one comparison of a header), the application
  factory and the schemas (no state), migrations (run by hand before the processes
  start), the logging and the deployment scripts beyond what fairness uses of them.
- **Of the texts**: wording of prompts, answers and files beyond what the matching
  looks at, the evidence stored with a sentiment, columns that are only copied, the
  order of rows in a list; the mock mode of the CLI clients and the lengths of
  their delays.
- Several worker processes at once: the deployment excludes them, and the code
  says it is not made for them.

`PROJECT.json` (`components`) gives the status of each component.
