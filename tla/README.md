# wiseorder in TLA+

A verification project for the wiseorder runtime: one orchestrator process (or
several) that watches git repositories, queues a job per commit in Redis, runs
each job through an LLM pipeline that writes Postgres and a vector store, and
asks a human for approval. The modules here model what can be checked of it;
TLC checks them on small instances and TLAPS proves the main invariants for
every value of the constants.

## 1. Inventory

| component | source | state | operations | what makes it correct |
|---|---|---|---|---|
| Redis queues | `core/queues/redis_queue.py` | lists HIGH, NORMAL, FAILED; `attempt` of a job | `enqueue`, `dequeue`, `fail` | no job is copied or dropped; a dead letter stays dead |
| Idempotency guard | `core/queues/dedup.py` | one expiring key per (repo, sha): `PENDING` or a workflow id | `acquire`, `attach_workflow_id`, `release` | one win per TTL; the id is of that commit; a crashed claimant blocks nobody for ever |
| Postgres rows | `core/memory/models.py`, `db.py` | Workflow, Task, Memory, Approval | one `session_scope` per helper | a status moves once; an audit trail only grows; an ended row has no running task |
| Commit pipeline | `workflows/commit_pipeline.py` | the await a run is at, its step and row | four steps, `_create_task` ... `_fail_workflow` | completed means complete; approval comes last; one row per claim |
| Orchestrator | `core/orchestrator/main.py` | processes, workers, the reaper's selection | `start`, `reap_orphan_workflows`, `_worker`, `_run_job`, `stop`, `enqueue_manual` | a stop loses nothing, a crash only what was in hand; every job settles |
| Event watcher | `core/events/watcher.py` | `_last_sha`, the loop's callbacks | `on_any_event`, `_reconcile_after_start`, `_emit_commit` | the commit HEAD rests at gets a job |
| Daily summary | `workflows/daily_summary.py` | Memory rows with a date, timers, statistics of a run | `schedule_daily_summary`, `run_daily_summary`, `_gather_stats`, `_format_summary` | one row per UTC date; no day is missed; a row is counted once, up to the lateness of the timers; trouble is said |
| Demo forge worker | `workflows/demo_forge.py` | rows, one output directory per scenario, children of killed makes | `run_demo_forge_request` | a manifest hashes the run's own files; completed means complete; a row is closed once |
| LLM agents | `agents/` | none across calls | `summarize`, `draft`, `_llm_call` | bounded retries in bounded time |
| Approval gateway | `core/approvals/gateway.py` | Approval rows, `approvals.jsonl`, posts to webhooks | `send`, `decide` | what is announced can be decided; `delivered_via` is true; a decision is not undone |
| HTTP API | `api/server.py` | none of its own | `POST /trigger`, `/summary/run-now`, `/approvals/{id}/decide`, `GET /watchers` | no decision without the token, if one is set or the API is remote |
| CI watcher | `core/watchers/ci_watcher.py` | newest checks of each repository | `_check_all`, `_check_repo`, `_detect_flaky_workflows` | flaky is what it says; every repository is polled |
| Integrity watcher | `core/watchers/integrity_watcher.py` | newest checks, `last_head` | `_check_once`, `_verify_once` | the dashboard shows the newest check; a lasting divergence surfaces |
| Vector store | `core/memory/vector.py` | documents by id | `upsert`, `query` | an `embedding_id` names a document |

How they interact. The watcher's dispatcher thread hands commits to the event
loop, which pushes NORMAL jobs; the API pushes HIGH ones. Workers pop jobs and
call the handler. The commit pipeline claims the commit in Redis, inserts a row
in Postgres, attaches its id to the claim, makes each later step with its own
sessions, and at the end has the gateway insert a card, append it to a file and
post it to webhooks, while operators may already decide it through the API. A
demo request drives `make` in another checkout and ends with a card as well.
The reaper of a starting process writes the same rows. Two polling tasks and
the scheduler of the daily summary share the loop with the workers, and `stop`
awaits all of them one after the other.

Nothing but Redis and Postgres is shared between processes, and neither knows
of the other: what is hard here is every await between a read and a write, the
time to live of a claim, a crash between two steps, a call that takes effect
and loses its reply, a child that outlives the make that was killed, and an
exception raised where an exception is handled, or in a task nobody awaits.
`PROJECT.json` lists these hazards line by line.

## 2. Modules

```
Domain ── DedupStore ──┬─ Dedup ── MCDedup, DedupProofs
   │                   │
   └── WorkflowStore ──┼─ CommitPipeline ── Orchestrator ── MCOrchestrator,
          RedisQueue ──┘                        ┊            OrchestratorProofs ── LedgerProofs
                                    WorkflowLedger  (ImplementsLedger)
LlmCall ── ApprovalGateway ── Cards ── MCCards, CardsProofs
DailySummary ── DailyReport ── MCDailyReport, DailyReportProofs
IntegrityWatcher ──┬── Watchers ── MCWatchers, WatchersProofs
CIWatcher ─────────┘
EventWatcher ── MCEventWatcher, EventWatcherProofs
DemoForge ── MCDemoForge, DemoForgeProofs
```

**RedisQueue, DedupStore, WorkflowStore** hold the three stores and the
operations the code performs on them, as action operators that other modules
conjoin. A Redis command is atomic; a `session_scope` block commits or rolls
back as a whole, so a helper of the pipeline is one write. A job is a model
value with a `(repo, sha)` and a handler or none; a claim is `NoClaim`,
`PENDING` or a row's id; time is a tick that every key and every running row
loses or gains.

**CommitPipeline** is `run_commit_pipeline` with one action per awaited call.
Between two awaits the event loop runs nothing else, so an action is as large
as the code between them. `pc[w]` is the call worker `w` makes next. Each call
may succeed, raise without effect (`RedisError`, `DbError`, `LlmError`) or take
effect and lose its reply (`reply = "lost"`), and `Raised(call)` says where the
try blocks send the exception: into the except block of the step
(`fail_task`), or out of the pipeline (`fail_job`). `Index` joins the upsert
and the UPDATE of step 3, because the only thing the code does with either
exception is to swallow it: `written` says how many of the two took effect.

**Orchestrator** puts workers into processes. `Start` is the pings and the
reaper's SELECT, which also reads the rows' logs (`seen`); `Boot` is its commit,
which writes those logs back with one entry more, and the start of workers,
watcher and API; between them other processes run. `Stop`, `Exit` and
`StopRaises` are `stop`; `Crash` is a kill. A `demo_request` is one long call
here (`DemoReturns`, `DemoRaises`). `fate`, `answer`, `winners` and `current`
are history variables: what became of a job, what a skip returned, and which
wins and rows belong to claims that have not expired since.

**WorkflowLedger** is what the dashboard's reader is promised of the Postgres
rows, without workers, queues, claims, tasks or failing calls: a row is begun,
notes its milestones in order, is saved, asks for approval, and ends once; its
trail only grows; a row is interrupted only when nobody works on it.
`ImplementsLedger` is `Orchestrator` under the mapping in which a row is `held`
while some worker has its id: the audit trail is then the only thing that
remains of the pipeline's position. It is true of one process and any faults,
of several as long as runs end before a reaper takes them for orphans, and
false of several otherwise (run `two_reapers`).

**Dedup** is the guard alone with callers that attach late or vanish, to state
the promise of its docstring as a window (`WinsApart`) apart from the pipeline.

**EventWatcher** is one repository, two threads and the loop.

**DailySummary** is the scheduler and `run_daily_summary` with its SELECT,
INSERT and file append. A day has `Day` instants, of which `Hour` is the target
hour, and a timer fires up to `Late` instants after its target (or one before
it, `Early`), so that two runs need not be a day apart. **DailyReport** refines its INSERT by the queries of `_gather_stats`,
over rows that are inserted, closed and dead-lettered meanwhile, and by the
recommended action of `_format_summary`: `created_at` is the time a row's
transaction began, so a row can be committed into a period that was counted. A
summary remembers the firing it is of (`fired`), to tell the scheduler's
successive summaries from the ones that were asked for.

**LlmCall** is `_llm_call`'s loop, in seconds; what both agents of a job took is
kept until its card is sent, the last attempt included. **ApprovalGateway** is `send`,
one action per session, file write and post, and `decide`, whose SELECT and
COMMIT are two actions; SQLAlchemy writes the columns that differ from what the
session read (`DecisionWritten`), and no others (`Record`). **Cards** joins
them with the API's two guards: a job runs both agents and sends its card,
requests with and without the token decide it, a crash takes both.

**IntegrityWatcher** and **CIWatcher** are the two polling tasks over a chain
and a `gh` that may say anything, **Watchers** runs them until `stop`, with the
exceptions that end a task for good.

**DemoForge** is the second handler, with the directory that its runs share,
the children that a killed make or a crash leaves behind (`strays`), and the
reaper on its rows.

Where the source has a name the model keeps it; `PROJECT.json`, "map", gives
the lines of each definition. Definitions whose comment says *Faulty variant*
are plausible mistakes: they are used by no specification, and serve to check
that the property they are paired with in "mutants" would notice them.

## 3. Runs

Every `.cfg` is named `<MC module>_<run>.cfg`.

| run | instance | checks |
|---|---|---|
| restart | 1 process, 2 workers, 2 events of a commit and 1 of another; crash, stop, API failure, reaper | `NothingLost`, `ClaimNamesItsRow`, `SkipNamesSameCommit`, `JobConservation`, `TerminalIsQuiet`, `ImplementsLedger` |
| faults | 1 process, 2 workers, 2 events of a commit; Redis, Postgres, LLM and vector failures, lost replies | `IInv`, `EmbeddingExists`, `OneRowPerClaim`, `CompletedIsComplete`, `NoSilentRetry`, `ImplementsLedger` |
| live | 1 process, 1 worker, 2 events of a commit and a demo request, fairness; crash, stop | `EveryJobSettles`, `StopTerminates` |
| claims | 3 callers, 2 commits, TTL 3, releases | `DedupIInv`, `WinsApart`, `ClaimsExpire` |
| race | 3 commits, 3 moves of HEAD, restarts; git and Redis failures | `WatcherIInv`, `HeadCovered`, `TipGetsQueued` |
| dates | 1 scheduler, 1 request, 1 row, 2 days of 3 instants; late timers, failures, crashes | `ReportIInv`, `OneSummaryPerDate`, `CountedOnceUpToLateness`, `TroubleIsSaid`, `EveryDaySummarised` |
| forge | 3 runs, 1 scenario, one bad payload, one without MP4; failing and killed makes, database failures, crash, reaper | `ManifestIsOwn`, `CompletedDemoIsComplete`, `FailedDemoIsClosed`, `ClosedStaysClosed` |
| cards | 1 card, 3 requests of any decision, both webhooks, every API setting; timeouts, database, file and web failures, lost replies, crash | `CardsIInv`, `LlmWithinBudget`, `NotifiedIsDecidable`, `ViaIsTrue`, `AnsweredDecisionStood`, `RemoteNeedsToken`, `DecisionSurvives` |
| watchers | 2 heads, ring of 2 that shows 1; 2 repositories, 2 commits, up to 2 runs; any verdict, any reply, dying tasks, stop | `IntegrityViewIsTrue`, `ReportIsRight`, `TamperSurfaces`, `EveryRepoPolled` |
| failed_blocks, two_reapers, dead_worker | see below | `FailedDoesNotBlock`; `StatusTransitions`; `EveryJobSettles` |

Why the bounds are enough to be interesting.

- *Orchestrator.* Two workers and two events of one commit give every race for
  a claim and every pair of a live and a dead run; a third job adds the other
  commit. TTL 1 and MaxAge 0 lie below the length of a run, so that claims
  expire and rows come of age in the middle of one; in the source both are
  settings, and no property depends on their ratio. `MaxRows = 2` bounds the
  INSERTs: with three jobs of `restart` two of them get a row, and the third
  waits before its INSERT. All commits have one sha, as in two clones, so that
  every upsert of another row overwrites the one document. Workers are interchangeable, and so are two events
  of a commit; symmetry is used in runs without liveness only. `live` has one
  worker, where every job waits for the ones before it; the races of two
  workers are in the other runs.
- *EventWatcher.* Three commits and three moves contain a HEAD that returns to
  an older commit.
- *DailyReport.* `MaxNow = 5` is two days of three instants, the middle one the
  target hour, and `Late = 1`: the runs of both days may be in time or late, so
  that successive periods tile, leave a gap or overlap. One scheduler and one
  request give every overlap of two runs; one row is enough, because each
  property speaks of one row at a time. Timers that fire early and a second
  process are left to the theorems, which cover them for every property of the
  run but `EveryDaySummarised`.
- *Cards.* One card, because cards share nothing but the API's settings; three
  requests, so that one can commit between the SELECT and the COMMIT of another
  and a third can overwrite both. Timeout and retries are the settings' (60 s,
  2); `Took` has the shortest and the longest call.
- *Watchers.* A ring of two that shows one drops checks and cuts the view; two
  runs are what a flaky workflow needs, and two commits what tells it from a
  fixed one. The code's numbers are 100, 20 and 20.
- *DemoForge.* Two runs of one scenario share its directory; the third has a
  payload that raises.

`CHECK_DEADLOCK FALSE` stands where a system with a bounded supply of jobs,
moves or instants really comes to rest.

### Where the documents and the code disagree

Three runs check a sentence of a document, and TLC finds a behaviour of the
code that contradicts it; "findings" quotes the lines.

| run | property | what happens |
|---|---|---|
| failed_blocks | `FailedDoesNotBlock` | RECOVERY_MODEL.md:67 lets a failed commit be triggered again; its claim makes the trigger a skip until the TTL is over |
| two_reapers | `StatusTransitions` | README.md:160 calls multi-process workers correct; the reaper of a second process interrupts rows that live workers run, and these complete later |
| dead_worker | `EveryJobSettles` | FAILURE_MODEL.md:20 promises self-recovery from a Redis restart; an error in `q.fail` ends the worker's task |

Modelling met more of them, which no run pins down; the passing properties are
worded around them:

- A skip during `PENDING` answers `workflow_id: None`
  (RUNTIME_INVARIANTS.md:15 says the first id): `SkipNamesSameCommit` is about
  ids that are answered.
- A run longer than the claim's TTL is joined by a second one
  (`commit_pipeline.py:25-28`): `OneRowPerClaim` counts one lifetime.
- The attach renews the TTL, and overwrites whoever holds the claim by then
  (`dedup.py:87-88` and 15-16 say otherwise): `WinsApart` counts from the win,
  as a lower bound.
- A database error in `_create_task`, in an except block or in the last session
  leaves the workflow `running` (FAILURE_MODEL.md:29).
- A card may have been sent for a workflow that is later interrupted
  (FAILURE_MODEL.md:60), an orphan younger than the reaper's limit survives the
  next start (RECOVERY_MODEL.md:9), and runs in flight at SIGTERM finish
  (RECOVERY_MODEL.md:39).
- `stop` raises when the API task has failed before, and the workers' jobs are
  lost (`StopRaises`; RECOVERY_MODEL.md:36): `NothingLost` is about the stops
  that wait for the workers.
- Commits between two reads of HEAD get no job (`watcher.py:157-159`).
- Two summaries that overlap give two rows (`daily_summary.py:80-81`), and two
  demos of one scenario at once hash each other's files (`demo_forge.py:15-18`).
  A make that is killed at its timeout leaves children that write into the
  directory a later run wipes and hashes.
- A summary asked for by hand before the target hour is the summary of that
  date, and the scheduled one skips. A card that has been pending for more than
  24 hours is not mentioned, and neither is a row whose INSERT was open while
  its table was counted, in this summary or the next; a run that fails after it
  was counted as running is in no later summary (`daily_summary.py:83`).
- A summary's period ends when its run reads the clock, after `asyncio.sleep` has
  returned (`daily_summary.py:82-83`, 431), some instants after the target hour
  and never the same. The periods of successive days do not tile: a row created
  between the target hour and the run's `now` is counted twice, or not at all,
  as one run is later than the other. `CountedOnceUpToLateness` is about the
  rows created when no run can begin. A summary asked for by hand covers the 24
  hours before it was asked for, so that it, and the skip it causes, shift the
  periods by hours.
- With target hour 0, a timer that fires a little early reads the date of the
  day before (`daily_summary.py:86`) and skips, or fills in that day's summary;
  the scheduler then sleeps to the same target again, unless the run took until
  it was past: that day then has no scheduled summary. `EveryDaySummarised` is
  checked without early timers.
- The token is said to gate every endpoint but the dashboard and the health
  probes (`main.py:206-207`). It gates the three POSTs (`server.py:124`, 189,
  270); the GETs of workflows, approvals, memory and logs need none.
  `RemoteNeedsToken` is about decisions.
- A commit whose enqueue fails is lost (`watcher.py:212`): `_last_sha` is set
  before, and nobody awaits the future. A card whose file write and posts all
  fail has reached nobody and waits with an empty `delivered_via`
  (`gateway.py:77-125`).
- A chain that is rolled back to an earlier valid head is logged as one that
  moved (`integrity_watcher.py:123`): `IntegrityViewIsTrue` asks for the head of
  the newest valid check, whichever that is.
- `approvals.jsonl` is "always written" (OPERATOR_GUIDE.md:159,
  RUNTIME_INVARIANTS.md:21), but an exception of the write is logged and
  swallowed: `ViaIsTrue` says that `delivered_via` then does not claim it.
- Of two operators who decide a card the last one wins, and both are answered
  200: `AnsweredDecisionStood` says that each decision was the row's for a
  moment.
- Six minutes (FAILURE_MODEL.md:151) are exceeded by two agents whose three
  attempts end just before the timeout: 2 (3 * 60 + 2 + 4) = 372 seconds, which
  is `Budget`.
- The watchers "cancel cleanly" (`main.py:179`) unless an exception ended one
  before: awaiting it raises in `stop`, and the queue's connection is not
  closed. `GET /watchers` calls a dead task "running" (`server.py:145`), and a
  `gh` reply that is JSON but no list of objects is what kills the CI task.
- "Failed THEN passed" (`ci_watcher.py:6`) is either order, and a missing chain
  is recorded as ERROR, not FAIL (`integrity_watcher.py:20`).
- The SHA-256 round trip of `demo_forge.py:27-28` is not checked: nothing reads
  a manifest back.

The properties of the passing runs are worded so that they are what the code
does guarantee: `OneRowPerClaim` counts one lifetime of a claim, `WinsApart`
excepts releases, `OneSummaryPerDate` excepts overlapping runs,
`CountedOnceUpToLateness` excepts rows created while a run may begin,
`ManifestIsOwn` excepts shared scenarios, `HeadCovered` excepts failed calls and
`EveryRepoPolled` dead tasks. A hazard that a property excepts has no property
in `PROJECT.json`, and a note that says so.

## 4. Fairness

*Orchestrator.* `WF` of a worker's step: the event loop runs every task that
can go on, and each call returns or raises: clients have timeouts, the LLM
call an explicit one. `SF` of `Dequeue` and of `Boot`: a worker keeps calling
BLPOP and the supervisor (`ecosystem.config.js`, `autorestart`) keeps starting
the process, and an outage does not hit every attempt. `WF` of `Start` and
`Exit`. A demo ends: each of its makes is killed at a timeout. `Tick`, crashes,
stops and failures are not fair: no liveness property needs them. In `live` the supply of jobs is finite, so a NORMAL job is not
starved by HIGH ones; with an endless supply BLPOP's order would starve it.

*Dedup.* `WF` of `Tick`: Redis expires keys. `ClaimsExpire` then holds because
`SET NX` does not renew a claim it loses to, and a caller attaches once.

*EventWatcher.* `WF` of the observer's start, of its dispatcher, of both
threads and of the loop's callbacks. A `TakeEvent` is fair because Watchdog
delivers what it queued. Moves of HEAD and halts are not fair.

*DailyReport.* `WF` of `Tick`, of a timer that is due, and of each query and
call of a run. `Tick` waits for a timer that is `Late`, which is less than what
is left of the day: an event loop that is blocked for hours, or a machine that
is suspended, is not in the model.

*Watchers.* `WF` of a check, of a poll and of the end of the CI interval: both
are timers and calls that end (`gh` is awaited for 30 seconds). `TamperSurfaces`
assumes of the world that the chain stays broken and of the task that it lives;
neither a change of the chain nor a dying task is fair.

## 5. Proofs

### The orchestrator, any number of processes

`OrchestratorProofs` proves `IInv` inductive for any numbers of jobs, commits,
workers, processes and rows, any TTL and reaper limit, and any set of faults;
the assumptions are the named `ASSUME`s of `Domain`, `DedupStore`,
`WorkflowStore`, `CommitPipeline` and `Orchestrator` (a host for each worker,
model values that differ from each other, finitely many workers). The argument
for `OneRowPerClaim`:

- `winners` are the workers whose win has not expired, `current` the rows
  inserted on such a win. When a claim expires, `Tick` drops both.
- `WinsAreFresh`: a winner's commit is claimed, no two winners have the same
  commit, and until a winner inserts there is no current row of its commit. SET
  NX needs a missing key, so it can only be won when no winner and no current
  row of that commit are left. This is why neither a lost reply nor a crash
  between `SET NX`, the INSERT and the attach can give a second row.
- `RowsAreSerial`, `BusyWorkers` and `IdleWorkers` carry the rest: an id is
  fresh, a worker's row is of its job's commit, and a worker that has been
  taken down holds nothing.

`ClaimNamesItsRow` needs `BusyWorkers` (whatever is attached late is a row of
that commit), `SkipNamesSameCommit` needs `ClaimNamesItsRow`, and
`OneRunnerPerRow` needs `RowsAreSerial`. The invariant is model-checked by
`faults`. The steps are proved by groups of actions that leave the same parts
alone (`QuietStepOK`, `RunnerStepOK`) and one lemma for each of the others.

`JobConservation` counts: `Places(j)` is the number of entries of `j` in the
three lists plus the number of workers that hold it. The lemmas on the counts
(`CopiesAppend`, `CopiesTail`, `HandsTake`, `HandsDrop`) say what a push, a pop,
taking and dropping a job do to them, and each action is then one of: nothing
moves, a job enters, moves from a list to a hand or from a hand to a list, or
leaves together with its fate. From it follow `NoSilentRetry`, because the one
place of a dead-lettered job is the FAILED list, and from `IdleWorkers`
`NothingLost`: a worker that has left its loop holds no job.

`EmbeddingExists` follows from `VectorIInv`: step 3 saves before it indexes,
only a row that is there is embedded, and a document has the content of a saved
row of its sha. The document's name is the sha alone, so a second clone
(`ShaOf`), or a later run of the same commit, overwrites it: what an
embedding_id names is a summary of its sha and need not be that of its row.

### The rows of the orchestrator

`LedgerProofs` proves what holds as long as `ReapersTakeOrphans`: what a reaper
selects is a row no worker of any process has. `reap_orphan_workflows` does not
look for that; it goes by the age of the row. Two theorems say when it is so:

- `ReapersTakeOrphansAlone`: if there is `OneProcess`. Its reaper runs before
  its workers start, so nobody has a row, however long runs take.
- `ReapersTakeOrphansInTime`: of any number of processes, if `RunsEndInTime`, no
  run having its row for longer than `orphan_workflow_max_age_seconds`. The
  setting is 600 seconds. Of a run's calls the two agents are the long ones, and
  `LlmWithinBudget` bounds them by 372 seconds with the default settings.

`two_reapers` is the behaviour in which neither is true: a reaper of a second
process writes the row of a live worker. The corollaries (`LedgerOfOrphans`,
`LedgerInTime`, and `TerminalIsQuietHolds`, `CompletedIsCompleteHolds`,
`ImplementsLedgerHolds`, `StatusTransitionsHolds` for one process) rest on
`RowIInv`, on top of `IInv`:

- `RunOK`: where a worker is in `run_commit_pipeline` determines its row:
  running, no task running but that of the step, the tasks before it completed,
  a trail with one entry for each milestone passed, and the memory and the card
  from the call on that wrote them (`RowInStep`, `WorkInStep`). A run to which
  something has happened (`fail_task`, `fail_workflow`) keeps only what the
  except blocks need.
- `ReapedAsSeen`: what a reaper selected is still running and has the logs it
  read, or the reaper of another process, which selected it too, has committed.
  Then both write the same status and the same logs, so that a reaper's commit,
  which looks at neither again, overwrites nothing.
- The rows of nobody: a row that ended is quiet and, when completed, complete;
  a row that was not inserted has no task.

It is inductive because a step writes at most the row of its own worker, and by
`OneRunnerPerRow` no other worker has that row (`WritesOnlyOK`). It gives
`TerminalIsQuiet` and `CompletedIsComplete` at once. For `ImplementsLedger` each
of the six calls that write what the ledger shows is one of its actions
(`InsertBegins`, `SaveSavesAskAsks`, `AppendNotes`, `EndConcludes`), a reaper's
commit is `Interrupt` (`BootInterrupts`), and every other step of the system is
`LetGo` (`PipelineLetsGo`, `RestLetsGo`): a run may end or die, and no step gives
a worker a row but its INSERT. `RowIInv` is what makes the ledger's guards hold:
the pipeline never looks at the status it overwrites. `StatusTransitions` is
then read off the ledger's actions (`LedgerTransitions`).

`ReapersTakeOrphansInTime` is an invariant of its own (`InTimeStep`): when a
reaper selects, a row some worker has is too young; when a worker gets a row, by
its INSERT, no reaper can have selected that row before (`NewlyHeld`,
`WhoReaps`).

TLC checked `RowIInv` and `VectorIInv` as invariants of the instances of
`restart` and `faults`, and `RowIInv` and `ReapersTakeOrphans` of two processes
under a constraint that runs end in time, before they were proved; the runs
keep the properties that follow from them.

### The other components

`DedupProofs` proves `WinsApart` from `DedupIInv`: a claim that is there has at
least TTL minus the time since its win left, because nothing but DEL and time
takes any away. `EventWatcherProofs` proves `HeadCovered` from `WatcherIInv`:
`_last_sha` always names a commit that is covered or scheduled, and HEAD is
always covered, scheduled, announced by an event that was not taken yet, or in
the hand of a thread that has still to compare.

`DailyReportProofs` first proves `OneSummaryPerDate` of `DailySummary`, from
`SummaryIInv`: without overlaps dates grow with ids, so the latest row is the
only one to look at, which is what the code does. Then it proves that every step
of `DailyReport` is a step of `DailySummary` or leaves it alone
(`ReportImplementsSummary`), so that theorem carries over, and then
`CountedOnceUpToLateness` and `TroubleIsSaid` from `ReportIInv`. Three facts
carry it. A scheduled run begins in time (`OnTime`): no timer is later than
`Late` when it fires (`TimersInTime`, which `NextFire` establishes), and a row
that was not created while a run may begin is then on the same side of the end
of the period however late that run was. A period that has ended does not change
(`PeriodsStay`), because `created_at` is
never before now when a row is begun: so what a query found is still what was
created in its period, except for rows whose INSERT was open, which `missed`
remembers. And trouble is never taken back: a failed or interrupted row and a
dead letter stay what they are until the query that sees them.

`CardsProofs` proves five of the properties of `Cards` from `CardsIInv`:
past the first session the row is there; `delivered` is true at every await,
hence in the UPDATE that records it; an open request whose session read its own
wish has seen it stand, so that it may leave the column out; and whoever is
past both guards carries the token, if there is one or the interface is remote.
`DecisionSurvives`
needs that a request commits once, so that each change has a new `decided_at`.

`LlmWithinBudget` follows from `SpentInTime`: an agent at its k-th attempt has
spent at most what k - 1 failed attempts take, `Failed(k - 1)`, and the drafter
starts with at most the whole of the summarizer's loop spent, and what is spent
when the last attempt is over is compared with the whole. `Doubled`, the
powers of two of the back-off, and `Sleeps`, the sum of the sleeps, are
functions that recursive equations define, so that their values have to be
proved. The library's induction theorems do not help, but that < is well-founded
on Nat does (`LessWF`): a set with 0 and the successor of each member is Nat
(`SetInduction`). By it a recursion has a solution on 0..n for every n
(`FollowsExists`), two solutions agree (`FollowsAgrees`), and together they
define a function on Nat (`PrimitiveRecursion`), for which both equations then
hold. `FailedOrder`, that more failed attempts take more time, is another
induction. TLC checked `SpentInTime` on the instance of `cards`.

`DemoForgeProofs` proves the four properties of `forge` in two layers. `RowIInv`
says what the row, the tasks, the memory and the card of a run are at each
await; a step changes those of one run, so that only that run has to be looked
at (`OneRow`), and a reaper finds nobody at work, because a process that is
down has no run under way. `ForgeIInv` adds the directory: as long as a run has
its scenario to itself, no other run and no child left behind reaches it
(`ApartMine`), and what it hashes is what it wrote since it wiped it.

`WatchersProofs` proves both safety properties of `Watchers` from
`WatchersIInv`. That `last_head` is the head of the newest valid check of the
ring survives the ring's dropping of its oldest checks because the order of
those it keeps stays (`RingTakes`); and a report is an error or was made from a
list of runs, of which `_detect_flaky_workflows` says what it should
(`FlakyIsRight`).

### What is only model-checked

- Liveness, which needs fairness and ENABLED, out of the prover's reach:
  `EveryJobSettles`, `StopTerminates`, `ClaimsExpire`, `TipGetsQueued`,
  `EveryDaySummarised`, `TamperSurfaces`, `EveryRepoPolled`.

## 6. What is not modelled

- The steps of a `demo_request` in the Orchestrator's queue: there it is one
  call. `DemoForge` has the steps, with its own crash and reaper.
- A helper's SELECT and UPDATE are one step, except in `decide` and the reaper.
  Within a process only the row's worker writes it; between processes the other
  writer is the reaper.
- The API failing while the process is stopping, and uvicorn's own handling of
  signals; blobs in Redis that do not parse.
- `EventWatcher` has one repository (handlers share nothing but the loop), and
  `Close` joins the observer's stop with the end of the loop.
- Of a repository's CI history the model has the newest check; the integrity
  watcher has the ring.
- The endpoints that only read rows (`/tasks`, `/workflows`, `/approvals`,
  `/stats`, `/logs/recent`, ...): there is no state to get wrong.
- Text, prompts, diffs and log lines, except the audit trail of a workflow and
  the recommended action of a summary.
- Settings, logging, migrations and deployment files: no state that changes.

## 7. Plan

1. *(done)* stores, commit pipeline, orchestrator; dedup; event watcher; daily
   summary and what it says; demo forge; agents, gateway and API guards; the
   two watchers; the ledger and its refinement; the proofs of section 5.
2. *(done)* proofs: every safety property and action property of the passing
   runs, and the refinements of `DailySummary` and `WorkflowLedger`; the latter
   for any number of processes whose reapers take orphans only.
3. *(done)* two clones of a repository, with one vector document between them.
4. What is left: the promise of `Dedup` as an abstraction that `Orchestrator`
   implements, with a `since` of its own. `OneRowPerClaim` and
   `ClaimNamesItsRow` say of its rows what `WinsApart` says of the wins.
