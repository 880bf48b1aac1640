# local-convertor: specifications

TLA+ modules, model-checking configurations and machine-checked proofs for the
program in `src/`: a small Flask service that keeps the subscriptions of
several providers (Clash configuration files fetched from the provider's own
URL) converted to share links, and serves each under a public URL with a token.

Everything is written from the Python and JavaScript code, read with its tests
and its planning documents. `PROJECT.json` gives, for every definition that
models code, the source lines it stands for.

## 1. The system

One process (`gunicorn -w 1 --threads 16`, `src/Dockerfile:23`), one SQLite
database, one directory of files, APScheduler's threads beside the request
threads.

| Part | State it keeps | Operations | Correct when |
|---|---|---|---|
| **Version store** `services/version_store.py`, `repositories/provider_repo.py` | version rows in SQLite; raw and converted files in a ring of ten names per provider directory | `store_version`, `_prune`, `get_current`, `get_current_hash`, `migrate_naming`, `delete_provider_files` | the newest versions are whole (row, both files, contents) whatever write failed, whatever crash came between the files and the row, whatever the provider was renamed to, but those whose files a fault of a boot was about; exactly the retained versions stay; a slow reader finds what it selected |
| **Refresh orchestrator** `services/updater.py` | per-provider lock; run rows; health columns of the provider row | `refresh`, `_do_refresh`, `is_fresh` | one refresh at a time; every run closed; the row claims only what is on disk; a failure leaves what is served |
| **Subscription endpoint** `routes/subscriptions.py` | the objects a request has loaded | `serve_subscription` | every request answered, with the last good content, its own ETag and true stale headers |
| **Management API** `routes/api.py` | provider rows | create, patch, delete, refresh, rotate, settings, logs | rows, jobs and files stay in step; deletion is complete |
| **Scheduler** `services/scheduler.py` | APScheduler jobs in memory | `init_scheduler`, `reschedule_provider`, `remove_provider_schedule`, hourly log purge | each provider has the one job its row calls for |
| **Event stream** `routes/events.py` | registered queues (100 events each), generators | `publish_event`, `stream_events`, shutdown | each client gets the events in order without gaps; nothing is left of clients that are gone |
| **Event log** `services/log_store.py` | `events.jsonl` | `append`, `purge_older_than`, `clear`, `entries` | each event one line, once; old and cleared lines leave |
| **Management page** `static/app.js` | the rows on screen, `editingProviderId`, the log box | polling, edit rows, live log | an edit survives the polls; the table catches up |
| **Fetcher** `services/fetcher.py` | none | one HTTP request per User-Agent | the answer chosen is a marked one if there is any |
| **Converter** `converter/` | none | document to share links | each convertible proxy once and in order, a warning for each other, an error when there is none |
| **Settings, rsyslog sink** `repositories/settings_repo.py`, `services/log_sink.py` | one settings row; the sink in `app.extensions`, with its socket handler; a form on each page | boot, `GET`/`PATCH /api/settings`, `_rebuild_log_sink`, `emit`; view, edit, cancel, save | the sink matches the row once a PATCH has been; an event meets a closed handler only under a PATCH; a form at rest shows what is saved |

How they interact: requests, manual triggers and scheduled jobs all end in
`refresh`, which takes the provider's lock without blocking, writes run rows
through one database session, publishes events to the stream queues, appends
lines to the log and calls the version store. A public request loads its
provider, may run a refresh in its own thread, and then reads the newest
version by separate queries. The API changes provider rows and then the jobs.
Every thread that logs an event takes the sink of the moment, which a PATCH of
the settings closes and replaces. Boot builds the
sink from the environment (the settings row is neither read nor filled, see
section 6), moves files to their present names, schedules jobs, and then serves.

Where it is hard: there is no transaction over rows and files; the orchestrator
commits eight times per refresh through a session no failure rolls back; the
log file and the jobs have no lock at all; deletion and renaming do not take
the refresh lock; ids of providers and runs are given out again by SQLite after
a deletion; a stream client can be slower than events come; and the page acts
on state it read before an await. `PROJECT.json` lists these hazards at their
lines, with the properties that would catch them.

## 2. The modules

### `LastGood`
The abstract specification: a register holding the last good document and its
number. `Publish` replaces both in one step, only while the service is up; stop
and start leave them alone. What is served is that document as long as the
register is `whole`: a start may find it damaged, or find it again, and the next
document published is whole. `VersionStore` and `Refresh` both implement it; in
`Refresh` it is never damaged.

### `VersionStore` (with `VersionStoreProofs`)
One provider. `rows` are the version rows with the paths they record, `files`
the files on disk with their contents, `dir` the directory of the provider's
present name. `store_version` is a sequence of steps `StoreBegin`, `WriteRaw`,
`WriteConverted`, `InsertRow`, `PruneRow`, `StoreReturns`, each with the failure
the code handles (`...Fails`); `Crash` can come between any two. `Boot`,
`MigrateRaw`, `MigrateConverted`, `MigrateCommit` and `MigrateFails` are
`migrate_naming`, file by file, with its single commit at the end. A move
(`Move`) can fail and is then passed over: the commit points the row at the new
path all the same, and because every later boot finds the row where it wants it,
the version is lost for good. The migration itself can fail, by its commit or by
another provider's files, and the app serves over files that have moved and rows
that have not. The constant `Faults` says which of the two may happen. Histories
tell which versions they hit: `adrift` (moved, not committed), `left` (passed over
by the migration under way), `lost` (passed over and committed, or adrift when the
provider was renamed: no boot looks in the directory of the old name then).
`Rename` is the PATCH of a name. `SelectRow` and `OpenFile` are the two halves of
`get_current`. A document is one pair of raw and converted bytes; the slot of a
version is its sequence modulo the ring size.

### `Refresh` (with `RefreshProofs`)
One provider, any number of request threads and of job threads (manual and
scheduled). A thread's record holds its program counter and the objects it has
loaded, because that they are stale is the point: `was` and `err` are the
freshness and the error of the Provider object the request loaded first, `body`
and `tag` come from its two selections. Every commit of `_do_refresh` is a
step (`Stage`, `Close`, `Check`, `Health`, `Fail`), publishing is part of the
step whose code it follows, and `CommitFails` or `RowGone` is a commit that
raises, from inside the handler as well (`Escape`). `Rotate`, `DeleteFiles` and
`DeleteRows`, `Create` (which reuses the provider id) and `Expire` (the content
becomes stale) are what goes on around it. The version store is the register
`LastGood` here: the newest row `cur`, and the sequences that have files. The
source's answers and the converter are nondeterministic: a document or an error.
The history variable `cut` tells that a commit that raised, a provider that was
gone before its refresh was under way, or a crash has cut a refresh short: then
its run can stay "running" and the row behind the files.

### `EventStream` (with `EventStreamProofs`)
Queues, generators and the events published, numbered. `Publish` puts the event
into every queue and unregisters the full ones; `Greet`, `Loop`, `Get`,
`Timeout`, `Keepalive` are the yields and waits of `generate`; a yield to a
client that is gone ends the generator (`Yield`, `Leave`). `OpenHead` is a HEAD
request, whose generator never starts. `Terminate` is the signal handler.

### `LogStore` (with `LogStoreProofs`)
The file as a sequence of lines, and append, purge and clear as the code does
them: stamp, copy the whole file, replace it; read and replace; truncate; each rewrite
can fail (`AppendFails`, `PurgeFails`) and then leaves the file as it was. Time
is the number of the last stamp; `Age` moves the retention's cut-off. `Younger`
is the loop of `purge` over the lines, written as a recursive function on the
number of lines read, so that it can be proved about.

### `Scheduler` (with `SchedulerProofs`)
Provider rows (enabled, and the five columns of a schedule) and jobs, with the
API requests that change both cut where another thread can come in: find,
commit, load again, set the job. `Merge` is what SQLAlchemy writes: only the
columns that differ from what the session had loaded, so that two PATCHes can
leave a schedule nobody asked for. `Build` is `_build_trigger`, with its defaults
and with the rows it raises on, which the API lets pass; the request has then
committed the row, and `Schedule` leaves the job alone. `Boot` is `init_scheduler`,
where such a row does not keep the others from their jobs, and `BootUnloaded` the
one that cannot read the table. The history variable `amiss` marks a provider
whose last request overlapped another or raised, or whose row was not read.

### `Settings` (with `SettingsProofs`)
The settings row, the sink, the threads that emit through it, and the form of
each open page. `Boot` builds the sink from the environment and leaves the row
alone. A PATCH is `PatchLoad` (or `Call`, for a client that is no page),
`PatchCommit`, `PatchBuild`, `PatchFetch`, `PatchClose`, `PatchInstall`: the row
is loaded again after the commit, the new sink is built, the installed one taken,
closed and replaced, with nothing around them. An emission is `EmitTake`,
`EmitTest`, `EmitSend`: it goes on with the sink it has taken, and its send can
fail. The form is `Edit`, `Type`, `Cancel`, `Save`, `Saved`, where the fields stay
enabled while a save is under way; `LoadForm` answers the load of the page's
opening, `ReadBack` the one that follows a save. Of the five columns the server is
told; the others travel with it. Histories: `alone` of a PATCH, `clean` of an
emission, `late` of a form (edited before its load, or the row was changed by
somebody else since), `by` of the sink: what it is to follow, the last boot, a
PATCH that was alone, or mixed ones.

### `UiTable` (with `PageProofs`)
The provider table of the page: `load` holds the GETs under way, `edit` the edit
rows, `editing` is `editingProviderId`. `StartLoad` reads it, `Render` replaces
all rows without reading it again. `hidden` are the providers whose display row
an edit row stands for; `cancelEdit` shows it again whichever edit row is open. `torn`
(history) tells that a rebuild has taken away the edit row `editing` is about. A row that a rebuild took out of the document
can still have its PATCH under way; `SavedDetached` is the exception that
`cancelEdit` then raises. Names that `UiLog` has too carry the prefix `Table`
here (`TableInit`, `TableSpec`, `TableTypeOK`), so that `PageProofs` can extend
both parts of the page.

### `UiLog` (with `PageProofs`)
The live log: `conn`, `retry` and `openTimer` are the EventSource and its two
timers, `polling` and `poll` the fallback, `box` and `seen` the lines on the page
and the ids remembered. `AppendLog` is `appendLog`, with the line that falls off; `AppendLogs` appends the
lines of a poll's answer, which `NewestRows` has taken from the runs' rows.
`stored` and `told` are the stage in a run's row and the last one published,
which go out of step in both directions: the first and the last stage are
committed first, the others published first. `Delete` takes runs away with their
provider, and `CreateRun` gives the id after the highest in the table, so that
`EventId`, which the page remembers, may be that of another run.

### `Ingest` (with `IngestProofs`)
From a URL to share links: `Answer`, `TrialFails`, `FetchRaises` and `Exhausted`
are `fetch_with_auto_ua`; `Detect` is `convert_subscription`; `NextList`, `Pass`,
`Keep`, `Raise` walk the lists of a document as `_iter_proxies` and `_dedupe` do;
`Encode`, `NoLookup` and `Finish` are the loop over the encoders. A document is
its lists of proxies, a proxy its key and its fate. `Survivors` and `Good` say
without a loop which proxies count.

### The `MC_*` modules
Instantiate the modules for TLC; the constants are in the `.cfg` files.

## 3. What the runs check

"Holds" below means: TLC finished the full state graph of that instance.

| Run | Instance | Properties |
|---|---|---|
| `store` | two names, ring of 3, retention 2, four sequences, one slow reader; every failure and crash; moves and migrations that fail at boot | `NewestIntact`; `PrunedToRetention`; `ReadersIntact`; `MigrationHeals` (the next boot that commits makes whole what earlier ones left half done); the inductive invariant `IInv`, which holds the types; refinement `ServesLastGood` |
| `refresh` | a request and a job, three refreshes, two documents, failing commits, crashes, token rotation | `LastGoodServed` (a request that could be answered with content is); `HealthBacked`; `NeverOlder`; the inductive `IInv`; refinement `ServesLastGood` |
| `refresh_faults` | a request and a job, two refreshes, one document; all of that, and deletion and re-creation under the same id; fairness | `OneRefresh`; `RunsOwned` (no run is left "running"); `RunsAdvance` (a run never goes back, a closed one stays); `NamesCurrent` (`current_version` names what is served); `Answered` |
| `events` | two clients, queues of two, four events | the types; `NoGaps`; `StreamsEnd`; `QueuedSent`; `NoneLeft` |
| `log` | two threads, three lines, purge and clear | `OnceEach`; `SoloExact`; `OldLeave` |
| `scheduler` | two threads, two ids, a weekly schedule, an interval and one that cannot be built, crashes, boots without the table | `JobsMatch` and the inductive `IInv`, which holds the types |
| `ui_table` | two providers, three edits, two loads under way | `AloneSurvives`; `CatchesUp` |
| `ui_log` | two runs of three stages, which may have one id, a box of two lines, one poll at a time, one clearing | `SeenShown`; `OneSource`; `PollCatchesUp`; `FallsBack` |
| `settings` | a page, another client and an emitting thread, two servers, crashes, boots, sends that fail | `SinkMatches`; `CleanEmit`; `FormShows` |
| `ingest` | two User-Agents; all documents of two lists of at most two ordinary entries, those with an odd entry among ordinary ones, base64 and broken ones | `MarkedFirst`; `Exact`; `RefusedForCause`; `IInv` |
| `refresh_stale`, `settings_boot` | the smallest instance that shows it; the instance of `settings` | a documented promise the code breaks, see section 6 |

Some properties say less than their names may suggest:

* `NewestIntact`, `ReadersIntact`, `MigrationHeals` and `ServesLastGood` leave out
  the versions that a fault of a boot was about (`adrift`, `lost`), and only those;
  with no such fault nothing is left out (`FaultlessBoots`, section 4).
* `NoneLeft` is about generators that have started: a response that is never
  iterated (`HEAD`) keeps its queue until it is full.
* `MarkedFirst` says that a marked answer wins. The docstring of the fetcher
  (`fetcher.py:151`) speaks of the "first response convertible to share links",
  but only the marks are looked for, not the conversion.
* `SoloExact`, `JobsMatch`, `RunsOwned` and `PollCatchesUp` leave out overlapping
  rewrites and requests, refreshes cut short, and runs whose id was given out
  again; section 6 has the configurations that show what happens to those.
* `PollCatchesUp` and `FallsBack` are checked with one poll outstanding at a time.
* `CatchesUp` leaves out the table whose last edit row a rebuild took away, see
  `MC_UiTable_stuck.cfg`.
* `CleanEmit` leaves out an event whose send fails: `emit` swallows the error.

**Why these bounds are enough.** The ring of three slots with retention two has
the relation of the ring of ten with retention five that matters (ring larger
than retention, a spare slot for the store in progress); four sequences go
round it once, and every path of the migration (source and target in one
directory, in two, in the legacy one) appears. `OneVersionHit` confines the faults of
boots to version 2, which is hit as the newest, as an older retained and as a
pruned one, beside versions that are not; the theorems are without that bound. Documents and directories
are only compared and chosen, so their permutations are a symmetry. In `Refresh` a request and a job
are enough for any pairwise race; `MaxRuns` is a bound on how many refreshes
start: three in `refresh`, so that a failed, a changed and an unchanged one
follow each other in any order, two in `refresh_faults`, one before and one
beside the deletion or one for each of the two providers that have the id. Its
invariants and `RunsAdvance` hold with three as well (2.5 million states), and
are proved for any number; two keep the liveness check short.
In `EventStream` queues of two with four events let a client be cut off and connect again. In
`UiLog` a box of two lines overflows with the six stages of two runs, so that
polls push out each other's lines; three stages are one of each kind (committed
first, published first, committed last); and the second run can have the id of
the first. In `Settings` a page and another client race for row and sink while a
third thread emits; a second page only changes the row as the other client does.
In `Scheduler` two requests overlap at
every pair of steps, over rows that can and that cannot be scheduled. In `Ingest` two keys and two lists are enough
for a repetition within a list, between lists and around another proxy. The
theorems of section 4 remove the bounds, under the hypotheses named there.

**Deadlock.** `CHECK_DEADLOCK FALSE` stands in the configurations of the modules
with a bound on what can still start (`MaxSeq`, `MaxRuns`, `MaxEvents`,
`MaxLines`, `MaxEdits`, `MaxRuns`), and of `Ingest`, where a conversion ends: then
nothing is left to do. `Scheduler` and `Settings` have no such bound and are
checked for deadlock.

**Fairness.** `Refresh!FairSpec` is weak fairness of each thread's next step: the
operating system runs threads, fetches end by their time-outs, no step waits for
another thread (the lock is taken without blocking). `EventStream!FairSpec` is
weak fairness of each generator, and strong fairness of the keepalive among the
one-second time-outs: the code sends it when fifteen seconds have passed.
`LogStore!FairSpec`: a thread finishes its append, the purge runs every hour, and
its rewrite may fail, but not every time (strong fairness of `PurgeReplace`).
`UiTable!TableFairSpec`: the interval ticks; of the requests that are sent again and
again some are answered (strong fairness of `ServeTable` and `Render`, which a failing
load can disable in between). `UiLog!FairSpec`: the same of the server's
answers to its polls, which are then handled; timers go off, but the time-out of
the stream only while one attempt lasts, because a new attempt starts it anew.
Nothing is assumed of users, clients, commits or crashes.

Every property of a passing run has a mutant in `PROJECT.json`: a plausible bug
put into one definition, under which the property fails in the same run.

## 4. What is proved

TLAPS checks these for every value of the constants that satisfies the modules'
assumptions; the runs check the same formulas on their instances.

`VersionStoreProofs`, under `RingFits` (retention smaller than the ring; a prune is cut
short only while the rows span no more sequences than the ring has slots; one
prune looks further back than the ring) and, unless the table says so, whatever goes wrong at boots:

| Theorem | Says |
|---|---|
| `Invariance` | `IInv` is an invariant |
| `TypeCorrect`, `RetainedFiles`, `SlowReaders`, `ExactRetention` | `TypeOK`, `NewestIntact`, `ReadersIntact`, `PrunedToRetention` are |
| `FaultlessBoots` | if no move and no migration fails (`Faults = {}`), every retained version is whole while requests are served |
| `Healing` | `MigrationHeals` holds of every step |
| `Refinement` | the store implements `LastGood` |

`NewestIntact` is not inductive: that a write leaves the other versions alone
needs that no two rows share a slot, which needs that the rows lie in a window
of the ring (`Window`) and that the newest are all there (`Dense`). These, the
types, and how far storer and migration are (`JobInv`, `TodoInv`) are `Books`,
which is about rows and holds whatever becomes of the files.

Across boots one has to say where each file is. Every row has either a path on
the ring or the one from before the ring (`Placed`). The files of every version
that is not lost are where its row says (`AtSource`) or, if an earlier boot moved
them and did not commit, where the next boot wants them (`AtTarget`); and those
the migration under way has handled are at the target, unless the move was passed
over (`Located`). That a move for one version is no move over another's file is
`MoveApart`. `Blameless` says that the exceptions come from faults only, which
gives `FaultlessBoots`. Arithmetic modulo the ring is in the lemmas `DivMod` to
`ModDistinct`.

`RefreshProofs`, for any threads and contents, with every fault of the model or
under `NoDelete` (nobody deletes the provider; commits may fail, the process may
crash, the token may rotate):

| Theorem | Under | Says |
|---|---|---|
| `SingleRefresh`, `TypeCorrect` | | `OneRefresh` and `TypeOK` are invariants |
| `NoRunLeft`, `RowNamesServed` | | `RunsOwned` and `NamesCurrent` are |
| `RunsForward` | | every step satisfies `RunsAdvance` |
| `Invariance` | `NoDelete` | `IInv` is an invariant |
| `ClaimsBacked`, `Freshness`, `LastGoodAnswered` | `NoDelete` | `HealthBacked`, `NeverOlder`, `LastGoodServed` are |
| `Refinement` | `NoDelete` | what is served is the register `LastGood` |

The first three lines rest on `LockInv` (the types, the one holder, and that a
sequence which has been chosen is positive): what is left of `IInv` when a
deletion takes away what relates a refresh to the newest row. On top of it are
kept `RunInv`, for `NoRunLeft` (a refresh not cut short has its run open until
its last commit, or all runs are gone with the provider), and `OpenRun`, for
`RunsForward` (the run of the refresh in progress is open, and no further than
`Reached` says for the place the refresh is at). A refresh whose run went with the
provider writes to no other: as long as it holds the lock nobody creates a run,
so its run's id is not in the table. TLC checked `LockInv`, `RunInv` and `OpenRun`
with all faults before they were proved.

Under `NoDelete`, `HealthBacked` needs what a refresh in progress has established
so far (`JobInv`: what it fetched, that its sequence follows the newest, that its
files are written before its row), `NeverOlder` what a request has read so far
(`ReadInv`), and both that the lock has one holder; `LastGoodServed` needs what
token a request still holds (`TokenInv`). With deletion the refinement is false
by what deletion is for, and `HealthBacked` by the order in which
`api_delete_provider` works, files before rows.

`IngestProofs`, for any documents, keys and number of User-Agents:

| Theorem | Says |
|---|---|
| `Invariance` | `IInv` is an invariant |
| `MarkedAnswerFirst`, `ConversionExact`, `Refusals` | `MarkedFirst`, `Exact`, `RefusedForCause` are |

`Exact` speaks of the end of the conversion. `DedupeInv` says what `_dedupe` has
kept and remembered when it stands at a place of the document (lemma `Looking`:
that place counts exactly when its key is not among the remembered), `EncodeInv`
what the loop over the encoders has made of the first part of what was kept.
`BeforeNext`, `EndOfList` and `EndOfLists` say that the walk skips no place,
`AppendLists` that a list stays in order. Conversions are proved step by step of
the loop: that a loop ends is not claimed.

`SettingsProofs`, for any pages, clients, emitting threads and hosts:

| Theorem | Says |
|---|---|
| `Invariance` | `IInv` is an invariant |
| `SinkOfRow` | `SinkMatches` is |
| `EventsShipped` | `CleanEmit` is |
| `FormTruthful` | `FormShows` is |

`SinkMatches` needs that a PATCH which is alone has built its sink from the row
that is still there (`PatchInv`), that after a boot the sink is the environment's,
and that one which a lone PATCH was the last to touch is the row's unless one is
at work (`SinkInv`); `CleanEmit` that the sink an emission has taken is still the
installed one while no PATCH starts (`EmitInv`), so that it goes to the server of
the environment after a boot, of the row after a PATCH (`Target`);
`FormShows` that a form nobody disturbed holds the row from its load on
(`FormInv`). `Down` says that nothing of a process outlives it.

`LogStoreProofs`, for any threads and number of lines:

| Theorem | Says |
|---|---|
| `TypeCorrect` | `TypeOK` is an invariant |
| `NoRepeat` | `OnceEach` is: the file never holds a line twice |
| `ExactAlone` | `SoloExact` is: without overlapping writers the file is what an atomic log would hold |

`OnceEach` is not inductive: a copy that an append or a purge holds in memory is
written later, so the copies must be free of repetitions too, and the line an
append is about to add must be in no copy (`Once`). `SoloExact` needs that, as
long as no two writers have overlapped, there is one writer at most, and that
what it has copied is the file (`Solo`).

`PageProofs`, of the live log for any runs, stages and size of the box:

| Theorem | Says |
|---|---|
| `TypeCorrect` | `UiLog!TypeOK` is an invariant |
| `SeenIsShown` | `SeenShown` is: a line is remembered exactly while it is in the box |
| `SourceExclusive` | `OneSource` is: stream and polling never run side by side |

`SeenShown` is about ids of events, which contain the id of a run, and a deletion
lets a later run have the id of an earlier one. That a line in the box keeps the
id it was remembered by needs that a run which has published lines does not
change its id (`LinesKnown`) and that runs begin in their order, with ids not
above their number (`RunsInOrder`). `OneSource` needs that a stream is started
again only when it is closed (`Restarts`).

Of the provider table, for any providers and number of edits:

| Theorem | Says |
|---|---|
| `TableTypes` | `TableTypeOK` is an invariant |
| `EditSurvives` | `AloneSurvives` is: no poll closes an edit row opened with no other row open and no load under way |

`AloneSurvives` needs that nothing else gets under way beside the safe edit
(`SafeInv`).

`SchedulerProofs` and `EventStreamProofs`, without further assumptions:

| Theorem | Says |
|---|---|
| `SchedulerProofs!Invariance`, `JobsFollowRows` | `IInv` and `JobsMatch` are invariants |
| `EventStreamProofs!TypeCorrect`, `WithoutGaps` | `TypeOK` and `NoGaps` are |
| `EventStreamProofs!NothingLeft` | `NoneLeft` holds of every step |

`JobsMatch` needs that a request which is alone on its provider has loaded what is
still in the row (`AloneInv`), and that a thread at work is at work on a provider;
the rows that cannot be scheduled stay `amiss`. `NoGaps` is inductive together
with the types of the queues.

**Recursive functions.** `Younger` and `AppendLogs` are functions defined by
recursion over the lines handled so far. That such a function exists, and so
satisfies its equation, is the lemma `Steps`; that a set of numbers which is
closed under the successor holds the whole interval is the lemma `UpTo`. Both
follow from the well-foundedness of the order on the naturals, which the library
states without an operator as parameter. With them `YoungerIs` and
`AppendLogsKeeps` are proved by induction over the lines.

Not proved but model-checked: liveness (`Answered`, `StreamsEnd`, `QueuedSent`,
`OldLeave`, `CatchesUp`, `PollCatchesUp`, `FallsBack`), which is out of this
prover's reach. Every invariant and action property of the passing runs is
stated by a theorem.

## 5. Not modelled

* The link encoders, which are string formatting, and the fetcher's checks of
  addresses: `Ingest` has their outcomes, `Refresh` those of `Ingest`.
* Reading and exporting logs; the detail of what the API validates in a body.
* Deletion in `VersionStore` (it is in `Refresh`) and the directories of former
  names it leaves; several providers at once there and in `Refresh`. Their locks,
  provider rows, versions and directories are disjoint; the ids of `update_runs`
  are not, they are numbered over all providers. So when a provider with the
  newest run is deleted under its refresh, a run of another provider can take the
  id that refresh still writes to: `RunsAdvance` speaks of one provider.
* The pool of 16 threads.
* The faults of a boot in `Refresh`: its versions are those of a store without loss,
  what a boot can cost is in `VersionStore`.
* Deletion of a run under way in `UiLog` (it is in `Refresh`).
* When a trigger fires.
* How long the sink's TCP connection takes: an emission that waits for it is a
  thread between two steps.
* Alembic's schema migrations, which run before the process starts.

## 6. Where the code departs from its documents

Two departures are runs of their own, with the lines they contradict in
`PROJECT.json`:

* `refresh_stale`: the stale headers follow the Provider object loaded before
  the refresh, so the first failure is answered without them.
* `settings_boot`: `_table_exists` (`__init__.py:76`) asks `app.extensions` for a key
  that nobody sets and takes the error for a missing table. So a boot builds the
  sink from the environment and never from the saved row, and never fills the row;
  the docstring at `__init__.py:86` says the sink "reads from AppSettings when the
  table exists". A PATCH repairs it until the next restart.

Further ones have a configuration that shows the counterexample
(`tlc -config <cfg> <module>`) and mark the limits of the properties above:

| Configuration | Violated | Behaviour |
|---|---|---|
| `MC_Refresh_delete.cfg` | `DeletionComplete` | a refresh in flight leaves its version row and files behind a deletion, which does not take the refresh lock (`api.py:167`) |
| `MC_Scheduler_orphan.cfg` | `NoOrphanJob` | a PATCH overlapping a DELETE leaves a job without provider (`scheduler.py:178`); `requirements/planning/20260712_analysis_worker_a_review_findings.md:88` says deleted providers have no active job |
| `MC_Scheduler_raises.cfg` | `SoloMatches` | a PATCH to an interval without `interval_hours` passes the check by the default 24, the column stays NULL, and the trigger raises after the commit: 500, and the old job stays (`api.py:152`, `scheduler.py:98`) |
| `MC_Scheduler_weekday.cfg` | `DayAsShown` | the page's 0 is Sunday (`app.js:133`, `documentation/planning/20260712_doc_shared_contracts.md:37`), the scheduler's is Monday (`scheduler.py:15`) |
| `MC_Settings_overlap.cfg` | `SinkAlwaysMatches` | of two PATCHes the one that read the older row can install its sink last (`api.py:264`) |
| `MC_Settings_lost.cfg` | `NothingLost` | an event is lost to a PATCH that closes the sink it was sent through (`log_sink.py:71`) |
| `MC_Settings_unloaded.cfg` | `LoadedFirst` | a form edited and saved before its load has come writes defaults over the row (`app.js:523,596`) |
| `MC_UiTable_stuck.cfg` | `CatchesUpAlways` | a load under way takes away an edit row opened meanwhile; `editingProviderId` stays set and the table loads no more (`app.js:649,657`); the comment at `app.js:630` says it is the id of a provider "whose edit row is currently on screen" |
| `MC_UiLog_reused.cfg` | `ReusedCatchesUp` | after a deletion a run can have the id of one whose lines the page remembers, and its own are suppressed (`app.js:680`) |
| `MC_UiLog_dark.cfg` | `DropFallsBack` | a stream that is lost and refused again and again never makes the page poll, because every attempt restarts the time-out (`app.js:719`); `documentation/implemented/20260712_doc_ui_usage.md:76` says it falls back when the stream "drops mid-session" |
| `MC_Ingest_aborts.cfg` | `NeverAborts` | a port that is no number, or a type that is a list, ends the conversion of the whole document (`clash.py:90,129`); `documentation/implemented/20260712_doc_converter_usage.md:65` says "a malformed proxy never aborts the run" |
| `MC_Refresh_errorkept.cfg` | `ErrorCleared` | an unchanged refresh leaves an earlier `last_error` in place (`updater.py:140`) |
| `MC_Refresh_etag.cfg` | `EtagOfBody` | body and ETag are read separately (`subscriptions.py:61,67`) |
| `MC_Refresh_events.cfg` | `EventsCommitted` | events precede the commits of their stage (`updater.py:113`) |
| `MC_Refresh_commit.cfg` | `RunsClosed`, `AlwaysServed` | with failing commits a run stays "running" (`updater.py:256`), and a request answers 500 (`subscriptions.py:53`); with `-continue` TLC shows both |
| `MC_VersionStore_lostmove.cfg` | `CurrentIntact` | a move that failed is passed over, the new path is committed, and no later boot looks again (`version_store.py:214,231`, early return at 206) |
| `MC_VersionStore_lostpath.cfg` | `CurrentIntact` | a migration that moved files and failed to commit is served over (`__init__.py:32`) |
| `MC_VersionStore_bigretention.cfg` | `CurrentIntact` | retention above the ring of ten (`config.py:28`) |
| `MC_LogStore_lost.cfg` | `LinesKept` | overlapping appends lose a line (`log_store.py:48`) |

## 7. Plan

Done, in this order: `LastGood`, `VersionStore` and its proofs, `Refresh` and its
proofs, `EventStream`, `LogStore`, `Scheduler`, `UiTable`, `UiLog`, `Ingest`, and the
proofs of `EventStream`, `Scheduler` and `UiTable`; then the other columns of a
schedule in `Scheduler`, `Settings` and its proofs, deletion in `UiLog`, the
proofs of `NamesCurrent`, `LastGoodServed` and `RunsOwned`, the types of `UiTable`,
`IngestProofs` and `OneSource`; then `LogStoreProofs`, the types of `EventStream`,
the box of `UiLog`, `MigrationHeals`, and `OneRefresh` with deletion; then
`RunsAdvance`, `RunsOwned`, `NamesCurrent` and the types of `Refresh` with
deletion, `PrunedToRetention` without the migration's commit, and
`AloneSurvives` as a theorem of `UiTable`'s own specification; then the moves and
migrations that fail at boot, in `VersionStore` and all its proofs, the boot of
`Settings` as it is, sends and purges that fail, and the table left without its
edit row. Left:

1. Deletion and two providers in `VersionStore`, with the directories of former
   names.
2. The thread pool around `EventStream`: pages that hold threads with their
   streams, and requests that wait for one.
3. Two providers in `Refresh`, for the ids of runs that are numbered over both.
4. Proofs: what of `NeverOlder` and `LastGoodServed` survives a deletion; the
   theorems about them need `NoDelete`, and `MC_Refresh_delete.cfg` shows why for
   files.
