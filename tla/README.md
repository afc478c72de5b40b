# TLA+ development for trezarr

trezarr watches a Sonarr/Radarr library, translates source subtitles to
Vietnamese with an LLM and writes a sidecar `<stem>.vi.<ext>` next to the media
file.  This directory holds TLA+ models of its core logic, their TLC runs and
their TLAPS proofs.  Paths below are relative to `src/trezarr/`.

## 1. Inventory

| Component | State | Operations | Interacts with |
|---|---|---|---|
| Job queue and worker (`web/worker.py`, `jobs/models.py`) | table `job`; in memory: `_work_queue`, `_series_locks`, `_background_tasks` | `enqueue_job`, `worker_loop`, `_execute_job`, auto-retry timer, `reconcile_in_progress` (arm 1), `reconcile_in_progress_from_ledger` (arm 2) | calls `process_one_item`; fed by scheduler, webhook, routes |
| Scheduler, webhook, routes (`web/scheduler.py`, `web/routes/*.py`) | none of their own | `poll_and_enqueue`, `receive_webhook`, `post_translate`, `retry_job` | call `enqueue_job`, put ids |
| Lifespan (`web/app.py`) | engine, scheduler, worker task | start: migrate, reconcile, serve; stop: cancel everything | restarts the queue |
| Gap detection (`discover/scan.py`, `discover/gap.py`) | none | `find_source_sub`, `is_eligible`, `scan_for_eligible_items` | reads files and ledger |
| Source selection (`source_selection/*`, `arr/bazarr.py`, `cli.py`) | per-series overrides | ranking, override, fallback | `process_one_item`, between scan and translation |
| Ledger (`output/ledger_sqla.py`) | table `processed_file`, one row per source | `check`, `check_by_output_path`, `record` | gap detection, `translate_file`, arm 2 |
| Writer (`output/write.py`) | the sidecar | `write_vi_sidecar` (temporary file, rename), `apply_permissions` | `translate_file`, `process_one_item` |
| Translation (`translate/engine.py`, `validate.py`, `batching.py`, `sentinel.py`) | one run per job | passes 1 to 4, gate, repair loop | LLM client, Bible, ledger, writer |
| Series Bible (`bible/store.py`, `merge.py`, `models.py`, `web/routes/bible.py`) | series, characters, terms, address pairs, relationship and audit events | inferred merge under locks, carry-forward, human edits, deletes | pass 1, reconciliation, UI |
| Analysis, attribution, reconciliation (`bible/analyze.py`, `translate/attribute.py`, `translate/reconcile.py`) | none | one LLM call per chunk or batch, merge, pronoun resolution, write-back | Bible |
| LLM client (`llm/client.py`) | one semaphore | `call` with three tiers | every pass |
| Migrations, JSON import (`db/migration_runner.py`) | backup files next to the JSON ledger | import once, commit then rename | command line |
| Settings (`config.py`, `web/config_writer.py`, `web/routes/settings.py`) | `config.yaml`, `app.state.settings` | write, hot reload | everything |
| Codecs, paths, discovery, frontend | none | parsing, mapping, HTTP, display | |

What is hard here is not one function but the order of things:

* one event loop with many coroutines, and a database that opens its
  transaction at the first write, so a SELECT and the INSERT or UPDATE that
  relies on it can be separated by another coroutine;
* a queue, locks, tasks and timers that vanish in a crash, over durable tables
  and a file system that survive it and must agree again afterwards;
* other programs that write and delete the very files that are read and
  written, between any two steps;
* automatic retries on three levels (batch, job, sweep), each with a budget;
* texts, attributions and corrections that come in batches of three different
  sizes and must each find the way back to its own line;
* two decisions about one thing, taken at different times by different rules
  (which source; who may overwrite; which lock).

What makes the components correct:

* queue: a job is never lost, never run twice at once, never run concurrently
  with one of its series, retried automatically only as often as configured,
  and ends (`NoStrandedJob`, `RunningIsExecuted`, `DispatchedOnce`,
  `SeriesExclusion`, `AutoBudget`, `AutoRetryBudget`, `OrphansAdopted`,
  `JobsFinish`, and the refinement `RowsLive`);
* library: our output is not mistaken for a foreign file, unless a quarantine
  made the ledger forget its path, nor the reverse; a source counts as
  translated only if the sidecar shows its present content; and the best source
  wins in the end, as far as the sweep can see (`OwnOutputKnown`,
  `UntouchedStays`, `SkippedIsCurrent`, `Converges`);
* source selection: what is translated is what the user or the ranking wants,
  and no text is translated twice, both as long as our own output is not taken
  for the source (`ResultIsWanted`, `TranslatedOnce`);
* Bible: an inference changes no field that it knew to be locked, lifts no lock
  and replaces nothing established that it had loaded, an edit lifts no lock but
  its own, a character has no more rows than there are locks, the newest event
  names the value (`LocksReadAreKept`, `EstablishedKept`, `LocksLiftedByHand`,
  `CharactersBounded`, `HistoryFollows`; under one lock `LockedKept`, which the
  code's two locks break);
* translation: a text, a pronoun hint and a pair of brackets stay with their
  cue, no semaphore slot is lost, pronouns in use change only for a reason,
  nothing is published that the gate has not passed in its final form, and a
  run ends (`OwnText`, `HintsOwn`, `EnvelopesKept`, `SlotsAccounted`,
  `EstablishedTermsHold`, `Implements`, `RunEnds`);
* start-up and settings: an import loses no entry and takes back no newer one,
  a mask never becomes the secret, the routes see what is in the file
  (`EntriesSurvive`, `NewerKept`, `MaskIsNoSecret`, `AppIsFile`).

`PROJECT.json` lists the hazards line by line with the properties that cover
them, and for those without one the reason.

## 2. Modules

How the modules fit together: `Pipeline` is the inside of the step that
`Library` calls `Translated`/`Quarantine` and `JobQueue` calls one of the five
outcomes of a translation; `Bible` is the inside of `Pipeline`'s `Merge` and of
the Address Map that its `Reconcile` writes; `Selection` is what comes between a
sweep of `Library` and its run; `Startup` precedes all.  The modules are checked
one by one and meet in abstract specifications and in their environments: each
takes what the others may do as nondeterministic steps.

**`JobQueue`** is the daemon's queue.  A step is what a coroutine does between
two awaits at which another may run.

| Model | Code |
|---|---|
| `jobs`, `nextId`, `ledger` (durable) | table `job`; status column of `processed_file` |
| `queue`, `task`, `owner`, `caller`, `timers` (lost in `Crash`) | `_work_queue`, `_execute_job` tasks, `_series_locks`, coroutines inside `enqueue_job`/`retry_job`, sleeping `_delayed_reenqueue` tasks |
| `PollSweep`, `SweepItem`, `ManualTranslate`, `TimerFires` | the callers of `enqueue_job` |
| `EnqueueDedup`, `EnqueueCap`, `EnqueueInsert`, `EnqueuePut` | `enqueue_job`: dedup, cap, insert, and the second session that looks the row up again |
| `RetrySelect`, `RetryReset`, `RetryPut` | `retry_job` |
| `Dispatch` | `worker_loop` |
| `JobStart`, `AcquireLock`, `Translate...`, `JobCommit`, `JobUnhandledError` | `_execute_job`; what `process_one_item` does to the ledger is one of five outcomes |
| `Crash`, `ReconcileJobs`, `ReconcileLedger`, `Serve` | the lifespan's stop and start |

`retry_job` awaits its SELECT and then its UPDATE, and other coroutines run in
between, so the two are separate steps.  A webhook's sweep and the scheduler's are
the same function, hence the same action; two `Callers` are two sweeps at once.

**`JobLifecycle`** is the abstract specification: what a reader of the `job`
table (queue page, badge, retry button) may rely on.  `RowsLive` is its
instance over `JobQueue`'s status columns, checked as a refinement.  It holds as
long as no two calls are enqueuing for the same path and trigger; otherwise a
duplicate id can execute a finished row again, which is finding 1 seen from the
table.

**`Library`** is one media file: sources in order of priority, the one sidecar,
a ledger row per source, and `translate_file` around the translation proper.
`SourceWritten`, `SourceRemoved`, `ForeignWritten` and `SidecarRemoved` are the
other programs (external); `Sweep`/`SweepAborts` are `scan_for_eligible_items`
with `is_eligible`; `Begin` to `Finish` are the steps 1 to 11 of
`translate_file`, cut at every await; `Crash` keeps files and ledger.  A version
number stands for a content and its hash.  `pending` abstracts `JobQueue`: a
source with an active job is not enqueued again, a lane (series lock) runs one
translation at a time, a crash queues what was running.  Simplifications: all
sources share the sidecar's extension; a sweep's scan and its enqueue are one
step (a stale scan is a manual request, which needs no eligibility); the job
table's cap on failures is not reached.

**`Bible`** is the Series Bible of one series.  A call of `store.py` opens a
session, SELECTs, computes and commits; SQLite's write transaction begins with
the first write, and an UPDATE sets only the columns that differ from the row as
it was read.  So a call is two steps, the read, which leaves its effect in a
transaction record `tx`, and the `Commit`, which applies it to whatever the row
has become.

| Model | Code |
|---|---|
| `rows` (two fields each, `locks`, and the newest event `told` of each field) | `series`, `character`, `term_dictionary`, `address_map` with `locked_fields`; `bible_event` |
| `Key`, `Plain`, `SameName` | `.strip().lower()` of Python against SQLite's `lower()` of the stored name |
| `holder` | `_series_locks` |
| `worker` | one `merge_bible_analysis`: `GetOrCreateSeries`, `MergeRegister`, `LoadBible`, `MergeCharacter`, `MergeTerm`, `PlanLocks`, `LockName`, `MergePair`, each with its failures; `known` and `ids` are `existing_pair_keys` and `name_to_id` |
| `request` | a route of `web/routes/bible.py`: `Submit`, `CommitEdit`, `DeleteTerm`, `DeletePair` |
| `Merged`, `Upsert`, `CarriesForward` | `compute_field_changes`, `upsert_*`: locked > prior > inference |
| `EditField`, `EditPair`, `LockTx` | `apply_human_edit_*`, which write the whole lock list; step 3.5 uses the last |
| `Crash` | workers, requests and locks vanish, rows stay |

`Lane` gives the lock key a worker runs under, the *arr id, and `PrimaryKey` the
one of the routes.  They differ in both runs, as in the code, and the theorems
hold for any keys.  A row has two fields, so that an edit of one meets the lock
of the other in the list it writes; a pair has its two terms, and a series only
its register.  `Names` are spellings: two may have one `Key`, and one that is
not `Plain` is found by no SELECT, its own included.

**`Document`** is what `translate_file` computes of a subtitle without awaiting
anything: `Batches` (`batch_subdoc`), the reading of a numbered reply
(`Parses`, `KeepsTags`), `Assembled`, `Spliced` (review), `Repaired`,
`Enveloped` and the `Gate`.  A text is abstracted to the check of the gate that
rejects it and to the cue it was made of.  **`Pronouns`** is attribution and
reconciliation: `Attributed`, `Resolved1` (lock, event, established, safe),
`Completed` (reciprocal pairs), `Upserted` (write-back).

**`Pipeline`** is one run of `translate_file` from the `in_progress` record to
its end.

| Model | Code |
|---|---|
| `stage` | where `translate_file` is: claim, open, analyze, merge, reload, attribute, reconcile, hints, translate, review, gate, repair, write, finish, end |
| `tasks`, `slots` | the calls of the stage (chunks one by one, batches as a TaskGroup); `LLMClient._semaphore` |
| `Acquire`, `CallFails`, `...Answered` | `LLMClient.call`, `_call_with_fallback`, `_translate_batch`, `_review_batch`, `attribute_batch`, `analyze_chunk` |
| `GroupFails` | a TaskGroup whose task raised; others may have raised too |
| `map`, `bible`, `suggested` | the Address Map in the database, as reloaded, and Pass 1's events |
| `attributions`, `resolved`, `lines`, `budget` | `flat_attributions`, `resolved_map`, `translated_doc`, `_repair_budget` |
| `row`, `sidecar`, `outcome` | the ledger row, the document written, how the call of `translate_file` ended |
| `Breaks`, `UserEdits` | an exception or cancellation anywhere; a PATCH or POST on a pair |

**`Translation`** is its abstract specification, what a run promises the worker
and the disk: in_progress first, a sidecar only of what passed the gate, done
only after it, quarantined only without it.  `Pipeline!Implements` is the
refinement.

**`Selection`** is which subtitle is translated: `Scan` takes the first language
of the global list, `Select` (the selection in `process_one_item`, with both of
its `except` branches) the series' override or the richest language, and
`Translate...` is one run of `translate_file` on what was selected.  `LocalPath`
tells a run of the command line, whose item carries its path, from a job of the
daemon, whose snapshot does not.  Our own `vi` file lies among the candidates,
as in the code.  A content remembers its source and how often it was translated;
`paid` are the texts that were translated since our output was last removed.
Sidecars of other programs are `Library`'s.  A scan that raises is a `Scan` that
is not enabled.

**`Startup`** is how a process begins and how its settings change: `Start`,
`Upgrade` (schema), `Skip`, `Parse`, `PutAside`, `Commit`, `Rename`,
`RenameFails`, `Block` for the import of the JSON ledger; `PutSettings`,
`PutFails`, `StopsInPut` for `PUT /api/settings`; `Record` for what the program
records in between; `OperatorResolves`, `OperatorRetries` for the two ways out
that the log proposes.  Four settings stand for the kinds there are: a plain
one, a secret, the host that with the secret switches a service on, the switch.

The `MC...` modules give the constants values for TLC, the `...Proofs` modules
hold the theorems.  An operator `X_Suffix` directly before an operator `X` is a
plausible slip in `X`, kept to show which property notices it.

## 3. Runs

| Run | Instance | Shows |
|---|---|---|
| `queue_serial` | 2 paths of a series, 1 caller, 2 tasks, 2 rows, 1 crash, 1 user request | all safety of the queue and the refinement |
| `queue_burst` | 1 path, 2 callers, 2 tasks, 4 rows, 1 crash | what survives a race of two sweeps; the retry ceilings |
| `queue_live` | 2 paths, 1 caller, 2 tasks, 1 crash, fairness | every job ends |
| `queue_stranded` | 1 path, 2 callers | **violation**: a queued row nothing will run |
| `library` | 3 sources, 3 writes, 1 foreign sidecar, 1 removal, 1 manual request, 1 quarantine or error, 1 crash, fairness | provenance, idempotency, convergence to the best source |
| `library_sweep` | 3 sources | **violation**: the sweep raises |
| `bible` | 1 worker and 2 requests under the code's two keys, 2 spellings of a name, 3 values, 2 merges with 3 writes, 2 edits, 1 fault or crash | what holds of locks, carry-forward, duplicates and history |
| `bible_lock` | 1 request, 1 spelling, no faults | **violation**: a merge overwrites what a user locked |
| `pipeline` | documents of 3 cues, 2 characters, 2 slots, 1 fault, 1 edit, 1 repair, 2 attempts, fairness | text, hints, brackets, slots, pronouns, refinement, end |
| `startup` | 2 paths, 3 starts, 2 puts, 1 record, 2 faults | import and settings |
| `source` | a Korean series, English, Korean and Chinese subtitles, the default priority `en`, Bazarr reporting the last two under other names, 4 writes, 1 removal, 2 overrides, 1 failure | the wanted source is translated, each text once |
| `source_daemon` | English and Korean subtitles, as a job of the daemon, with an override | **violation**: the override has no effect |

Bounds.

* Queue: two paths of one series are the least at which a lock matters; two
  tasks the least at which two jobs meet; the second row of a path exists only
  after a failure or a race, and four rows with caps of two let every cap be
  reached and passed.  One crash suffices for every state a restart can begin
  from, as start-up does not look at how often it happened.  `Slots` and
  `MaxJobs` are bounds of the model: the code limits neither tasks nor rows.
* Library: three sources are the least at which two rows share an output path
  while a third has none.  Three writes give each source a content, or one of
  two a second; a change can fall between any two steps of a translation.
  `Converges` has four ways to end otherwise, all of them the code's: another
  program's sidecar, ours after a quarantine (which forgets it), one that two
  rows claim (`SweepsSurvive`), and one that replaced the best source's
  translation after its row said done (`Replaced`).
* Bible: rows of different names do not look at each other, so one name, which
  is a character, a term and a pair at once, has all the conflicts; its two
  spellings are one key for Python and two for SQLite.  An analysis always says
  the same, a user sets what it does not say or blanks a field, so any two
  values that differ are of different origin.  The second merge finds the rows
  of the first and the edits between.  Two requests suffice for a stale lock
  list, as every read and commit can be separated by any step of the other side.
  Three writes of the worker are a series, a row and a later change of it.
* Pipeline: three cues are the least with a raw cue before two others that fall
  into different batches; `MCCases` has a raw, a tagged and an enclosed cue, a
  scene gap, settings with and without Bible, review and repair, in the modes
  `auto`, `json_object` and `text`.  Two slots with two batches and a limit of
  faults let a call wait, fail, fall back and be cancelled.  A user edits at
  `reconcile`, the one window between load and write-back.
* Startup: an import that is cut short, repeated and blocked needs three
  starts; two paths let an entry be valid next to one that is not.
* Selection: English (tier 3), our own output (2), Chinese (1) and the original
  language, Korean, are all the classes the ranking tells apart, so our output
  does rank before the configured language; each of the two rich ones may be on
  disk, only reported by Bazarr, or neither.  The overrides are one against the
  ranking, one that is the global list (which the code drops) and none.  A file
  is never restored to an older content.  `MaxTimes` bounds how often our output
  is translated again.

Symmetry is used in `queue_serial`, `queue_burst`, `bible` and `startup` only,
whose properties are invariants and step properties of interchangeable paths,
callers, tasks or requests; never under liveness.

Fairness.  `JobQueue!Fairness`: every ready coroutine runs (weak fairness of
caller and task steps and of the dispatch): asyncio's loop is first come, first
served.  `AcquireLock` is strongly fair, because `asyncio.Lock` wakes its
waiters in order: a waiter is not passed over for ever by jobs that come later.
The container is restarted after it stops.  `Library!FairSpec`: the scheduler's
interval comes round and a translation that began goes on.
`Pipeline!FairSpec`: the event loop runs what is ready, and a model call returns
or times out (the SDK's timeout).  Nothing is assumed of users, webhooks, other
programs or of what a model answers, and no failure has to stop by itself: it is
bounded by its constant.  `Bible`, `Startup` and `Selection` have no liveness.

Deadlock is not checked: an idle daemon, or a run that has ended, stops in the
model once its bounded inputs are used up, and waits for the next request in
reality.  That nothing waits on something for ever is `JobsFinish` and
`RunEnds`.

## 4. Findings

Shown by a run; lines quoted in `PROJECT.json`:

1. Two sweeps at once can strand a queued row (`queue_stranded`).
2. Two upgrades of one file end all sweeps (`library_sweep`).
3. Routes and worker lock a series under different keys, so a merge can
   overwrite a field the user has just locked (`bible_lock`).
4. A series' source override does nothing in the daemon (`source_daemon`).

Met while modelling, in the models but without a run of their own:

* A repair looks pronoun hints up by document index, in a list that has no raw
  cues (`translate/engine.py:1503`, against the comment at 1489): behind a
  karaoke or drawing cue the repaired line is hinted another line's pronouns.
  `Pipeline!RepairHints` is as the code; Pass 3 does it right (`HintsOwn`).
* With the default priority `en` and an English and a richer subtitle, the scan
  finds the English one, the run translates the other, and the English one, of
  which no row tells, is eligible again at every scan, against "No loop"
  (`discover/gap.py:68`); each run then finds the other's row done and skips.
* Our own `<stem>.vi.srt` is ranked as a source, with tier 2, before `en` with
  tier 3 (`discover/scan.py:475`, `source_selection/rank.py:32-49`).  At the
  defaults, once an English subtitle of a series that is not originally English
  has been translated, every change of it makes the run translate our output,
  and a file that its own translation overwrites never matches its hash: it is
  translated again and again.  `ResultIsWanted` and `TranslatedOnce` say what
  holds where another file is chosen, and are false of runs that choose ours.
* When the series' row cannot be loaded, or the selection raises, the override
  is not known or the scan's choice stays (`cli.py:146-151`, `205-211`, D-104).
  `Selection!Select` has both; `ResultIsWanted` says what such a run writes.
* A language of the override that only Bazarr reports, its file having another
  name, is selected and then has no path (`discover/scan.py:489-492`,
  `cli.py:204-211`): the run falls back to the scan's choice, not to the next
  language of the override, though that one is on disk.  `ResultIsWanted` says
  what holds then.
* `web/worker.py:529-544` says that an item translated without its Bible is
  retried; its row says `done` with the present hash, and `discover/gap.py:141`
  never finds it again.
* The foreign sidecar check is made only on the ledger's silence
  (`discover/gap.py:117`), and a quarantine forgets the output path although an
  earlier sidecar is still there (`translate/engine.py:1724`): our own sidecar
  is then foreign to every other source.  `OwnOutputKnown` has this exception,
  `UntouchedStays` says what does hold for foreign ones.
* Once the best source's row is done with its hash, nothing looks at what the
  sidecar holds: a poorer source that is translated by hand, by a delayed retry
  (`web/worker.py:610-633`) or after it waited for the lock, or another
  program's file, replaces the translation of the best for good.
  `Library!Replaced` is this exception of `Converges`.
* When Pass 1 cannot load the Bible it takes no pair for existing ("safe
  degrade", `bible/analyze.py:672`), and gives every unlocked pair the terms it
  has just inferred, against create-or-affirm (`814-823`): established pronouns
  change without an event or an edit.  `Pipeline!MergeUnloaded` and
  `Bible!LoadBibleFails` do so; `EstablishedTermsHold` and `EstablishedKept`
  name the exception.
* `bible/store.py:451` calls the SELECT of a name "case- and
  whitespace-insensitive, CR-01".  SQLite's `lower()` folds only ASCII, and the
  stored name is not stripped: a name with an accented capital, or stored with
  padding, is found by nobody and inserted again at every upsert.
* Worker and routes lock two keys (finding 3), so `add_character` and a merge
  can both insert a character; after that `scalar_one_or_none` raises at every
  upsert of it.  For the same reason step 3.5, which writes the lock list of a
  term, can lift a lock that a PATCH has set on its category in between, and a
  PATCH one that step 3.5 has set.  `CharactersBounded` and `LocksLiftedByHand`
  say how far this goes.
* A PATCH that sends the value it read logs an event and writes nothing; if a
  merge changed the field in between, the newest event names the old value
  (`HistoryFollows` has this exception).
* `PUT /api/settings` that cannot write its file logs "changes applied in-memory
  only (restart to lose them)" (`web/routes/settings.py:91-99`).  Nothing is
  applied: the reload that follows reads the old file, or the defaults if it has
  been cut.  `AppIsFile` says so, for any sequence of such requests.
* Terms that Pass 1 suggests for a relationship event have no column and are
  gone when reconciliation reads the events back (`bible/dto.py:152`,
  `translate/reconcile.py:314`).  `Pipeline!AsLoaded` models it.
* `add_term` and `add_address_pair` take no lock: two requests can insert the
  same pair, after which `scalar_one_or_none` raises.  `session.delete` is not
  awaited (`bible/store.py:1485`, `1519`).
* When the list of terms cannot be loaded (`bible/analyze.py:757`), locking the
  character names overwrites terms that exist.
* `attribute_batch` lets an API error through though its docstring says it never
  raises; `_make_batch`'s first index is wrong with raw cues in between
  (`translate/batching.py:90`); two sources of one stem share a quarantine file.
* The daemon never imports a JSON ledger (`cli.py:438` is the only caller); a
  passing `OSError` puts the ledger aside as corrupt
  (`db/migration_runner.py:229`).
* `config.yaml` is cut before it is dumped (`web/config_writer.py:169`); the
  body of PUT is not validated though `config_writer.py:107` says so; a service
  that was switched off by hand is switched on again (`155-158`); the hot reload
  reaches only `app.state.settings`.
* Three-letter codes: `_LANG_CODE_RE` strips two letters, and `eng` never equals
  an original language `en`.

## 5. Proofs

TLAPS proves, for every value of the constants that satisfies the named
assumptions (TLC evaluates these in every run):

| Module | Theorems | Assumptions |
|---|---|---|
| `JobQueueProofs` | `TypeCorrect`, `SeriesSerialized`, `RunningRowsAreExecuted`, `NoOrphanWhileUp` | `JobQueueAssumption` |
| `JobQueueSerialProofs` | if `[]Apart`: `NoJobStranded`, `DispatchedOnceAlways`, `ImplementsLifecycle` | the same, `ProcessAssumption`; `Apart`: no two calls of `enqueue_job` past their dedup are for the same path and trigger, no two of `retry_job` for the same job |
| `JobQueueBudgetProofs` | `AutoBudgetAlways`, `AutoRetryBudgetAlways` | `JobQueueAssumption`, `ProcessAssumption` |
| `LibraryProofs` | `TypeCorrect`, `OwnOutputKnownAlways`, `SkippedIsCurrentAlways`, `UntouchedStaysAlways` | `LibraryAssumption` |
| `BibleProofs` | `TypeCorrect`, `LocksReadAreKeptAlways`, `LocksLiftedByHandAlways`, `EstablishedKeptAlways`, `CharactersBoundedAlways`, `HistoryFollowsAlways` | `BibleAssumption`, which says nothing of the lock keys |
| `PipelineProofs` | `TypeCorrect`, `OwnTextAlways`, `HintsOwnAlways`, `SlotsAreAccounted`, `ImplementsTranslation`, `EnvelopesAreKept`, `EstablishedTermsHoldAlways`, `BatchesWithinLimits` | `PipelineAssumption`; for `BatchesWithinLimits` an integer `Budget` |
| `SelectionProofs` | `TypeCorrect`, `TranslatedOnceAlways`, `ResultIsWantedAlways` | `SelectionAssumption`, `ContentAssumption`, which say nothing of priority, tiers or overrides |
| `StartupProofs` | `TypeCorrect`, `EntriesSurviveAlways`, `NewerKeptAlways`, `MaskIsNoSecretAlways`, `AppIsFileAlways` | `StartupAssumption` |

Each rests on an inductive invariant with one step per action, checked with TLC
before it was proved.

*JobQueue.*  `IInv` adds to `TypeOK`: `IdsInserted` (every id in the queue, in a
task or held by a coroutine is that of an inserted row; otherwise a step on
`jobs[id]` could touch a row that does not exist yet); `LockHeld` (a task that
translates owns the lock of its job's key, from which exclusion follows, and the
key of a row does not change while a task holds it); `RunningHeld` (a running row
has a task while the process is up, and is made queued by `ReconcileJobs` while
it is down); and `OrphansAdopted` itself.

*JobQueue, callers apart.*  `DispatchedOnce` says where an id is, not what its
row says.  `SerialInv` adds that the status of a row tells where its id is
(`StatusTells`), that what a caller found out in its dedup, its lookup or its
retry still holds at its next step (`CallerSound`), and that nothing is in
memory while the process is down.  `CallerSound` has to survive the steps of the
other callers, of which there may be any number.  The condition for that,
`Apart`, is a condition on the behaviour and not on the constants: two sweeps
may be inside `enqueue_job` at once as long as they are not at the same path
with the same trigger, and a retry may run beside both, since only `retry_job`
marks a row `manual-retry` and the lookup of `enqueue_job` goes by the trigger.
`queue_stranded` is two calls for one path and trigger: `CallerSound` breaks
there, and `NoStrandedJob` and `DispatchedOnce` become false, so the theorems
need the condition.  A single caller is apart by the definition, hence
`queue_serial` is an instance; instances of two callers that stay apart have
several million states and were checked apart from the runs.  With `SerialInv`
every step of the queue is one of `JobLifecycle` or leaves the status column
alone.

*JobQueue, without a condition.*  The cap is read long before the insert, so
what bounds the rows is who may still insert one: `Bounded` counts the
unfinished rows of a path with the callers that are past the dedup, and the rows
of the cap with the callers that are past the cap.  That an unfinished row stops
a dedup is of no use if a finished row can come back to life, and ids do get
into the queue twice, since the put looks its row up by path, status and
trigger and may find another caller's.  `Counted` is the fact that saves the
ceiling: there are never more ids on their way than queued rows of that path
and trigger, so where the dedup passes none is left.  `RetryInv` is about the time
before any manual request: auto-retry rows with the calls past the cap are no
more than the failures that are final (`Chained`), and as long as no id has been
lost, each auto-retry row, call and sleeping timer has a failed row of its own
(`Traced`).

*Library.*  `IInv` is `Types`, `OneJob` (a source is pending or running in one
lane), `LedgerInv` (a run past step 4 has its source's row, in_progress, to
itself), `RunHashes` (the hash a run carries is no newer than the content it
reads, and neither is newer than the file) and `SidecarInv` (what the sidecar
was made from is no older than what its row says of it, nor than the hash of
the run that is about to record it).  `SkippedIsCurrent` alone is not inductive:
it holds because the hash is taken before the content, and `RunHashes` is what
remembers that.

*Bible.*  `IInv` says what a transaction record will write (`MergeOK`,
`RequestOK`): it leaves the locks it has read and the fields under them alone,
logs every change, and fits a row that is still there; and that a lock has one
holder which knows it (`Held`).  Nothing in it depends on the keys.  Two more
invariants use the locks there are.  `PatchSees`: of a row other than a term
only the routes' PATCHes write the lock list, and all of them under one lock, so
the list one has read is the present one.  `RowsBounded`: the rows of a
character and the locks under which one is being added (`AddedUnder`) are
together no more than all locks, since a row is added only where the SELECT
under that lock found none.

*Pipeline.*  `CallInv`: tasks exist only in the stages that call a model, one in
a repair, and free slots and held slots add up; every stage is left with all
calls answered or with the slots of the cancelled ones given back.  `RunInv`:
how far a run is tells what is on disk, and from the gate to the write the
document is the one that passed; the refinement maps `Claim`, `Write`, `Finish`,
the quarantines and the failures to the actions of `Translation` and everything
else to stuttering.  `BracketInv`: from the assembly on there is a line for
every cue, and `EnvelopesRestored` puts the brackets back after each change.
`EstablishedTermsHold` follows from one lemma about the resolution of a pair and
from what each of the two merges may enter.

That each line has the text, and each cue the hint, of its own is `DocInv`.  It
says what each call was asked (`Asked`: the batches of its stage), that its
answer has an entry for each cue of its batch, made of that cue (`AnswerFits`),
that the flat list of attributions is one for each translated cue, in order
(`AttributionsInv`), and that the lines are one for each cue, each its own
(`LinesInv`).  The three passes cut the same list of cues, `Todo`, at different
places.  Two facts carry this over from one to the other: batches are
consecutive slices of `Todo` that cover it, whatever the sizes (`BatchesAre`),
and an element of flattened slices lies as far behind the first as its slice
and its place in it say (`Lands`).  Both are proved by the least counterexample
(`WFMin`), as the induction theorems cannot be instantiated here.  In the same
way `BatchesWithinLimits` shows the greedy walk right: between two cuts the walk
remembers the first of them (`SliceBegins`), so no cue but the first closed the
batch it was added to, and the fold that counts characters grows by one cue at a
time (`SizeGrows`).  No property of a run needs it; it is what `batch_subdoc`
promises its callers.  `MapsInv` and
`ControlInv` complete the types.

*Startup.*  `IInv` is `FilesOK`, `SettingsOK`, `CountsOK`, `ImportInv` (what each
step of the import relies on, and that a file that was renamed or blocked has
all its valid entries in the table), `SettingsInv` (a serving process has the settings of the file)
and `MaskIsNoSecret`.

*Selection.*  `TInv` adds to the types what a run has found and chosen at each
step.  `Texts` says where a content can lie: a source has its own text, never
translated, and a version that has been written; our file has a translated one.
With `Paid`, a text that is paid for is in a source only as long as its row is
done with its hash, and our output is there: so its run skips, and a new content
is a new text.  `ResultInv` carries the source that is wanted (`Source`) through
the selection to the end of the run; `BestIsWanted` shows that the code's
ranking without our own output picks it.  None of it depends on the order of the
priority, on the tiers, or on the path.

Only model-checked: liveness (`JobsFinish`, `Converges`, `RunEnds`), which is
beyond this prover.  Every other property of a passing run is a theorem.  Only
the three of `JobQueueSerialProofs` have a condition, which `queue_serial` meets
and `queue_stranded` shows to be needed.

## 6. Not modelled

* Path mapping and media roots (`paths.py`): string and file system checks
  without state.
* The read-only API, the frontend, metrics and logs: no state changes that other
  components rely on.
* The characters of subtitles: `subtitles/*`, the regular expressions of the
  gate and of the sentinels.  Only what a cue or a line is to the pipeline is
  modelled; round trips are better tested than model-checked.
* Prompts and what is in them, except whose pronouns a cue is hinted.
* HTTP to Sonarr, Radarr, Bazarr and to the model: any answer they may give is a
  nondeterministic choice.
* The Alembic revisions, which are schema only; the Bible's relationship events
  as rows, its field-by-field union of chunks, and a third field of a row
  (`rough_age`), which is treated like the second.
* The `job_log` rows, and the second failure of the database inside the handler
  of a first one (`web/worker.py:653`), after which a row stays running until
  the next start; the code calls that handler best effort.
* A failure of the second session of `enqueue_job` after the first has committed
  (`web/worker.py:300-310`): the row stays queued, its id is never put, and the
  path is blocked until the next start.
* `enable_envelope_preservation` switched off: `EnvelopesKept` is about the
  default.
* A starved waiter of the series lock: `asyncio.Lock` serves in order, which is
  assumed (section 3).

## 7. What is left

* `Library` with sources of different extensions, and its composition with
  `Selection` in place of the single priority list.
* A run of its own for the loops of the default priority, and for the second
  session of `enqueue_job` failing (sections 4 and 6).
