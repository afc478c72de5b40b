------------------------------- MODULE JobQueue -------------------------------
(***************************************************************************)
(* The daemon's job queue: trezarr/web/worker.py with the routes and the   *)
(* scheduler that feed it and the lifespan that restarts it.               *)
(*                                                                         *)
(* The job table (`jobs') and the ledger of processed files (`ledger')     *)
(* are durable.  Everything else lives in the process and is lost when it  *)
(* stops: the asyncio.Queue of job ids, the _execute_job tasks, the        *)
(* per-series locks, the coroutines that are inside enqueue_job or         *)
(* retry_job, and the sleeping auto-retry tasks.                           *)
(*                                                                         *)
(* A step is what a coroutine does between two awaits that let another one *)
(* run.  A SELECT and the INSERT or UPDATE that follows it in the same     *)
(* `session.begin()' block are two steps: the SQLite driver opens the      *)
(* transaction at the first write, and nothing in the schema (source_path  *)
(* is not UNIQUE) rejects a write based on a stale read.                   *)
(***************************************************************************)
EXTENDS Naturals, Sequences, FiniteSets, FiniteSetsExt

CONSTANTS
  Paths,               \* source subtitle files
  LockKeys,            \* keys of _series_locks: series ids and NoSeries
  NoSeries,            \* the key of a job without a series id (-1 in the code)
  SeriesOf,            \* the *arr series id of each path
  Callers,             \* coroutines that may be inside enqueue_job or retry_job
  Slots,               \* _execute_job tasks alive at once (bound)
  MaxJobs,             \* rows ever inserted in the job table (bound)
  MaxCrashes,          \* process stops (bound)
  MaxManual,           \* requests of a user: POST /translate and retry (bound)
  JobMaxAutoAttempts,  \* settings.job_max_auto_attempts
  JobAutoRetryMax,     \* settings.job_auto_retry_max
  NoPath, NoSlot       \* absent values

JobIds == 1..MaxJobs

ASSUME JobQueueAssumption ==
  /\ NoPath \notin Paths
  /\ NoSlot \notin Slots
  /\ NoSeries \in LockKeys
  /\ SeriesOf \in [Paths -> LockKeys]
  /\ MaxJobs \in Nat
  /\ MaxCrashes \in Nat
  /\ MaxManual \in Nat
  /\ JobMaxAutoAttempts \in Nat
  /\ JobAutoRetryMax \in Nat

\* A process has finitely many coroutines.
ASSUME ProcessAssumption ==
  /\ Callers # {} /\ IsFiniteSet(Callers)
  /\ IsFiniteSet(Slots)

VARIABLES
  phase,    \* of the process: "down", "adopting" (start-up, ARM 2) or "up"
  ledger,   \* ProcessedFile status of each path
  jobs,     \* the job table, by id
  nextId,   \* the id the next INSERT gets
  queue,    \* _work_queue
  task,     \* the _execute_job tasks
  owner,    \* _series_locks: the task that holds each lock
  caller,   \* the coroutines inside enqueue_job, poll_and_enqueue or retry_job
  timers,   \* sleeping auto-retry tasks, by the job that scheduled them
  crashes, requests   \* used up of MaxCrashes and MaxManual

vars == <<phase, ledger, jobs, nextId, queue, task, owner, caller, timers,
          crashes, requests>>

-----------------------------------------------------------------------------
(* Values. *)

Active   == {"queued", "running"}
Terminal == {"failed", "quarantined"}
JobStatus == {"absent", "done"} \union Active \union Terminal
AutoTriggers == {"poll", "auto-retry"}
Triggers == AutoTriggers \union {"manual", "manual-retry", "startup-reconcile"}

LedgerStatus == {"none", "in_progress", "quarantined", "done"}

JobRow == [path: Paths \union {NoPath}, key: LockKeys, trigger: Triggers,
           status: JobStatus, attempts: Nat]
NoJob  == [path |-> NoPath, key |-> NoSeries, trigger |-> "poll",
           status |-> "absent", attempts |-> 0]

TaskPc == {"idle", "start", "lock", "work", "translating", "commit"}
Outcomes == {"done", "quarantined", "transient", "failed"}
Task   == [pc: TaskPc, id: JobIds \union {0}, result: Outcomes]
NoTask == [pc |-> "idle", id |-> 0, result |-> "done"]

CallerPc == {"idle", "sweep", "dedup", "cap", "insert", "put",
             "retry_reset", "retry_put"}
Caller == [pc: CallerPc, todo: SUBSET Paths, path: Paths \union {NoPath},
           key: LockKeys, trigger: Triggers,
           id: JobIds \union {0}]
NoCaller == [pc |-> "idle", todo |-> {}, path |-> NoPath, key |-> NoSeries,
             trigger |-> "poll", id |-> 0]

RowsOf(p, S) == {j \in JobIds : jobs[j].path = p /\ jobs[j].status \in S}
KeyOf(s)     == jobs[task[s].id].key
PathOf(s)    == jobs[task[s].id].path

CallerBecomes(c, new) == caller' = [caller EXCEPT ![c] = new]
TaskBecomes(s, new)   == task' = [task EXCEPT ![s] = new]
JobBecomes(j, new)    == jobs' = [jobs EXCEPT ![j] = new]

-----------------------------------------------------------------------------
(* Init: the first start of the daemon on a ledger that one-shot runs of   *)
(* the command line may have left in any state; no job row exists.         *)

Init ==
  /\ phase = "down"
  /\ ledger \in [Paths -> {"none", "in_progress", "done"}]
  /\ jobs = [j \in JobIds |-> NoJob]
  /\ nextId = 1
  /\ queue = <<>>
  /\ task = [s \in Slots |-> NoTask]
  /\ owner = [k \in LockKeys |-> NoSlot]
  /\ caller = [c \in Callers |-> NoCaller]
  /\ timers = [j \in JobIds |-> 0]
  /\ crashes = 0
  /\ requests = 0

-----------------------------------------------------------------------------
(* enqueue_job.  Its callers are poll_and_enqueue (the scheduler's sweep   *)
(* and the one a webhook starts), POST /translate and the auto-retry task. *)

\* The arguments of an enqueue_job call, and the items its caller has left.
EnqueueCall(p, k, trigger, todo) ==
  [pc |-> "dedup", todo |-> todo, path |-> p, key |-> k, trigger |-> trigger,
   id |-> 0]

\* poll_and_enqueue: discovery and scan.  todo is what the scan returned:
\* paths whose ledger entry is not done, less what the foreign-sidecar
\* check, the series hint or a failed *arr service took out.
PollSweep(c) ==
  /\ phase = "up"
  /\ caller[c] = NoCaller
  /\ \E T \in SUBSET {p \in Paths : ledger[p] # "done"} :
       /\ T # {}
       /\ CallerBecomes(c, [NoCaller EXCEPT !.pc = "sweep", !.todo = T])
  /\ UNCHANGED <<phase, ledger, jobs, nextId, queue, task, owner, timers,
                 crashes, requests>>

\* The loop of poll_and_enqueue: one enqueue_job call per eligible item.
SweepItem(c) ==
  /\ caller[c].pc = "sweep"
  /\ \E p \in caller[c].todo :
       CallerBecomes(c, EnqueueCall(p, SeriesOf[p], "poll",
                                    caller[c].todo \ {p}))
  /\ UNCHANGED <<phase, ledger, jobs, nextId, queue, task, owner, timers,
                 crashes, requests>>

\* POST /translate.  arr_series_id is optional in the request body.
ManualTranslate(c) ==
  /\ phase = "up"
  /\ caller[c] = NoCaller
  /\ requests < MaxManual
  /\ requests' = requests + 1
  /\ \E p \in Paths : \E k \in {SeriesOf[p], NoSeries} :
       CallerBecomes(c, EnqueueCall(p, k, "manual", {}))
  /\ UNCHANGED <<phase, ledger, jobs, nextId, queue, task, owner, timers, crashes>>

\* _delayed_reenqueue after its sleep.
TimerFires(c) ==
  /\ phase = "up"
  /\ caller[c] = NoCaller
  /\ \E j \in JobIds :
       /\ timers[j] > 0
       /\ timers' = [timers EXCEPT ![j] = @ - 1]
       /\ CallerBecomes(c, EnqueueCall(jobs[j].path, jobs[j].key, "auto-retry", {}))
  /\ UNCHANGED <<phase, ledger, jobs, nextId, queue, task, owner, crashes, requests>>

\* enqueue_job returns: a sweep goes on with its next item.
Returned(c) ==
  IF caller[c].todo = {} THEN NoCaller
  ELSE [NoCaller EXCEPT !.pc = "sweep", !.todo = caller[c].todo]

\* D-66: a queued or running row for the path stops the enqueue.
IsDuplicate(p) == RowsOf(p, Active) # {}

EnqueueDedup(c) ==
  LET next == IF caller[c].trigger \in AutoTriggers THEN "cap" ELSE "insert" IN
  /\ caller[c].pc = "dedup"
  /\ CallerBecomes(c, IF IsDuplicate(caller[c].path) THEN Returned(c)
                      ELSE [caller[c] EXCEPT !.pc = next])
  /\ UNCHANGED <<phase, ledger, jobs, nextId, queue, task, owner, timers,
                 crashes, requests>>

\* The auto-retry cap: max_auto_attempts of the two automatic callers.
AutoCap(trigger) ==
  IF trigger = "auto-retry" THEN JobAutoRetryMax ELSE JobMaxAutoAttempts

CapReached_OffByOne(p, trigger) ==
  Cardinality(RowsOf(p, Terminal)) > AutoCap(trigger)
CapReached(p, trigger) ==
  Cardinality(RowsOf(p, Terminal)) >= AutoCap(trigger)

EnqueueCap(c) ==
  /\ caller[c].pc = "cap"
  /\ CallerBecomes(c, IF CapReached(caller[c].path, caller[c].trigger)
                      THEN Returned(c)
                      ELSE [caller[c] EXCEPT !.pc = "insert"])
  /\ UNCHANGED <<phase, ledger, jobs, nextId, queue, task, owner, timers,
                 crashes, requests>>

NewJob(p, k, trigger) ==
  [path |-> p, key |-> k, trigger |-> trigger, status |-> "queued", attempts |-> 0]

EnqueueInsert(c) ==
  LET me == caller[c] IN
  /\ me.pc = "insert"
  /\ nextId \in JobIds
  /\ JobBecomes(nextId, NewJob(me.path, me.key, me.trigger))
  /\ nextId' = nextId + 1
  /\ CallerBecomes(c, [me EXCEPT !.pc = "put"])
  /\ UNCHANGED <<phase, ledger, queue, task, owner, timers, crashes, requests>>

\* The second session of enqueue_job looks the new row up again, by path,
\* status and trigger, and puts the first match: with two such rows, any one.
\* That this session fails after the first has committed is left out: the row
\* would wait for the next start.
Found(c) == {j \in RowsOf(caller[c].path, {"queued"}) :
               jobs[j].trigger = caller[c].trigger}

EnqueuePut(c) ==
  /\ caller[c].pc = "put"
  /\ IF Found(c) = {} THEN queue' = queue
     ELSE \E j \in Found(c) : queue' = Append(queue, j)
  /\ CallerBecomes(c, Returned(c))
  /\ UNCHANGED <<phase, ledger, jobs, nextId, task, owner, timers, crashes, requests>>

-----------------------------------------------------------------------------
(* retry_job: POST /jobs/{id}/retry. *)

Retriable_Unfinished == Terminal \union Active
Retriable_Finished   == Terminal \union {"done"}
Retriable == Terminal

RetrySelect(c) ==
  /\ phase = "up"
  /\ caller[c] = NoCaller
  /\ requests < MaxManual
  /\ requests' = requests + 1
  /\ \E j \in JobIds :
       /\ jobs[j].status \in Retriable
       /\ CallerBecomes(c, [NoCaller EXCEPT !.pc = "retry_reset", !.id = j])
  /\ UNCHANGED <<phase, ledger, jobs, nextId, queue, task, owner, timers, crashes>>

RetryReset(c) ==
  /\ caller[c].pc = "retry_reset"
  /\ JobBecomes(caller[c].id, [jobs[caller[c].id] EXCEPT
                                 !.status = "queued", !.attempts = 0,
                                 !.trigger = "manual-retry"])
  /\ CallerBecomes(c, [caller[c] EXCEPT !.pc = "retry_put"])
  /\ UNCHANGED <<phase, ledger, nextId, queue, task, owner, timers, crashes, requests>>

RetryPut(c) ==
  /\ caller[c].pc = "retry_put"
  /\ queue' = Append(queue, caller[c].id)
  /\ CallerBecomes(c, NoCaller)
  /\ UNCHANGED <<phase, ledger, jobs, nextId, task, owner, timers, crashes, requests>>

-----------------------------------------------------------------------------
(* worker_loop and _execute_job. *)

\* worker_loop: every id taken from the queue gets a task at once.
Dispatch(s) ==
  /\ phase = "up"
  /\ queue # <<>>
  /\ task[s] = NoTask
  /\ TaskBecomes(s, [NoTask EXCEPT !.pc = "start", !.id = Head(queue)])
  /\ queue' = Tail(queue)
  /\ UNCHANGED <<phase, ledger, jobs, nextId, owner, caller, timers, crashes, requests>>

\* The row becomes running whatever its status was.
JobStart(s) ==
  /\ task[s].pc = "start"
  /\ JobBecomes(task[s].id, [jobs[task[s].id] EXCEPT
                               !.status = "running", !.attempts = @ + 1])
  /\ TaskBecomes(s, [task[s] EXCEPT !.pc = "lock"])
  /\ UNCHANGED <<phase, ledger, nextId, queue, owner, caller, timers, crashes, requests>>

LockFree_Ignored(k) == TRUE
LockFree(k) == owner[k] = NoSlot

AcquireLock(s) ==
  /\ task[s].pc = "lock"
  /\ LockFree(KeyOf(s))
  /\ owner' = [owner EXCEPT ![KeyOf(s)] = s]
  /\ TaskBecomes(s, [task[s] EXCEPT !.pc = "work"])
  /\ UNCHANGED <<phase, ledger, jobs, nextId, queue, caller, timers, crashes, requests>>

\* process_one_item returned r: the `async with lock' block ends.
Leave(s, r) ==
  /\ owner' = [owner EXCEPT ![KeyOf(s)] = NoSlot]
  /\ TaskBecomes(s, [task[s] EXCEPT !.pc = "commit", !.result = r])
  /\ UNCHANGED <<phase, jobs, nextId, queue, caller, timers, crashes, requests>>

\* translate_file skips a path that is done, or that has a foreign sidecar
\* and no ledger entry; _execute_job counts a skip as done.
TranslateSkip(s) ==
  /\ task[s].pc = "work"
  /\ ledger[PathOf(s)] \in {"done", "none"}
  /\ Leave(s, "done")
  /\ UNCHANGED ledger

TranslateBegin(s) ==
  /\ task[s].pc = "work"
  /\ ledger[PathOf(s)] # "done"
  /\ ledger' = [ledger EXCEPT ![PathOf(s)] = "in_progress"]
  /\ TaskBecomes(s, [task[s] EXCEPT !.pc = "translating"])
  /\ UNCHANGED <<phase, jobs, nextId, queue, owner, caller, timers, crashes, requests>>

\* The sidecar is written and recorded.  A failing chmod makes the item
\* "quarantined", and the path guard an error, although its ledger entry is done.
TranslateDone(s) ==
  /\ task[s].pc = "translating"
  /\ ledger' = [ledger EXCEPT ![PathOf(s)] = "done"]
  /\ \E r \in {"done", "quarantined", "failed"} : Leave(s, r)

\* A quarantine; "transient" is one whose reason _is_transient_quarantine knows.
TranslateQuarantine(s) ==
  /\ task[s].pc = "translating"
  /\ ledger' = [ledger EXCEPT ![PathOf(s)] = "quarantined"]
  /\ \E r \in {"quarantined", "transient"} : Leave(s, r)

\* process_one_item raised: the ledger keeps what it had.
TranslateError(s) ==
  /\ task[s].pc \in {"work", "translating"}
  /\ Leave(s, "failed")
  /\ UNCHANGED ledger

FinalStatus_Unmapped(r) == r
FinalStatus(r) == IF r = "transient" THEN "quarantined" ELSE r

WantsAutoRetry(s) ==
  /\ task[s].result = "transient"
  /\ jobs[task[s].id].attempts < JobAutoRetryMax

JobCommit(s) ==
  LET j == task[s].id IN
  /\ task[s].pc = "commit"
  /\ JobBecomes(j, [jobs[j] EXCEPT !.status = FinalStatus(task[s].result)])
  /\ timers' = IF WantsAutoRetry(s) THEN [timers EXCEPT ![j] = @ + 1] ELSE timers
  /\ TaskBecomes(s, NoTask)
  /\ UNCHANGED <<phase, ledger, nextId, queue, owner, caller, crashes, requests>>

\* A database error of _execute_job itself: its handler marks the job failed.
\* (That the handler's own UPDATE fails as well is left out.)
JobUnhandledError(s) ==
  /\ task[s].pc \in {"start", "commit"}
  /\ JobBecomes(task[s].id, [jobs[task[s].id] EXCEPT !.status = "failed"])
  /\ TaskBecomes(s, NoTask)
  /\ UNCHANGED <<phase, ledger, nextId, queue, owner, caller, timers, crashes, requests>>

-----------------------------------------------------------------------------
(* The process stops (crash, kill, or the lifespan's cancellation of every *)
(* task) and starts again.                                                 *)

Crash ==
  /\ phase # "down"
  /\ crashes < MaxCrashes
  /\ crashes' = crashes + 1
  /\ phase' = "down"
  /\ queue' = <<>>
  /\ task' = [s \in Slots |-> NoTask]
  /\ owner' = [k \in LockKeys |-> NoSlot]
  /\ caller' = [c \in Callers |-> NoCaller]
  /\ timers' = [j \in JobIds |-> 0]
  /\ UNCHANGED <<ledger, jobs, nextId, requests>>

\* ARM 1, reconcile_in_progress: every queued or running row is queued again
\* and its id put, in the order the SELECT returned them.
Stale_RunningOnly == {j \in JobIds : jobs[j].status = "running"}
Stale_QueuedOnly  == {j \in JobIds : jobs[j].status = "queued"}
Stale == {j \in JobIds : jobs[j].status \in Active}

ReconcileJobs ==
  /\ phase = "down"
  /\ phase' = "adopting"
  /\ jobs' = [j \in JobIds |-> IF j \in Stale
                               THEN [jobs[j] EXCEPT !.status = "queued"]
                               ELSE jobs[j]]
  /\ \E ids \in [1..Cardinality(Stale) -> Stale] :
       /\ \A x, y \in DOMAIN ids : ids[x] = ids[y] => x = y
       /\ queue' = ids
  /\ UNCHANGED <<ledger, nextId, task, owner, caller, timers, crashes, requests>>

\* ARM 2, reconcile_in_progress_from_ledger: in_progress paths without any
\* job row.  translate_file records in_progress without a series id, so the
\* job has none, and no media item.
Orphans == {p \in Paths : /\ ledger[p] = "in_progress"
                          /\ RowsOf(p, JobStatus \ {"absent"}) = {}}

ReconcileLedger(p) ==
  /\ phase = "adopting"
  /\ p \in Orphans
  /\ nextId \in JobIds
  /\ JobBecomes(nextId, NewJob(p, NoSeries, "startup-reconcile"))
  /\ nextId' = nextId + 1
  /\ queue' = Append(queue, nextId)
  /\ UNCHANGED <<phase, ledger, task, owner, caller, timers, crashes, requests>>

\* Steps 7 to 9 of the lifespan: scheduler and worker start, requests come in.
MayServe_Early == TRUE
MayServe == Orphans = {}

Serve ==
  /\ phase = "adopting"
  /\ MayServe
  /\ phase' = "up"
  /\ UNCHANGED <<ledger, jobs, nextId, queue, task, owner, caller, timers,
                 crashes, requests>>

-----------------------------------------------------------------------------
CallerStep(c) ==
  \/ SweepItem(c) \/ EnqueueDedup(c) \/ EnqueueCap(c)
  \/ EnqueueInsert(c) \/ EnqueuePut(c) \/ RetryReset(c) \/ RetryPut(c)

CallerBegins(c) ==
  PollSweep(c) \/ ManualTranslate(c) \/ TimerFires(c) \/ RetrySelect(c)

Translate(s) ==
  \/ TranslateSkip(s) \/ TranslateBegin(s) \/ TranslateDone(s)
  \/ TranslateQuarantine(s) \/ TranslateError(s)

TaskStep(s) == JobStart(s) \/ Translate(s) \/ JobCommit(s) \/ JobUnhandledError(s)

Startup == ReconcileJobs \/ (\E p \in Paths : ReconcileLedger(p)) \/ Serve

Next ==
  \/ \E c \in Callers : CallerBegins(c) \/ CallerStep(c)
  \/ \E s \in Slots : Dispatch(s) \/ AcquireLock(s) \/ TaskStep(s)
  \/ Crash
  \/ Startup

Spec == Init /\ [][Next]_vars

(***************************************************************************)
(* Fairness.  The event loop runs every coroutine that is ready and the    *)
(* queue's consumer is one of them; asyncio.Lock is first come, first      *)
(* served, so a task that waits for a lock that keeps being released gets  *)
(* it.  The daemon is restarted after it stops.  No fairness is assumed of *)
(* users, webhooks or the scheduler.                                       *)
(***************************************************************************)
Fairness ==
  /\ WF_vars(Startup)
  /\ \A c \in Callers : WF_vars(CallerStep(c))
  /\ WF_vars(\E s \in Slots : Dispatch(s))
  /\ \A s \in Slots : WF_vars(TaskStep(s)) /\ SF_vars(AcquireLock(s))

FairSpec == Spec /\ Fairness


-----------------------------------------------------------------------------
(* Properties. *)

\* Every variable holds a value of its type; a live task and a retry have the
\* id of an inserted row.
TypeOK ==
  /\ phase \in {"down", "adopting", "up"}
  /\ ledger \in [Paths -> LedgerStatus]
  /\ jobs \in [JobIds -> JobRow]
  /\ nextId \in 1..(MaxJobs + 1)
  /\ queue \in Seq(JobIds)
  /\ task \in [Slots -> Task]
  /\ owner \in [LockKeys -> Slots \union {NoSlot}]
  /\ caller \in [Callers -> Caller]
  /\ \A s \in Slots : task[s].pc # "idle" => task[s].id # 0
  /\ \A c \in Callers : caller[c].pc \in {"retry_reset", "retry_put"} =>
                           caller[c].id # 0
  /\ timers \in [JobIds -> Nat]
  /\ crashes \in 0..MaxCrashes
  /\ requests \in 0..MaxManual

Translating(s) == task[s].pc \in {"work", "translating"}

\* D-68: two tasks never run process_one_item under the same series lock,
\* however often a row was enqueued, dispatched or re-executed.
SeriesExclusion ==
  \A s, t \in Slots :
    s # t /\ Translating(s) /\ Translating(t) => KeyOf(s) # KeyOf(t)

InQueue(j) == \E i \in 1..Len(queue) : queue[i] = j
Executed(j) == \E s \in Slots : task[s].id = j
BeingPut(j) ==
  \E c \in Callers : \/ caller[c].pc = "put" /\ j \in Found(c)
                     \/ caller[c].pc = "retry_put" /\ caller[c].id = j

\* D-67: while the service is up, no row is left queued or running without
\* anything that will still execute it.  Such a row would block every later
\* enqueue of its path until a restart.
NoStrandedJob ==
  phase = "up" =>
    \A j \in JobIds : jobs[j].status \in Active =>
      InQueue(j) \/ Executed(j) \/ BeingPut(j)

\* A row that says running has a task that is past its start.
RunningIsExecuted ==
  phase = "up" =>
    \A j \in JobIds : jobs[j].status = "running" =>
      \E s \in Slots : task[s].id = j /\ task[s].pc # "start"

\* A job is dispatched once per time it was queued: its id is never twice
\* among the queue's entries and the live tasks.
DispatchedOnce ==
  /\ \A x, y \in 1..Len(queue) : queue[x] = queue[y] => x = y
  /\ \A s, t \in Slots : task[s].id = task[t].id /\ task[s].id # 0 => s = t
  /\ \A s \in Slots : task[s].id # 0 => ~InQueue(task[s].id)

\* D-67 ARM 2: while the service is up, every in_progress path has a job row,
\* so that a translation cut short by a crash is known to the job table.
OrphansAdopted == phase = "up" => Orphans = {}

Budget == Max({JobMaxAutoAttempts, JobAutoRetryMax})
AutoRows(p) == {j \in RowsOf(p, Active \union Terminal) : jobs[j].trigger \in AutoTriggers}

\* The auto-retry cap as a ceiling: the rows of automatic triggers that are
\* not done never exceed the cap by more than the callers that run at once.
AutoBudget ==
  \A p \in Paths : Cardinality(AutoRows(p)) < Budget + Cardinality(Callers)

\* job_auto_retry_max (config.py): "max=2 yields at most 1 auto-retry after
\* the initial run", as long as no user interferes: a manual retry that ends
\* done gives its failure back to the budget.
AutoRetryBudget ==
  requests = 0 => \A p \in Paths :
    Cardinality({j \in AutoRows(p) : jobs[j].trigger = "auto-retry"})
      < Max({JobAutoRetryMax, 1})

\* The rows live as JobLifecycle promises: a job that is done is never executed
\* again, one that failed only after a user's retry, and a running one goes back
\* to queued only in a restart.
Lifecycle == INSTANCE JobLifecycle WITH
  Jobs <- JobIds, status <- [j \in JobIds |-> jobs[j].status]
RowsLive == Lifecycle!Spec

\* Every job that is queued or running is finished sooner or later, whatever
\* the (finitely many) crashes in between.
JobsFinish ==
  \A j \in JobIds : jobs[j].status \in Active ~> jobs[j].status \notin Active
=============================================================================
