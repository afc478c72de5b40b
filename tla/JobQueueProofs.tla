---------------------------- MODULE JobQueueProofs ----------------------------
(* Theorems of JobQueue, for every set of paths, series, callers and tasks. *)
EXTENDS JobQueue, FiniteSetTheorems, TLAPS

\* The rows of a set of job ids are finitely many.
LEMMA JobIdsFinite ==
  ASSUME NEW S \in SUBSET JobIds
  PROVE  Cardinality(S) \in Nat
<1>1. IsFiniteSet(JobIds)
  BY FS_Interval, JobQueueAssumption DEF JobIds, JobQueueAssumption
<1> QED
  BY <1>1, FS_Subset, FS_CardinalityType

\* A permutation of a set of job ids is a queue.
LEMMA QueueOfIds ==
  ASSUME NEW S \in SUBSET JobIds, NEW ids \in [1..Cardinality(S) -> S]
  PROVE  ids \in Seq(JobIds)
<1>1. Cardinality(S) \in Nat
  BY JobIdsFinite
<1>2. ids \in [1..Cardinality(S) -> JobIds]
  OBVIOUS
<1> QED
  BY <1>1, <1>2

\* The building blocks of the next state have their types.
LEMMA ValueTypes ==
  /\ NoJob \in JobRow
  /\ NoTask \in Task
  /\ NoCaller \in Caller
BY JobQueueAssumption
   DEF JobQueueAssumption, NoJob, JobRow, NoTask, Task, NoCaller, Caller, Triggers, AutoTriggers,
       JobStatus, Active, Terminal, TaskPc, Outcomes, CallerPc

\* A row keeps its type when its status or its number of attempts changes.
LEMMA RowUpdate ==
  ASSUME NEW row \in JobRow, NEW st \in JobStatus, NEW n \in Nat
  PROVE  /\ [row EXCEPT !.status = st] \in JobRow
         /\ [row EXCEPT !.status = st, !.attempts = n] \in JobRow
         /\ [row EXCEPT !.status = st, !.attempts = n, !.trigger = "manual-retry"]
              \in JobRow
         /\ row.attempts + 1 \in Nat
<1>1. "manual-retry" \in Triggers
  BY DEF Triggers
<1>2. row.attempts + 1 \in Nat
  BY DEF JobRow
<1>3. [row EXCEPT !.status = st] \in JobRow
  BY DEF JobRow
<1>4. [row EXCEPT !.status = st, !.attempts = n] \in JobRow
  BY DEF JobRow
<1>5. [row EXCEPT !.status = st, !.attempts = n, !.trigger = "manual-retry"] \in JobRow
  BY <1>1 DEF JobRow
<1> QED
  BY <1>2, <1>3, <1>4, <1>5

\* The statuses the code writes.
LEMMA Statuses ==
  /\ {"queued", "running", "done", "failed", "quarantined"} \subseteq JobStatus
  /\ \A r \in Outcomes : FinalStatus(r) \in JobStatus
BY DEF JobStatus, Active, Terminal, Outcomes, FinalStatus

\* enqueue_job hands control back to a caller of the right type.
LEMMA ReturnedType ==
  ASSUME TypeOK, NEW c \in Callers
  PROVE  Returned(c) \in Caller /\ Returned(c).pc \in {"idle", "sweep"}
<1>1. caller[c] \in Caller
  BY DEF TypeOK
<1>2. CASE caller[c].todo = {}
  BY <1>2, ValueTypes DEF Returned, NoCaller
<1>3. CASE caller[c].todo # {}
  BY <1>1, <1>3, ValueTypes DEF Returned, Caller, CallerPc, NoCaller
<1> QED
  BY <1>2, <1>3

\* Replacing one entry of a table by one of the right type keeps the table's.
LEMMA CallerTable ==
  ASSUME TypeOK, NEW c \in Callers, NEW new \in Caller, CallerBecomes(c, new),
         new.pc \in {"retry_reset", "retry_put"} => new.id # 0
  PROVE  /\ caller' \in [Callers -> Caller]
         /\ \A d \in Callers : caller'[d].pc \in {"retry_reset", "retry_put"} =>
                                 caller'[d].id # 0
BY DEF TypeOK, CallerBecomes

\* The state of a task stays one when the task takes a new step.
LEMMA TaskTable ==
  ASSUME TypeOK, NEW s \in Slots, NEW new \in Task, TaskBecomes(s, new),
         new.pc # "idle" => new.id # 0
  PROVE  /\ task' \in [Slots -> Task]
         /\ \A t \in Slots : task'[t].pc # "idle" => task'[t].id # 0
BY DEF TypeOK, TaskBecomes

\* A row that is replaced leaves a table of rows.
LEMMA JobTable ==
  ASSUME TypeOK, NEW j, NEW new \in JobRow, JobBecomes(j, new)
  PROVE  jobs' \in [JobIds -> JobRow]
BY DEF TypeOK, JobBecomes

-----------------------------------------------------------------------------
(* Type correctness. *)

\* The queue starts empty, with its types.
LEMMA TypeInit == Init => TypeOK
BY ValueTypes, JobQueueAssumption
   DEF JobQueueAssumption, Init, TypeOK, JobIds, LedgerStatus, NoTask, NoCaller

\* A call of enqueue_job begins with well-typed arguments.
LEMMA EnqueueCallType ==
  ASSUME NEW p \in Paths \union {NoPath}, NEW k \in LockKeys, NEW t \in Triggers,
         NEW T \in SUBSET Paths
  PROVE  /\ EnqueueCall(p, k, t, T) \in Caller
         /\ EnqueueCall(p, k, t, T).pc = "dedup"
BY DEF EnqueueCall, Caller, CallerPc

\* What a sweep, a request and a timer call for has a type of its own.
LEMMA TypeCallerBegins ==
  ASSUME TypeOK, NEW c \in Callers, CallerBegins(c)
  PROVE  TypeOK'
<1> USE JobQueueAssumption DEF JobQueueAssumption
<1>1. CASE PollSweep(c)
  <2>1. PICK T \in SUBSET Paths :
          CallerBecomes(c, [NoCaller EXCEPT !.pc = "sweep", !.todo = T])
    BY <1>1 DEF PollSweep
  <2>2. [NoCaller EXCEPT !.pc = "sweep", !.todo = T] \in Caller
    BY DEF NoCaller, Caller, CallerPc, Triggers, AutoTriggers
  <2> QED
    BY <1>1, <2>1, <2>2, CallerTable DEF PollSweep, TypeOK, NoCaller
<1>2. CASE ManualTranslate(c)
  <2>1. PICK p \in Paths, k \in LockKeys :
          CallerBecomes(c, EnqueueCall(p, k, "manual", {}))
    BY <1>2 DEF ManualTranslate
  <2>2. /\ EnqueueCall(p, k, "manual", {}) \in Caller
        /\ EnqueueCall(p, k, "manual", {}).pc = "dedup"
    BY EnqueueCallType DEF Triggers
  <2>3. requests' \in 0..MaxManual
    BY <1>2 DEF ManualTranslate, TypeOK
  <2> QED
    BY <1>2, <2>1, <2>2, <2>3, CallerTable DEF ManualTranslate, TypeOK
<1>3. CASE TimerFires(c)
  <2>1. PICK j \in JobIds :
          /\ timers[j] > 0
          /\ timers' = [timers EXCEPT ![j] = @ - 1]
          /\ CallerBecomes(c, EnqueueCall(jobs[j].path, jobs[j].key, "auto-retry", {}))
    BY <1>3 DEF TimerFires
  <2>2. jobs[j] \in JobRow
    BY DEF TypeOK
  <2> DEFINE new == EnqueueCall(jobs[j].path, jobs[j].key, "auto-retry", {})
  <2>3. new \in Caller /\ new.pc = "dedup"
    BY <2>2, EnqueueCallType DEF Triggers, AutoTriggers, JobRow
  <2>4. timers' \in [JobIds -> Nat]
    BY <2>1 DEF TypeOK
  <2> HIDE DEF new
  <2>5. CallerBecomes(c, new)
    BY <2>1 DEF new
  <2> QED
    BY <1>3, <2>3, <2>4, <2>5, CallerTable DEF TimerFires, TypeOK
<1>4. CASE RetrySelect(c)
  <2>1. PICK j \in JobIds :
          CallerBecomes(c, [NoCaller EXCEPT !.pc = "retry_reset", !.id = j])
    BY <1>4 DEF RetrySelect
  <2>2. [NoCaller EXCEPT !.pc = "retry_reset", !.id = j] \in Caller
    BY DEF NoCaller, Caller, CallerPc, Triggers, AutoTriggers
  <2>3. requests' \in 0..MaxManual
    BY <1>4 DEF RetrySelect, TypeOK
  <2>4. [NoCaller EXCEPT !.pc = "retry_reset", !.id = j].id # 0
    BY DEF NoCaller, JobIds
  <2> QED
    BY <1>4, <2>1, <2>2, <2>3, <2>4, CallerTable DEF RetrySelect, TypeOK
<1> QED
  BY <1>1, <1>2, <1>3, <1>4 DEF CallerBegins

\* The steps of enqueue_job and retry_job keep the types.
LEMMA TypeCallerStep ==
  ASSUME TypeOK, NEW c \in Callers, CallerStep(c)
  PROVE  TypeOK'
<1> USE JobQueueAssumption DEF JobQueueAssumption
<1>1. caller[c] \in Caller
  BY DEF TypeOK
<1>2. CASE SweepItem(c)
  <2>1. PICK p \in Paths :
          CallerBecomes(c, EnqueueCall(p, SeriesOf[p], "poll",
                                       caller[c].todo \ {p}))
    BY <1>1, <1>2 DEF SweepItem, Caller
  <2> DEFINE new == EnqueueCall(p, SeriesOf[p], "poll", caller[c].todo \ {p})
  <2>2. new \in Caller /\ new.pc = "dedup"
    <3>1. caller[c].todo \ {p} \in SUBSET Paths
      BY <1>1 DEF Caller
    <3>2. "poll" \in Triggers
      BY DEF Triggers, AutoTriggers
    <3> QED
      BY <3>1, <3>2, EnqueueCallType
  <2> HIDE DEF new
  <2>3. CallerBecomes(c, new)
    BY <2>1 DEF new
  <2> QED
    BY <1>2, <2>2, <2>3, CallerTable DEF SweepItem, TypeOK
<1>3. CASE EnqueueDedup(c)
  <2>1. PICK new \in Caller :
          CallerBecomes(c, new) /\ new.pc \in {"idle", "sweep", "cap", "insert"}
    BY <1>1, <1>3, ReturnedType DEF EnqueueDedup, Caller, CallerPc
  <2> QED
    BY <1>3, <2>1, CallerTable DEF EnqueueDedup, TypeOK
<1>4. CASE EnqueueCap(c)
  <2>1. PICK new \in Caller :
          CallerBecomes(c, new) /\ new.pc \in {"idle", "sweep", "insert"}
    BY <1>1, <1>4, ReturnedType DEF EnqueueCap, Caller, CallerPc
  <2> QED
    BY <1>4, <2>1, CallerTable DEF EnqueueCap, TypeOK
<1>5. CASE EnqueueInsert(c)
  <2>1. NewJob(caller[c].path, caller[c].key, caller[c].trigger) \in JobRow
    BY <1>1 DEF NewJob, JobRow, Caller, JobStatus, Active
  <2>2. [caller[c] EXCEPT !.pc = "put"] \in Caller
    BY <1>1 DEF Caller, CallerPc
  <2>3. [caller[c] EXCEPT !.pc = "put"].pc = "put"
    BY <1>1 DEF Caller
  <2>4. nextId' \in 1..(MaxJobs + 1)
    BY <1>5 DEF EnqueueInsert, JobIds
  <2> QED
    BY <1>5, <2>1, <2>2, <2>3, <2>4, CallerTable, JobTable DEF EnqueueInsert, TypeOK
<1>6. CASE EnqueuePut(c)
  <2>1. Found(c) \subseteq JobIds
    BY DEF Found, RowsOf
  <2>2. queue' = queue \/ \E j \in JobIds : queue' = Append(queue, j)
    BY <1>6, <2>1 DEF EnqueuePut
  <2>3. queue' \in Seq(JobIds)
    <3>1. queue \in Seq(JobIds)
      BY DEF TypeOK
    <3>2. \A j \in JobIds : Append(queue, j) \in Seq(JobIds)
      BY <3>1
    <3> QED
      BY <2>2, <3>1, <3>2
  <2> QED
    BY <1>6, <2>3, ReturnedType, CallerTable DEF EnqueuePut, TypeOK
<1>7. CASE RetryReset(c)
  <2> DEFINE j   == caller[c].id
             row == [jobs[j] EXCEPT !.status = "queued", !.attempts = 0,
                                    !.trigger = "manual-retry"]
  <2>1. j \in JobIds
    BY <1>1, <1>7 DEF RetryReset, TypeOK, Caller
  <2>2. row \in JobRow
    BY <2>1, RowUpdate, Statuses DEF TypeOK
  <2>3. [caller[c] EXCEPT !.pc = "retry_put"] \in Caller
    BY <1>1 DEF Caller, CallerPc
  <2>4. [caller[c] EXCEPT !.pc = "retry_put"].id # 0
    BY <1>1, <2>1 DEF Caller, JobIds
  <2> QED
    BY <1>7, <2>2, <2>3, <2>4, CallerTable, JobTable DEF RetryReset, TypeOK
<1>8. CASE RetryPut(c)
  <2>1. caller[c].id \in JobIds
    BY <1>1, <1>8 DEF RetryPut, TypeOK, Caller
  <2>2. queue' \in Seq(JobIds)
    BY <1>8, <2>1 DEF RetryPut, TypeOK
  <2> QED
    BY <1>8, <2>2, ValueTypes, CallerTable DEF RetryPut, TypeOK, NoCaller
<1> QED
  BY <1>2, <1>3, <1>4, <1>5, <1>6, <1>7, <1>8 DEF CallerStep

\* process_one_item returned and left the series lock.
LEMMA TypeLeave ==
  ASSUME TypeOK, NEW s \in Slots, NEW r \in Outcomes, Leave(s, r),
         ledger' \in [Paths -> LedgerStatus], task[s].pc # "idle"
  PROVE  TypeOK'
<1>1. task[s] \in Task /\ task[s].id # 0
  BY DEF TypeOK
<1>2. /\ [task[s] EXCEPT !.pc = "commit", !.result = r] \in Task
      /\ [task[s] EXCEPT !.pc = "commit", !.result = r].id # 0
  BY <1>1 DEF Task, TaskPc
<1>3. owner' \in [LockKeys -> Slots \union {NoSlot}]
  BY DEF Leave, TypeOK
<1> QED
  BY <1>2, <1>3, TaskTable DEF Leave, TypeOK

\* The steps of worker_loop and _execute_job keep the types.
LEMMA TypeTask ==
  ASSUME TypeOK, NEW s \in Slots, Dispatch(s) \/ AcquireLock(s) \/ TaskStep(s)
  PROVE  TypeOK'
<1> USE JobQueueAssumption DEF JobQueueAssumption
<1>1. task[s] \in Task
  BY DEF TypeOK
<1>2. CASE Dispatch(s)
  <2>1. Head(queue) \in JobIds /\ queue' \in Seq(JobIds)
    BY <1>2 DEF Dispatch, TypeOK
  <2> DEFINE j == Head(queue)
  <2> HIDE DEF j
  <2>2. j # 0
    BY <2>1 DEF j, JobIds
  <2>3. /\ [NoTask EXCEPT !.pc = "start", !.id = j] \in Task
        /\ [NoTask EXCEPT !.pc = "start", !.id = j].id # 0
    BY <2>1, <2>2 DEF j, NoTask, Task, TaskPc, Outcomes
  <2> QED
    BY <1>2, <2>1, <2>3, TaskTable DEF Dispatch, TypeOK, j
<1>3. CASE JobStart(s)
  <2>1. task[s].id \in JobIds
    BY <1>1, <1>3 DEF JobStart, Task, TypeOK
  <2>2. [jobs[task[s].id] EXCEPT !.status = "running", !.attempts = @ + 1] \in JobRow
    BY <2>1, RowUpdate, Statuses DEF TypeOK
  <2>3. /\ [task[s] EXCEPT !.pc = "lock"] \in Task
        /\ [task[s] EXCEPT !.pc = "lock"].id # 0
    BY <1>1, <2>1 DEF Task, TaskPc, JobIds
  <2> QED
    BY <1>3, <2>2, <2>3, TaskTable, JobTable DEF JobStart, TypeOK
<1>4. CASE AcquireLock(s)
  <2>1. /\ [task[s] EXCEPT !.pc = "work"] \in Task
        /\ [task[s] EXCEPT !.pc = "work"].id # 0
    BY <1>1, <1>4 DEF AcquireLock, Task, TaskPc, TypeOK
  <2>2. owner' \in [LockKeys -> Slots \union {NoSlot}]
    BY <1>4 DEF AcquireLock, TypeOK
  <2> QED
    BY <1>4, <2>1, <2>2, TaskTable DEF AcquireLock, TypeOK
<1>5. CASE TranslateSkip(s)
  BY <1>5, TypeLeave DEF TranslateSkip, TypeOK, Outcomes
<1>6. CASE TranslateBegin(s)
  <2>1. /\ [task[s] EXCEPT !.pc = "translating"] \in Task
        /\ [task[s] EXCEPT !.pc = "translating"].id # 0
    BY <1>1, <1>6 DEF TranslateBegin, Task, TaskPc, TypeOK
  <2>2. ledger' \in [Paths -> LedgerStatus]
    BY <1>6 DEF TranslateBegin, TypeOK, LedgerStatus
  <2> QED
    BY <1>6, <2>1, <2>2, TaskTable DEF TranslateBegin, TypeOK
<1>7. CASE TranslateDone(s)
  <2>1. ledger' \in [Paths -> LedgerStatus]
    BY <1>7 DEF TranslateDone, TypeOK, LedgerStatus
  <2>2. PICK r \in Outcomes : Leave(s, r)
    BY <1>7 DEF TranslateDone, Outcomes
  <2> QED
    BY <1>7, <2>1, <2>2, TypeLeave DEF TranslateDone
<1>8. CASE TranslateQuarantine(s)
  <2>1. ledger' \in [Paths -> LedgerStatus]
    BY <1>8 DEF TranslateQuarantine, TypeOK, LedgerStatus
  <2>2. PICK r \in Outcomes : Leave(s, r)
    BY <1>8 DEF TranslateQuarantine, Outcomes
  <2> QED
    BY <1>8, <2>1, <2>2, TypeLeave DEF TranslateQuarantine
<1>9. CASE TranslateError(s)
  BY <1>9, TypeLeave DEF TranslateError, TypeOK, Outcomes
<1>10. CASE JobCommit(s)
  <2>1. task[s].id \in JobIds
    BY <1>1, <1>10 DEF JobCommit, Task, TypeOK
  <2>2. [jobs[task[s].id] EXCEPT !.status = FinalStatus(task[s].result)] \in JobRow
    <3>1. task[s].result \in Outcomes
      BY <1>1 DEF Task
    <3> QED
      BY <2>1, <3>1, RowUpdate, Statuses DEF TypeOK
  <2>3. timers' \in [JobIds -> Nat]
    <3>1. \/ timers' = timers
          \/ timers' = [timers EXCEPT ![task[s].id] = @ + 1]
      BY <1>10 DEF JobCommit
    <3> QED
      BY <2>1, <3>1 DEF TypeOK
  <2> QED
    BY <1>10, <2>2, <2>3, ValueTypes, TaskTable, JobTable DEF JobCommit, TypeOK, NoTask
<1>11. CASE JobUnhandledError(s)
  <2>1. task[s].id \in JobIds
    BY <1>1, <1>11 DEF JobUnhandledError, Task, TypeOK
  <2>2. [jobs[task[s].id] EXCEPT !.status = "failed"] \in JobRow
    BY <2>1, RowUpdate, Statuses DEF TypeOK
  <2> QED
    BY <1>11, <2>2, ValueTypes, TaskTable, JobTable DEF JobUnhandledError, TypeOK, NoTask
<1> QED
  BY <1>2, <1>3, <1>4, <1>5, <1>6, <1>7, <1>8, <1>9, <1>10, <1>11
     DEF TaskStep, Translate

\* A crash and the start that follows it keep the types.
LEMMA TypeProcess ==
  ASSUME TypeOK, Crash \/ Startup
  PROVE  TypeOK'
<1> USE JobQueueAssumption DEF JobQueueAssumption
<1>1. CASE Crash
  <2>1. crashes' \in 0..MaxCrashes
    BY <1>1 DEF Crash, TypeOK
  <2> QED
    BY <1>1, <2>1, ValueTypes DEF Crash, TypeOK, NoTask, NoCaller
<1>2. CASE ReconcileJobs
  <2>1. queue' \in Seq(JobIds)
    BY <1>2, QueueOfIds DEF ReconcileJobs, Stale
  <2>2. jobs' \in [JobIds -> JobRow]
    <3>1. \A j \in JobIds : /\ jobs[j] \in JobRow
                            /\ [jobs[j] EXCEPT !.status = "queued"] \in JobRow
      BY RowUpdate, Statuses DEF TypeOK
    <3> QED
      BY <1>2, <3>1 DEF ReconcileJobs, TypeOK
  <2> QED
    BY <1>2, <2>1, <2>2 DEF ReconcileJobs, TypeOK
<1>3. ASSUME NEW p \in Paths, ReconcileLedger(p)
      PROVE  TypeOK'
  <2>1. NewJob(p, NoSeries, "startup-reconcile") \in JobRow
    BY DEF NewJob, JobRow, JobStatus, Active, Triggers
  <2>2. queue' \in Seq(JobIds) /\ nextId' \in 1..(MaxJobs + 1)
    BY <1>3 DEF ReconcileLedger, TypeOK, JobIds
  <2> QED
    BY <1>3, <2>1, <2>2, JobTable DEF ReconcileLedger, TypeOK
<1>4. CASE Serve
  BY <1>4 DEF Serve, TypeOK
<1> QED
  BY <1>1, <1>2, <1>3, <1>4 DEF Startup

\* Every state of the daemon is well typed.
THEOREM TypeCorrect == Spec => []TypeOK
<1>1. TypeOK /\ [Next]_vars => TypeOK'
  <2> SUFFICES ASSUME TypeOK, [Next]_vars
               PROVE  TypeOK'
    OBVIOUS
  <2>1. CASE UNCHANGED vars
    BY <2>1 DEF TypeOK, vars
  <2> QED
    BY <2>1, TypeCallerBegins, TypeCallerStep, TypeTask, TypeProcess DEF Next
<1> QED
  BY <1>1, TypeInit, PTL DEF Spec

-----------------------------------------------------------------------------
(***************************************************************************)
(* The inductive invariant.  SeriesExclusion is not inductive: it says     *)
(* nothing of who owns a lock, nor that the row of a live task exists and  *)
(* so keeps its key.                                                       *)
(***************************************************************************)

\* Row ids are given out in order, and every id at large is one of them.
IdsInserted ==
  /\ \A j \in JobIds : jobs[j].status = "absent" <=> j >= nextId
  /\ \A i \in 1..Len(queue) : queue[i] < nextId
  /\ \A s \in Slots : task[s].id < nextId
  /\ \A c \in Callers : caller[c].id < nextId

\* A task inside its `async with lock' block owns the lock of its row's key.
LockHeld == \A s \in Slots : Translating(s) => owner[KeyOf(s)] = s

\* From the start of the process on, a running row has a task past its start.
RunningHeld ==
  phase # "down" =>
    \A j \in JobIds : jobs[j].status = "running" =>
      \E s \in Slots : task[s].id = j /\ task[s].pc # "start"

IInv == TypeOK /\ IdsInserted /\ LockHeld /\ RunningHeld /\ OrphansAdopted

\* What no step ever changes in a row that exists.
RowKept(j) ==
  /\ jobs'[j].path = jobs[j].path
  /\ jobs'[j].key = jobs[j].key
  /\ jobs'[j].status # "absent"

\* A new row for one id keeps what RowKept asks for.
LEMMA RowReplaced ==
  ASSUME TypeOK, IdsInserted, NEW i \in JobIds, i < nextId,
         NEW st \in JobStatus \ {"absent"}, NEW new,
         new.path = jobs[i].path, new.key = jobs[i].key, new.status = st,
         JobBecomes(i, new), nextId' = nextId
  PROVE  /\ \A j \in JobIds : j < nextId => RowKept(j)
         /\ \A j \in JobIds : jobs'[j].status = "absent" <=> j >= nextId'
<1>1. \A j \in JobIds : jobs'[j] = IF j = i THEN new ELSE jobs[j]
  BY DEF TypeOK, JobBecomes
<1>2. \A j \in JobIds : jobs[j].status = "absent" <=> j >= nextId
  BY DEF IdsInserted
<1>3. nextId \in Nat /\ JobIds \subseteq Nat
  BY JobQueueAssumption DEF JobQueueAssumption, JobIds, TypeOK
<1>4. ASSUME NEW j \in JobIds, j < nextId
      PROVE  RowKept(j)
  <2>1. jobs[j].status # "absent"
    BY <1>2, <1>3, <1>4
  <2>2. CASE j = i
    BY <1>1, <2>2 DEF RowKept
  <2>3. CASE j # i
    BY <1>1, <2>1, <2>3 DEF RowKept
  <2> QED
    BY <2>2, <2>3
<1>5. \A j \in JobIds : jobs'[j].status = "absent" <=> j >= nextId'
  BY <1>1, <1>2, <1>3
<1> QED
  BY <1>4, <1>5

\* The same of an INSERT.
LEMMA RowInserted ==
  ASSUME TypeOK, IdsInserted, nextId \in JobIds, NEW p, NEW k, NEW t,
         JobBecomes(nextId, NewJob(p, k, t)), nextId' = nextId + 1
  PROVE  /\ \A j \in JobIds : j < nextId => RowKept(j)
         /\ \A j \in JobIds : jobs'[j].status = "absent" <=> j >= nextId'
<1>1. NewJob(p, k, t).status = "queued"
  BY DEF NewJob
<1> QED
  BY <1>1, JobQueueAssumption
     DEF JobQueueAssumption, TypeOK, IdsInserted, RowKept, JobBecomes, JobIds

\* And of a step that leaves the table alone.
LEMMA RowsUntouched ==
  ASSUME TypeOK, IdsInserted, jobs' = jobs, nextId' = nextId
  PROVE  /\ \A j \in JobIds : j < nextId => RowKept(j)
         /\ \A j \in JobIds : jobs'[j].status = "absent" <=> j >= nextId'
BY JobQueueAssumption DEF JobQueueAssumption, TypeOK, IdsInserted, RowKept, JobIds

\* The fields of a row that an UPDATE leaves alone.
LEMMA UpdateFields ==
  ASSUME NEW row \in JobRow, NEW st \in JobStatus, NEW n \in Nat
  PROVE  /\ [row EXCEPT !.status = st].path = row.path
         /\ [row EXCEPT !.status = st].key = row.key
         /\ [row EXCEPT !.status = st].status = st
         /\ [row EXCEPT !.status = st, !.attempts = n].path = row.path
         /\ [row EXCEPT !.status = st, !.attempts = n].key = row.key
         /\ [row EXCEPT !.status = st, !.attempts = n].status = st
         /\ [row EXCEPT !.status = st, !.attempts = n,
                        !.trigger = "manual-retry"].path = row.path
         /\ [row EXCEPT !.status = st, !.attempts = n,
                        !.trigger = "manual-retry"].key = row.key
         /\ [row EXCEPT !.status = st, !.attempts = n,
                        !.trigger = "manual-retry"].status = st
BY DEF JobRow

\* Every step keeps the rows that exist and inserts at most the next one.
LEMMA RowsKept ==
  ASSUME TypeOK, IdsInserted, [Next]_vars
  PROVE  /\ \A j \in JobIds : j < nextId => RowKept(j)
         /\ \A j \in JobIds : jobs'[j].status = "absent" <=> j >= nextId'
         /\ nextId' \in Nat /\ nextId' >= nextId
<1> USE JobQueueAssumption DEF JobQueueAssumption
<1> DEFINE Kept == /\ \A j \in JobIds : j < nextId => RowKept(j)
                   /\ \A j \in JobIds : jobs'[j].status = "absent" <=> j >= nextId'
<1> HIDE DEF Kept
<1>1. nextId \in Nat
  BY DEF TypeOK
<1>2. CASE jobs' = jobs /\ nextId' = nextId
  BY <1>1, <1>2, RowsUntouched
<1>3. ASSUME NEW c \in Callers, EnqueueInsert(c)
      PROVE  Kept /\ nextId' = nextId + 1
  BY <1>3, RowInserted DEF EnqueueInsert, Kept
<1>4. ASSUME NEW c \in Callers, RetryReset(c)
      PROVE  Kept /\ nextId' = nextId
  <2>1. caller[c].id \in JobIds /\ caller[c].id < nextId
    BY <1>4 DEF RetryReset, TypeOK, Caller, IdsInserted
  <2>2. jobs[caller[c].id] \in JobRow /\ "queued" \in JobStatus
    BY <2>1, Statuses DEF TypeOK
  <2> DEFINE new == [jobs[caller[c].id] EXCEPT !.status = "queued", !.attempts = 0,
                                              !.trigger = "manual-retry"]
  <2>8. /\ new.path = jobs[caller[c].id].path
        /\ new.key = jobs[caller[c].id].key
        /\ new.status \in JobStatus \ {"absent"}
    BY <2>1, <2>2, UpdateFields
  <2>9. JobBecomes(caller[c].id, new) /\ nextId' = nextId
    BY <1>4 DEF RetryReset
  <2> HIDE DEF new
  <2> QED
    BY <2>1, <2>8, <2>9, RowReplaced DEF Kept
<1>5. ASSUME NEW s \in Slots, JobStart(s)
      PROVE  Kept /\ nextId' = nextId
  <2>1. task[s].id \in JobIds /\ task[s].id < nextId
    BY <1>5 DEF JobStart, TypeOK, Task, IdsInserted
  <2>2. jobs[task[s].id] \in JobRow /\ "running" \in JobStatus
    BY <2>1, Statuses DEF TypeOK
  <2>3. jobs[task[s].id].attempts + 1 \in Nat
    BY <2>2 DEF JobRow
  <2> DEFINE new == [jobs[task[s].id] EXCEPT !.status = "running",
                                            !.attempts = @ + 1]
  <2>8. /\ new.path = jobs[task[s].id].path
        /\ new.key = jobs[task[s].id].key
        /\ new.status \in JobStatus \ {"absent"}
    BY <2>1, <2>2, <2>3, UpdateFields
  <2>9. JobBecomes(task[s].id, new) /\ nextId' = nextId
    BY <1>5 DEF JobStart
  <2> HIDE DEF new
  <2> QED
    BY <2>1, <2>8, <2>9, RowReplaced DEF Kept
<1>6. ASSUME NEW s \in Slots, JobCommit(s)
      PROVE  Kept /\ nextId' = nextId
  <2>1. task[s].id \in JobIds /\ task[s].id < nextId
    BY <1>6 DEF JobCommit, TypeOK, Task, IdsInserted
  <2>2. jobs[task[s].id] \in JobRow /\ task[s].result \in Outcomes
    BY <2>1 DEF TypeOK, Task
  <2>3. FinalStatus(task[s].result) \in JobStatus \ {"absent"}
    BY <2>2 DEF FinalStatus, Outcomes, JobStatus, Terminal
  <2> DEFINE new == [jobs[task[s].id] EXCEPT !.status = FinalStatus(task[s].result)]
  <2>8. /\ new.path = jobs[task[s].id].path
        /\ new.key = jobs[task[s].id].key
        /\ new.status \in JobStatus \ {"absent"}
    BY <2>1, <2>2, <2>3, UpdateFields
  <2>9. JobBecomes(task[s].id, new) /\ nextId' = nextId
    BY <1>6 DEF JobCommit
  <2> HIDE DEF new
  <2> QED
    BY <2>1, <2>8, <2>9, RowReplaced DEF Kept
<1>7. ASSUME NEW s \in Slots, JobUnhandledError(s)
      PROVE  Kept /\ nextId' = nextId
  <2>1. task[s].id \in JobIds /\ task[s].id < nextId
    BY <1>7 DEF JobUnhandledError, TypeOK, Task, IdsInserted
  <2>2. jobs[task[s].id] \in JobRow /\ "failed" \in JobStatus
    BY <2>1, Statuses DEF TypeOK
  <2> DEFINE new == [jobs[task[s].id] EXCEPT !.status = "failed"]
  <2>8. /\ new.path = jobs[task[s].id].path
        /\ new.key = jobs[task[s].id].key
        /\ new.status \in JobStatus \ {"absent"}
    BY <2>1, <2>2, UpdateFields
  <2>9. JobBecomes(task[s].id, new) /\ nextId' = nextId
    BY <1>7 DEF JobUnhandledError
  <2> HIDE DEF new
  <2> QED
    BY <2>1, <2>8, <2>9, RowReplaced DEF Kept
<1>8. CASE ReconcileJobs
  <2>1. \A j \in JobIds : jobs[j] \in JobRow
    BY DEF TypeOK
  <2>2. \A j \in JobIds :
          /\ jobs'[j].path = jobs[j].path
          /\ jobs'[j].key = jobs[j].key
          /\ jobs'[j].status = "absent" <=> jobs[j].status = "absent"
    BY <1>8, <2>1, UpdateFields, Statuses DEF ReconcileJobs, Stale, Active
  <2> QED
    BY <1>1, <1>8, <2>2 DEF ReconcileJobs, RowKept, IdsInserted, JobIds
<1>9. ASSUME NEW p \in Paths, ReconcileLedger(p)
      PROVE  Kept /\ nextId' = nextId + 1
  BY <1>9, RowInserted DEF ReconcileLedger, Kept
<1>10. CASE Crash
  BY <1>2, <1>10 DEF Crash
<1>11. CASE Serve
  BY <1>2, <1>11 DEF Serve
<1>12. CASE UNCHANGED vars
  BY <1>2, <1>12 DEF vars
<1>13. ASSUME NEW c \in Callers, CallerBegins(c)
       PROVE  jobs' = jobs /\ nextId' = nextId
  BY <1>13 DEF CallerBegins, PollSweep, ManualTranslate, TimerFires, RetrySelect
<1>14. ASSUME NEW c \in Callers,
              SweepItem(c) \/ EnqueueDedup(c) \/ EnqueueCap(c) \/ EnqueuePut(c) \/ RetryPut(c)
       PROVE  jobs' = jobs /\ nextId' = nextId
  BY <1>14 DEF SweepItem, EnqueueDedup, EnqueueCap, EnqueuePut, RetryPut
<1>15. ASSUME NEW s \in Slots, Dispatch(s) \/ AcquireLock(s) \/ Translate(s)
       PROVE  jobs' = jobs /\ nextId' = nextId
  BY <1>15 DEF Dispatch, AcquireLock, Translate, TranslateSkip, TranslateBegin,
               TranslateDone, TranslateQuarantine, TranslateError, Leave
<1> QED
  BY <1>1, <1>2, <1>3, <1>4, <1>5, <1>6, <1>7, <1>8, <1>9, <1>10, <1>11, <1>12,
     <1>13, <1>14, <1>15
     DEF Next, CallerStep, TaskStep, Startup, Kept

\* What a caller's or a task's own step does to the ids it carries.
LEMMA CallerIds ==
  ASSUME TypeOK, IdsInserted, [Next]_vars
  PROVE  \A c \in Callers : caller'[c].id < nextId'
<1> USE JobQueueAssumption DEF JobQueueAssumption
<1>1. nextId \in Nat /\ nextId > 0 /\ nextId' \in Nat /\ nextId' >= nextId
  BY RowsKept DEF TypeOK
<1>2. \A c \in Callers : caller[c].id \in Nat /\ caller[c].id < nextId
  BY DEF TypeOK, IdsInserted, Caller, JobIds
<1>3. ASSUME NEW c \in Callers, NEW new, CallerBecomes(c, new), new.id < nextId,
             new.id \in Nat
      PROVE  \A d \in Callers : caller'[d].id < nextId'
  BY <1>1, <1>2, <1>3 DEF CallerBecomes, TypeOK
<1>4. CASE caller' = caller
  BY <1>1, <1>2, <1>4
<1>5. ASSUME NEW c \in Callers
      PROVE  /\ caller[c] \in Caller
             /\ Returned(c).id = 0
  BY DEF TypeOK, Returned, NoCaller
<1>6. ASSUME NEW c \in Callers, CallerBegins(c)
      PROVE  \E new : CallerBecomes(c, new) /\ new.id \in Nat /\ new.id < nextId
  <2>1. CASE PollSweep(c)
    <3>1. PICK T : CallerBecomes(c, [NoCaller EXCEPT !.pc = "sweep", !.todo = T])
      BY <2>1 DEF PollSweep
    <3> DEFINE new == [NoCaller EXCEPT !.pc = "sweep", !.todo = T]
    <3>2. new.id = 0
      BY DEF NoCaller
    <3>3. CallerBecomes(c, new)
      BY <3>1
    <3> HIDE DEF new
    <3> QED
      BY <1>1, <3>2, <3>3
  <2>2. CASE ManualTranslate(c)
    <3>1. PICK p, k : CallerBecomes(c, EnqueueCall(p, k, "manual", {}))
      BY <2>2 DEF ManualTranslate
    <3> DEFINE new == EnqueueCall(p, k, "manual", {})
    <3>2. new.id = 0
      BY DEF EnqueueCall
    <3>3. CallerBecomes(c, new)
      BY <3>1
    <3> HIDE DEF new
    <3> QED
      BY <1>1, <3>2, <3>3
  <2>3. CASE TimerFires(c)
    <3>1. PICK j \in JobIds :
            CallerBecomes(c, EnqueueCall(jobs[j].path, jobs[j].key, "auto-retry", {}))
      BY <2>3 DEF TimerFires
    <3> DEFINE new == EnqueueCall(jobs[j].path, jobs[j].key, "auto-retry", {})
    <3>2. new.id = 0
      BY DEF EnqueueCall
    <3>3. CallerBecomes(c, new)
      BY <3>1
    <3> HIDE DEF new
    <3> QED
      BY <1>1, <3>2, <3>3
  <2>4. CASE RetrySelect(c)
    <3>1. PICK j \in JobIds :
            /\ jobs[j].status \in Retriable
            /\ CallerBecomes(c, [NoCaller EXCEPT !.pc = "retry_reset", !.id = j])
      BY <2>4 DEF RetrySelect
    <3>2. j \in Nat /\ j < nextId
      BY <1>1, <3>1 DEF IdsInserted, JobIds, Retriable, Terminal
    <3>3. [NoCaller EXCEPT !.pc = "retry_reset", !.id = j].id = j
      BY DEF NoCaller
    <3> QED
      BY <3>1, <3>2, <3>3
  <2> QED
    BY <1>6, <2>1, <2>2, <2>3, <2>4 DEF CallerBegins
<1>7. ASSUME NEW c \in Callers, CallerStep(c)
      PROVE  \E new : CallerBecomes(c, new) /\ new.id \in Nat /\ new.id < nextId
  <2>1. CASE SweepItem(c)
    <3>1. PICK p : CallerBecomes(c, EnqueueCall(p, SeriesOf[p], "poll",
                                                caller[c].todo \ {p}))
      BY <2>1 DEF SweepItem
    <3> DEFINE new == EnqueueCall(p, SeriesOf[p], "poll", caller[c].todo \ {p})
    <3>2. new.id = 0
      BY DEF EnqueueCall
    <3>3. CallerBecomes(c, new)
      BY <3>1
    <3> HIDE DEF new
    <3> QED
      BY <1>1, <3>2, <3>3
  <2>2. \A pc : [caller[c] EXCEPT !.pc = pc].id = caller[c].id
    BY <1>5 DEF Caller
  <2>3. CASE EnqueueDedup(c) \/ EnqueueCap(c)
    <3>1. PICK new : CallerBecomes(c, new) /\ new.id \in {0, caller[c].id}
      <4>1. \/ CallerBecomes(c, Returned(c))
            \/ \E pc : CallerBecomes(c, [caller[c] EXCEPT !.pc = pc])
        BY <2>3 DEF EnqueueDedup, EnqueueCap
      <4>2. CASE CallerBecomes(c, Returned(c))
        <5>1. Returned(c).id \in {0, caller[c].id}
          BY <1>5
        <5> QED
          BY <4>2, <5>1
      <4>3. ASSUME NEW pc, CallerBecomes(c, [caller[c] EXCEPT !.pc = pc])
            PROVE  \E new : CallerBecomes(c, new) /\ new.id \in {0, caller[c].id}
        <5>1. [caller[c] EXCEPT !.pc = pc].id \in {0, caller[c].id}
          BY <2>2
        <5> QED
          BY <4>3, <5>1
      <4> QED
        BY <4>1, <4>2, <4>3
    <3> QED
      BY <1>1, <1>2, <3>1
  <2>5. CASE EnqueueInsert(c)
    BY <1>2, <2>2, <2>5 DEF EnqueueInsert
  <2>6. CASE EnqueuePut(c)
    BY <1>1, <1>5, <2>6 DEF EnqueuePut
  <2>7. CASE RetryReset(c)
    BY <1>2, <2>2, <2>7 DEF RetryReset
  <2>8. CASE RetryPut(c)
    BY <1>1, <2>8 DEF RetryPut, NoCaller
  <2> QED
    BY <1>7, <2>1, <2>3, <2>5, <2>6, <2>7, <2>8 DEF CallerStep
<1>8. ASSUME NEW s \in Slots, Dispatch(s) \/ AcquireLock(s) \/ TaskStep(s)
      PROVE  caller' = caller
  BY <1>8 DEF Dispatch, AcquireLock, TaskStep, Translate, TranslateSkip, TranslateBegin,
              TranslateDone, TranslateQuarantine, TranslateError, Leave, JobStart,
              JobCommit, JobUnhandledError
<1>9. CASE Crash
  <2>1. \A c \in Callers : caller'[c].id = 0
    BY <1>9 DEF Crash, NoCaller
  <2> QED
    BY <1>1, <2>1
<1>10. CASE Startup
  BY <1>4, <1>10 DEF Startup, ReconcileJobs, ReconcileLedger, Serve
<1>11. CASE UNCHANGED vars
  BY <1>4, <1>11 DEF vars
<1> QED
  BY <1>3, <1>4, <1>6, <1>7, <1>8, <1>9, <1>10, <1>11 DEF Next

\* The queue only ever holds ids of inserted rows.
LEMMA QueueIds ==
  ASSUME TypeOK, IdsInserted, [Next]_vars
  PROVE  \A i \in 1..Len(queue') : queue'[i] < nextId'
<1> USE JobQueueAssumption DEF JobQueueAssumption
<1>1. nextId \in Nat /\ nextId' \in Nat /\ nextId' >= nextId
  BY RowsKept DEF TypeOK
<1>2. queue \in Seq(Nat) /\ \A i \in 1..Len(queue) : queue[i] \in Nat /\ queue[i] < nextId
  BY DEF TypeOK, IdsInserted, JobIds
<1>3. CASE queue' = queue
  BY <1>1, <1>2, <1>3
<1>4. ASSUME NEW j \in Nat, j < nextId', queue' = Append(queue, j)
      PROVE  \A i \in 1..Len(queue') : queue'[i] < nextId'
  BY <1>1, <1>2, <1>4
<1>5. ASSUME NEW c \in Callers, CallerBegins(c) \/ CallerStep(c)
      PROVE  queue' = queue \/ \E j \in Nat : j < nextId' /\ queue' = Append(queue, j)
  <2>1. CASE EnqueuePut(c)
    <3>1. \A j \in Found(c) : j \in Nat /\ j < nextId
      BY <1>1 DEF Found, RowsOf, IdsInserted, JobIds
    <3> QED
      BY <1>1, <2>1, <3>1 DEF EnqueuePut
  <2>2. CASE RetryPut(c)
    <3>1. caller[c].id \in Nat /\ caller[c].id < nextId
      BY DEF TypeOK, Caller, JobIds, IdsInserted
    <3> QED
      BY <1>1, <2>2, <3>1 DEF RetryPut
  <2> QED
    BY <1>5, <2>1, <2>2
       DEF CallerBegins, PollSweep, ManualTranslate, TimerFires, RetrySelect, CallerStep,
           SweepItem, EnqueueDedup, EnqueueCap, EnqueueInsert, RetryReset
<1>6. ASSUME NEW s \in Slots, Dispatch(s)
      PROVE  \A i \in 1..Len(queue') : queue'[i] < nextId'
  <2>1. queue \in Seq(JobIds) /\ queue # <<>> /\ queue' = Tail(queue)
    BY <1>6 DEF Dispatch, TypeOK
  <2>2. Len(queue') = Len(queue) - 1 /\ \A i \in 1..Len(queue') : queue'[i] = queue[i + 1]
    BY <2>1
  <2> SUFFICES ASSUME NEW i \in 1..Len(queue')
               PROVE  queue'[i] < nextId'
    OBVIOUS
  <2>3. i + 1 \in 1..Len(queue)
    BY <2>1, <2>2
  <2>4. queue[i + 1] \in Nat /\ queue[i + 1] < nextId
    BY <1>2, <2>3
  <2>5. queue'[i] = queue[i + 1]
    BY <2>2
  <2> QED
    BY <1>1, <2>4, <2>5
<1>7. ASSUME NEW s \in Slots, AcquireLock(s) \/ TaskStep(s)
      PROVE  queue' = queue
  BY <1>7 DEF AcquireLock, TaskStep, Translate, TranslateSkip, TranslateBegin,
              TranslateDone, TranslateQuarantine, TranslateError, Leave, JobStart,
              JobCommit, JobUnhandledError
<1>8. CASE Crash
  BY <1>8 DEF Crash
<1>9. CASE ReconcileJobs
  <2>1. PICK ids \in [1..Cardinality(Stale) -> Stale] : queue' = ids
    BY <1>9 DEF ReconcileJobs
  <2>2. Stale \subseteq JobIds /\ \A j \in Stale : j \in Nat /\ j < nextId
    BY <1>1 DEF Stale, Active, IdsInserted, JobIds
  <2>3. Cardinality(Stale) \in Nat
    BY <2>2, JobIdsFinite
  <2>4. Len(queue') = Cardinality(Stale)
    BY <2>1, <2>3
  <2> QED
    BY <1>1, <2>1, <2>2, <2>4
<1>10. ASSUME NEW p \in Paths, ReconcileLedger(p)
       PROVE  \E j \in Nat : j < nextId' /\ queue' = Append(queue, j)
  BY <1>1, <1>10 DEF ReconcileLedger
<1>11. CASE Serve \/ UNCHANGED vars
  BY <1>3, <1>11 DEF Serve, vars
<1> QED
  BY <1>3, <1>4, <1>5, <1>6, <1>7, <1>8, <1>9, <1>10, <1>11 DEF Next, Startup

\* A task only ever holds the id of an inserted row.
LEMMA TaskIds ==
  ASSUME TypeOK, IdsInserted, [Next]_vars
  PROVE  \A s \in Slots : task'[s].id < nextId'
<1> USE JobQueueAssumption DEF JobQueueAssumption
<1>1. nextId \in Nat /\ nextId > 0 /\ nextId' \in Nat /\ nextId' >= nextId
  BY RowsKept DEF TypeOK
<1>2. \A s \in Slots : task[s] \in Task /\ task[s].id \in Nat /\ task[s].id < nextId
  BY DEF TypeOK, IdsInserted, Task, JobIds
<1>3. ASSUME NEW s \in Slots, NEW new, TaskBecomes(s, new), new.id \in Nat,
             new.id < nextId
      PROVE  \A t \in Slots : task'[t].id < nextId'
  BY <1>1, <1>2, <1>3 DEF TaskBecomes, TypeOK
<1>4. CASE task' = task
  BY <1>1, <1>2, <1>4
<1>5. ASSUME NEW s \in Slots, Dispatch(s)
      PROVE  \A t \in Slots : task'[t].id < nextId'
  <2> DEFINE new == [NoTask EXCEPT !.pc = "start", !.id = Head(queue)]
  <2>1. new.id = Head(queue)
    BY DEF NoTask
  <2>2. Head(queue) = queue[1] /\ 1 \in 1..Len(queue) /\ Head(queue) \in JobIds
    BY <1>5 DEF Dispatch, TypeOK
  <2>3. new.id \in Nat /\ new.id < nextId
    BY <2>1, <2>2 DEF IdsInserted, JobIds
  <2>4. TaskBecomes(s, new)
    BY <1>5 DEF Dispatch
  <2> HIDE DEF new
  <2> QED
    BY <1>3, <2>3, <2>4
<1>6. ASSUME NEW s \in Slots, AcquireLock(s) \/ TaskStep(s)
      PROVE  \E new : TaskBecomes(s, new) /\ new.id \in Nat /\ new.id < nextId
  <2>1. \A pc, r : /\ [task[s] EXCEPT !.pc = pc].id = task[s].id
                   /\ [task[s] EXCEPT !.pc = pc, !.result = r].id = task[s].id
    BY <1>2 DEF Task
  <2>2. \/ TaskBecomes(s, NoTask)
        \/ \E pc : TaskBecomes(s, [task[s] EXCEPT !.pc = pc])
        \/ \E pc, r : TaskBecomes(s, [task[s] EXCEPT !.pc = pc, !.result = r])
    BY <1>6 DEF AcquireLock, TaskStep, Translate, TranslateSkip, TranslateBegin,
                TranslateDone, TranslateQuarantine, TranslateError, Leave, JobStart,
                JobCommit, JobUnhandledError
  <2>3. NoTask.id = 0
    BY DEF NoTask
  <2>4. ASSUME NEW new, TaskBecomes(s, new), new.id \in {0, task[s].id}
        PROVE  \E x : TaskBecomes(s, x) /\ x.id \in Nat /\ x.id < nextId
    BY <1>1, <1>2, <2>4
  <2>5. CASE TaskBecomes(s, NoTask)
    BY <2>3, <2>4, <2>5
  <2>6. ASSUME NEW pc, TaskBecomes(s, [task[s] EXCEPT !.pc = pc])
        PROVE  \E x : TaskBecomes(s, x) /\ x.id \in Nat /\ x.id < nextId
    <3> DEFINE new == [task[s] EXCEPT !.pc = pc]
    <3>1. new.id = task[s].id
      BY <2>1
    <3>2. TaskBecomes(s, new)
      BY <2>6
    <3> HIDE DEF new
    <3> QED
      BY <2>4, <3>1, <3>2
  <2>7. ASSUME NEW pc, NEW r, TaskBecomes(s, [task[s] EXCEPT !.pc = pc, !.result = r])
        PROVE  \E x : TaskBecomes(s, x) /\ x.id \in Nat /\ x.id < nextId
    <3> DEFINE new == [task[s] EXCEPT !.pc = pc, !.result = r]
    <3>1. new.id = task[s].id
      BY <2>1
    <3>2. TaskBecomes(s, new)
      BY <2>7
    <3> HIDE DEF new
    <3> QED
      BY <2>4, <3>1, <3>2
  <2> QED
    BY <2>2, <2>5, <2>6, <2>7
<1>7. CASE Crash
  <2>1. \A s \in Slots : task'[s].id = 0
    BY <1>7 DEF Crash, NoTask
  <2> QED
    BY <1>1, <2>1
<1>8. ASSUME NEW c \in Callers, CallerBegins(c) \/ CallerStep(c)
      PROVE  task' = task
  BY <1>8 DEF CallerBegins, PollSweep, ManualTranslate, TimerFires, RetrySelect, CallerStep,
              SweepItem, EnqueueDedup, EnqueueCap, EnqueueInsert, EnqueuePut, RetryReset,
              RetryPut
<1>9. CASE Startup \/ UNCHANGED vars
  BY <1>4, <1>9 DEF Startup, ReconcileJobs, ReconcileLedger, Serve, vars
<1> QED
  BY <1>3, <1>4, <1>5, <1>6, <1>7, <1>8, <1>9 DEF Next

\* The names of inserted rows stay what they are.
LEMMA IdsStep ==
  ASSUME TypeOK, IdsInserted, [Next]_vars
  PROVE  IdsInserted'
BY RowsKept, CallerIds, QueueIds, TaskIds DEF IdsInserted

\* A task's key does not change while its id does not.
LEMMA KeysKept ==
  ASSUME TypeOK, IdsInserted, [Next]_vars, NEW s \in Slots, NEW i \in JobIds,
         task[s].id = i, task'[s].id = i
  PROVE  KeyOf(s)' = KeyOf(s)
<1>1. i < nextId
  BY DEF IdsInserted
<1>2. RowKept(i)
  BY <1>1, RowsKept
<1> QED
  BY <1>2 DEF KeyOf, RowKept

\* The series locks are taken and released by the tasks that hold them.
LEMMA LockStep ==
  ASSUME TypeOK, IdsInserted, LockHeld, [Next]_vars
  PROVE  LockHeld'
<1> USE JobQueueAssumption DEF JobQueueAssumption
<1>1. \A s \in Slots : Translating(s) => task[s].id \in JobIds /\ KeyOf(s) \in LockKeys
  <2>1. ASSUME NEW s \in Slots, Translating(s)
        PROVE  task[s].id \in JobIds
    BY <2>1 DEF Translating, TypeOK, Task
  <2> QED
    BY <2>1 DEF KeyOf, TypeOK, JobRow
\* Steps of one task: every other task keeps what it has.
<1>2. ASSUME NEW s \in Slots, NEW new, TaskBecomes(s, new), new.id = task[s].id,
             NEW t \in Slots, Translating(t), t # s
      PROVE  Translating(t)' /\ KeyOf(t)' = KeyOf(t)
  <2>1. task'[t] = task[t]
    BY <1>2 DEF TaskBecomes, TypeOK
  <2> QED
    BY <1>1, <1>2, <2>1, KeysKept DEF Translating
<1>3. CASE owner' = owner /\ \A s \in Slots : Translating(s)' => task'[s] = task[s]
  <2> SUFFICES ASSUME NEW s \in Slots, Translating(s)'
               PROVE  owner'[KeyOf(s)'] = s
    BY DEF LockHeld
  <2>1. task'[s] = task[s]
    BY <1>3
  <2>2. Translating(s)
    BY <2>1 DEF Translating
  <2>3. KeyOf(s)' = KeyOf(s)
    BY <1>1, <2>1, <2>2, KeysKept
  <2> QED
    BY <1>3, <2>2, <2>3 DEF LockHeld
<1>4. ASSUME NEW c \in Callers, CallerBegins(c) \/ CallerStep(c)
      PROVE  owner' = owner /\ task' = task
  BY <1>4 DEF CallerBegins, PollSweep, ManualTranslate, TimerFires, RetrySelect, CallerStep,
              SweepItem, EnqueueDedup, EnqueueCap, EnqueueInsert, EnqueuePut, RetryReset,
              RetryPut
<1>5. CASE Crash
  <2>1. \A s \in Slots : ~ Translating(s)'
    BY <1>5 DEF Crash, Translating, NoTask
  <2> QED
    BY <2>1 DEF LockHeld
<1>6. CASE Startup \/ UNCHANGED vars
  BY <1>3, <1>6 DEF Startup, ReconcileJobs, ReconcileLedger, Serve, vars
<1>7. ASSUME NEW s \in Slots,
             Dispatch(s) \/ JobStart(s) \/ JobCommit(s) \/ JobUnhandledError(s)
      PROVE  LockHeld'
  <2>1. owner' = owner /\ ~ Translating(s)'
    <3>1. task[s] \in Task
      BY DEF TypeOK
    <3>2. PICK new : TaskBecomes(s, new) /\ new.pc \in {"start", "lock", "idle"}
      <4>1. /\ [NoTask EXCEPT !.pc = "start", !.id = Head(queue)].pc = "start"
            /\ [task[s] EXCEPT !.pc = "lock"].pc = "lock"
            /\ NoTask.pc = "idle"
        BY <3>1 DEF NoTask, Task
      <4>2. \/ TaskBecomes(s, [NoTask EXCEPT !.pc = "start", !.id = Head(queue)])
            \/ TaskBecomes(s, [task[s] EXCEPT !.pc = "lock"])
            \/ TaskBecomes(s, NoTask)
        BY <1>7 DEF Dispatch, JobStart, JobCommit, JobUnhandledError
      <4> QED
        BY <4>1, <4>2
    <3>3. task'[s] = new
      BY <3>2 DEF TaskBecomes, TypeOK
    <3>4. owner' = owner
      BY <1>7 DEF Dispatch, JobStart, JobCommit, JobUnhandledError
    <3> QED
      BY <3>2, <3>3, <3>4 DEF Translating
  <2>2. \A t \in Slots : t # s => task'[t] = task[t]
    BY <1>7 DEF Dispatch, JobStart, JobCommit, JobUnhandledError, TaskBecomes, TypeOK
  <2> QED
    BY <1>3, <2>1, <2>2
<1>8. ASSUME NEW s \in Slots, AcquireLock(s)
      PROVE  LockHeld'
  <2>1. task[s] \in Task /\ task[s].id \in JobIds
    BY <1>8 DEF AcquireLock, TypeOK, Task
  <2> DEFINE new == [task[s] EXCEPT !.pc = "work"]
  <2>2. new.id = task[s].id
    BY <2>1 DEF Task
  <2>3. TaskBecomes(s, new)
    BY <1>8 DEF AcquireLock
  <2> HIDE DEF new
  <2>4. task'[s].id = task[s].id
    BY <2>2, <2>3 DEF TaskBecomes, TypeOK
  <2>5. KeyOf(s)' = KeyOf(s) /\ KeyOf(s) \in LockKeys
    <3>1. KeyOf(s)' = KeyOf(s)
      BY <2>1, <2>4, KeysKept
    <3> QED
      BY <2>1, <3>1 DEF KeyOf, TypeOK, JobRow
  <2> SUFFICES ASSUME NEW t \in Slots, Translating(t)'
               PROVE  owner'[KeyOf(t)'] = t
    BY DEF LockHeld
  <2>6. CASE t = s
    BY <1>8, <2>5, <2>6 DEF AcquireLock, TypeOK
  <2>7. CASE t # s
    <3>1. task'[t] = task[t]
      BY <2>3, <2>7 DEF TaskBecomes, TypeOK
    <3>2. Translating(t)
      BY <3>1 DEF Translating
    <3>3. KeyOf(t)' = KeyOf(t) /\ owner[KeyOf(t)] = t
      BY <1>2, <2>2, <2>3, <2>7, <3>2 DEF LockHeld
    <3>4. KeyOf(t) # KeyOf(s)
      BY <1>8, <3>3 DEF AcquireLock, LockFree
    <3> QED
      BY <1>8, <3>3, <3>4 DEF AcquireLock, TypeOK
  <2> QED
    BY <2>6, <2>7
<1>9. ASSUME NEW s \in Slots, TranslateBegin(s)
      PROVE  LockHeld'
  <2>1. task[s] \in Task /\ Translating(s) /\ owner' = owner
    BY <1>9 DEF TranslateBegin, TypeOK, Translating
  <2> DEFINE new == [task[s] EXCEPT !.pc = "translating"]
  <2>2. new.id = task[s].id
    BY <2>1 DEF Task
  <2>3. TaskBecomes(s, new)
    BY <1>9 DEF TranslateBegin
  <2> HIDE DEF new
  <2>4. task'[s].id = task[s].id /\ \A t \in Slots : t # s => task'[t] = task[t]
    BY <2>2, <2>3 DEF TaskBecomes, TypeOK
  <2> SUFFICES ASSUME NEW t \in Slots, Translating(t)'
               PROVE  owner'[KeyOf(t)'] = t
    BY DEF LockHeld
  <2>5. Translating(t)
    BY <2>1, <2>4 DEF Translating
  <2>6. KeyOf(t)' = KeyOf(t)
    BY <1>1, <2>4, <2>5, KeysKept
  <2> QED
    BY <2>1, <2>5, <2>6 DEF LockHeld
<1>10. ASSUME NEW s \in Slots, NEW r, Translating(s), Leave(s, r)
       PROVE  LockHeld'
  <2>1. task[s] \in Task
    BY DEF TypeOK
  <2> DEFINE new == [task[s] EXCEPT !.pc = "commit", !.result = r]
  <2>2. new.id = task[s].id /\ new.pc = "commit"
    BY <2>1 DEF Task
  <2>3. TaskBecomes(s, new)
    BY <1>10 DEF Leave
  <2> HIDE DEF new
  <2>4. ~ Translating(s)'
    BY <2>2, <2>3 DEF TaskBecomes, Translating, TypeOK
  <2> SUFFICES ASSUME NEW t \in Slots, Translating(t)'
               PROVE  owner'[KeyOf(t)'] = t
    BY DEF LockHeld
  <2>5. t # s
    BY <2>4
  <2>6. Translating(t)
    BY <2>3, <2>5 DEF TaskBecomes, Translating, TypeOK
  <2>7. KeyOf(t)' = KeyOf(t) /\ owner[KeyOf(t)] = t /\ owner[KeyOf(s)] = s
    BY <1>2, <1>10, <2>2, <2>3, <2>5, <2>6 DEF LockHeld
  <2>8. KeyOf(t) # KeyOf(s)
    BY <2>5, <2>7
  <2> QED
    BY <1>10, <2>7, <2>8 DEF Leave, TypeOK
<1>11. ASSUME NEW s \in Slots, Translate(s), ~ TranslateBegin(s)
       PROVE  LockHeld'
  <2>1. Translating(s) /\ \E r : Leave(s, r)
    BY <1>11 DEF Translate, TranslateSkip, TranslateDone, TranslateQuarantine,
                 TranslateError, Translating
  <2> QED
    BY <1>10, <2>1
<1> QED
  BY <1>3, <1>4, <1>5, <1>6, <1>7, <1>8, <1>9, <1>11 DEF Next, TaskStep

\* A row that says running keeps a task past its start.
LEMMA RunningStep ==
  ASSUME TypeOK, IdsInserted, RunningHeld, [Next]_vars
  PROVE  RunningHeld'
<1> USE JobQueueAssumption DEF JobQueueAssumption
<1>1. CASE /\ phase' = "down" => phase = "down"
           /\ phase = "down" => phase' = "down"
           /\ \A j \in JobIds : jobs'[j].status = "running" => jobs[j].status = "running"
           /\ task' = task
  BY <1>1 DEF RunningHeld
<1>2. ASSUME NEW i \in JobIds, NEW new, JobBecomes(i, new), new.status # "running"
      PROVE  \A j \in JobIds :
               jobs'[j].status = "running" => jobs[j].status = "running" /\ j # i
  BY <1>2 DEF JobBecomes, TypeOK
<1>3. ASSUME NEW c \in Callers, CallerBegins(c) \/ CallerStep(c)
      PROVE  RunningHeld'
  <2>1. phase' = phase /\ task' = task
    BY <1>3 DEF CallerBegins, PollSweep, ManualTranslate, TimerFires, RetrySelect,
                CallerStep, SweepItem, EnqueueDedup, EnqueueCap, EnqueueInsert, EnqueuePut,
                RetryReset, RetryPut
  <2>2. CASE EnqueueInsert(c)
    <3>1. NewJob(caller[c].path, caller[c].key, caller[c].trigger).status
            = "queued"
      BY DEF NewJob
    <3> QED
      BY <1>1, <1>2, <2>1, <2>2, <3>1 DEF EnqueueInsert
  <2>3. CASE RetryReset(c)
    <3>1. caller[c].id \in JobIds
      BY <2>3 DEF RetryReset, TypeOK, Caller
    <3> DEFINE new == [jobs[caller[c].id] EXCEPT !.status = "queued", !.attempts = 0,
                                                 !.trigger = "manual-retry"]
    <3>2. new.status = "queued"
      BY <3>1 DEF TypeOK, JobRow
    <3>3. JobBecomes(caller[c].id, new)
      BY <2>3 DEF RetryReset
    <3> HIDE DEF new
    <3> QED
      BY <1>1, <1>2, <2>1, <3>1, <3>2, <3>3
  <2> QED
    BY <1>1, <1>3, <2>1, <2>2, <2>3
       DEF CallerBegins, PollSweep, ManualTranslate, TimerFires, RetrySelect, CallerStep,
           SweepItem, EnqueueDedup, EnqueueCap, EnqueuePut, RetryPut
\* A task that keeps its id and does not go back to its start.
<1>4. ASSUME NEW s \in Slots, phase' = phase, jobs' = jobs,
             AcquireLock(s) \/ Translate(s)
      PROVE  RunningHeld'
  <2>1. task[s] \in Task
    BY DEF TypeOK
  <2>2. PICK new : TaskBecomes(s, new) /\ new.id = task[s].id /\ new.pc # "start"
    <3>1. \A pc, r : /\ [task[s] EXCEPT !.pc = pc].id = task[s].id
                     /\ [task[s] EXCEPT !.pc = pc].pc = pc
                     /\ [task[s] EXCEPT !.pc = pc, !.result = r].id = task[s].id
                     /\ [task[s] EXCEPT !.pc = pc, !.result = r].pc = pc
      BY <2>1 DEF Task
    <3>2. \/ TaskBecomes(s, [task[s] EXCEPT !.pc = "work"])
          \/ TaskBecomes(s, [task[s] EXCEPT !.pc = "translating"])
          \/ \E r : TaskBecomes(s, [task[s] EXCEPT !.pc = "commit", !.result = r])
      BY <1>4 DEF AcquireLock, Translate, TranslateSkip, TranslateBegin, TranslateDone,
                  TranslateQuarantine, TranslateError, Leave
    <3>3. ASSUME NEW pc, TaskBecomes(s, [task[s] EXCEPT !.pc = pc]), pc # "start"
          PROVE  \E x : TaskBecomes(s, x) /\ x.id = task[s].id /\ x.pc # "start"
      BY <3>1, <3>3
    <3>4. ASSUME NEW r, TaskBecomes(s, [task[s] EXCEPT !.pc = "commit", !.result = r])
          PROVE  \E x : TaskBecomes(s, x) /\ x.id = task[s].id /\ x.pc # "start"
      <4> DEFINE new == [task[s] EXCEPT !.pc = "commit", !.result = r]
      <4>1. new.id = task[s].id /\ new.pc = "commit"
        BY <3>1
      <4>2. TaskBecomes(s, new)
        BY <3>4
      <4> HIDE DEF new
      <4> QED
        BY <4>1, <4>2
    <3> QED
      BY <3>2, <3>3, <3>4
  <2>3. /\ task'[s] = new
        /\ \A t \in Slots : t # s => task'[t] = task[t]
    BY <2>2 DEF TaskBecomes, TypeOK
  <2> QED
    BY <1>4, <2>2, <2>3 DEF RunningHeld
<1>5. ASSUME NEW s \in Slots, Dispatch(s)
      PROVE  RunningHeld'
  <2>1. \A t \in Slots : t # s => task'[t] = task[t]
    BY <1>5 DEF Dispatch, TaskBecomes, TypeOK
  <2>2. task[s].id = 0
    BY <1>5 DEF Dispatch, NoTask
  <2>3. phase' = phase /\ jobs' = jobs
    BY <1>5 DEF Dispatch
  <2> QED
    BY <2>1, <2>2, <2>3 DEF RunningHeld, JobIds
<1>6. ASSUME NEW s \in Slots, JobStart(s)
      PROVE  RunningHeld'
  <2>1. task[s] \in Task /\ task[s].id \in JobIds
    BY <1>6 DEF JobStart, TypeOK, Task
  <2>2. [task[s] EXCEPT !.pc = "lock"].id = task[s].id
        /\ [task[s] EXCEPT !.pc = "lock"].pc = "lock"
    BY <2>1 DEF Task
  <2>3. /\ task'[s].id = task[s].id /\ task'[s].pc = "lock"
        /\ \A t \in Slots : t # s => task'[t] = task[t]
    BY <1>6, <2>2 DEF JobStart, TaskBecomes, TypeOK
  <2>4. phase' = phase /\ \A j \in JobIds : j # task[s].id => jobs'[j] = jobs[j]
    BY <1>6 DEF JobStart, JobBecomes, TypeOK
  <2> QED
    BY <2>1, <2>3, <2>4 DEF RunningHeld
<1>7. ASSUME NEW s \in Slots, JobCommit(s) \/ JobUnhandledError(s)
      PROVE  RunningHeld'
  <2>1. task[s] \in Task /\ task[s].id \in JobIds
    BY <1>7 DEF JobCommit, JobUnhandledError, TypeOK, Task
  <2>2. PICK st : /\ JobBecomes(task[s].id, [jobs[task[s].id] EXCEPT !.status = st])
                  /\ st # "running"
    <3>1. FinalStatus(task[s].result) # "running"
      BY <2>1 DEF FinalStatus, Task, Outcomes
    <3>2. CASE JobCommit(s)
      BY <3>1, <3>2 DEF JobCommit
    <3>3. CASE JobUnhandledError(s)
      BY <3>3 DEF JobUnhandledError
    <3> QED
      BY <1>7, <3>2, <3>3
  <2> DEFINE new == [jobs[task[s].id] EXCEPT !.status = st]
  <2>3. new.status # "running"
    BY <2>1, <2>2 DEF TypeOK, JobRow
  <2>4. JobBecomes(task[s].id, new)
    BY <2>2
  <2> HIDE DEF new
  <2>5. \A j \in JobIds : jobs'[j].status = "running" =>
                             jobs[j].status = "running" /\ j # task[s].id
    BY <1>2, <2>1, <2>3, <2>4
  <2>6. phase' = phase /\ \A t \in Slots : t # s => task'[t] = task[t]
    BY <1>7 DEF JobCommit, JobUnhandledError, TaskBecomes, TypeOK
  <2> QED
    BY <2>5, <2>6 DEF RunningHeld
<1>8. CASE Crash
  BY <1>8 DEF Crash, RunningHeld
<1>9. CASE ReconcileJobs
  <2>1. \A j \in JobIds : jobs'[j].status # "running"
    BY <1>9 DEF ReconcileJobs, Stale, Active, TypeOK, JobRow
  <2> QED
    BY <2>1 DEF RunningHeld
<1>10. ASSUME NEW p \in Paths, ReconcileLedger(p)
       PROVE  RunningHeld'
  <2>1. NewJob(p, NoSeries, "startup-reconcile").status = "queued"
    BY DEF NewJob
  <2> QED
    BY <1>1, <1>2, <1>10, <2>1 DEF ReconcileLedger
<1>11. CASE Serve
  BY <1>1, <1>11 DEF Serve
<1>12. CASE UNCHANGED vars
  BY <1>1, <1>12 DEF vars
<1>13. ASSUME NEW s \in Slots, AcquireLock(s) \/ Translate(s)
       PROVE  phase' = phase /\ jobs' = jobs
  BY <1>13 DEF AcquireLock, Translate, TranslateSkip, TranslateBegin, TranslateDone,
               TranslateQuarantine, TranslateError, Leave
<1> QED
  BY <1>3, <1>4, <1>5, <1>6, <1>7, <1>8, <1>9, <1>10, <1>11, <1>12, <1>13
     DEF Next, TaskStep, Startup

\* A path that a step of the service turns in_progress is one of a job row.
LEMMA OrphansStep ==
  ASSUME TypeOK, IdsInserted, OrphansAdopted, [Next]_vars
  PROVE  OrphansAdopted'
<1> USE JobQueueAssumption DEF JobQueueAssumption
<1> DEFINE HasRow(p) == \E j \in JobIds : jobs[j].path = p /\ jobs[j].status # "absent"
<1>1. Orphans = {p \in Paths : ledger[p] = "in_progress" /\ ~ HasRow(p)}
  BY DEF Orphans, RowsOf, TypeOK, JobRow
<1>2. TypeOK'
  BY TypeCallerBegins, TypeCallerStep, TypeTask, TypeProcess DEF Next, TypeOK, vars
<1>3. Orphans' = {p \in Paths : ledger'[p] = "in_progress" /\ ~ HasRow(p)'}
  BY <1>2 DEF Orphans, RowsOf, TypeOK, JobRow
<1>4. \A p \in Paths : HasRow(p) => HasRow(p)'
  <2> SUFFICES ASSUME NEW p \in Paths, NEW j \in JobIds,
                      jobs[j].path = p, jobs[j].status # "absent"
               PROVE  HasRow(p)'
    OBVIOUS
  <2>1. j < nextId
    BY DEF IdsInserted, JobIds, TypeOK
  <2>2. RowKept(j)
    BY <2>1, RowsKept
  <2> QED
    BY <2>2 DEF RowKept
<1>5. ASSUME phase' = "up" => phase = "up",
             \A p \in Paths : ledger'[p] = "in_progress" =>
                                ledger[p] = "in_progress" \/ HasRow(p)
      PROVE  OrphansAdopted'
  BY <1>1, <1>3, <1>4, <1>5 DEF OrphansAdopted
<1>6. ASSUME NEW c \in Callers, CallerBegins(c) \/ CallerStep(c)
      PROVE  phase' = phase /\ ledger' = ledger
  BY <1>6 DEF CallerBegins, PollSweep, ManualTranslate, TimerFires, RetrySelect, CallerStep,
              SweepItem, EnqueueDedup, EnqueueCap, EnqueueInsert, EnqueuePut, RetryReset,
              RetryPut
<1>7. ASSUME NEW s \in Slots, Dispatch(s) \/ AcquireLock(s) \/ JobStart(s) \/ JobCommit(s)
                               \/ JobUnhandledError(s) \/ TranslateSkip(s)
                               \/ TranslateError(s)
      PROVE  phase' = phase /\ ledger' = ledger
  BY <1>7 DEF Dispatch, AcquireLock, JobStart, JobCommit, JobUnhandledError, TranslateSkip,
              TranslateError, Leave
<1>8. ASSUME NEW s \in Slots,
             TranslateBegin(s) \/ TranslateDone(s) \/ TranslateQuarantine(s)
      PROVE  OrphansAdopted'
  <2>1. task[s].id \in JobIds /\ task[s].id < nextId
    BY <1>8 DEF TranslateBegin, TranslateDone, TranslateQuarantine, TypeOK, Task, IdsInserted
  <2>2. jobs[task[s].id].status # "absent"
    BY <2>1 DEF IdsInserted, JobIds, TypeOK
  <2>3. HasRow(PathOf(s))
    BY <2>1, <2>2 DEF PathOf
  <2>4. phase' = phase
    BY <1>8 DEF TranslateBegin, TranslateDone, TranslateQuarantine, Leave
  <2>5. \A p \in Paths : p # PathOf(s) => ledger'[p] = ledger[p]
    BY <1>8 DEF TranslateBegin, TranslateDone, TranslateQuarantine, TypeOK
  <2> QED
    BY <1>5, <2>3, <2>4, <2>5
<1>9. CASE Crash \/ ReconcileJobs \/ (\E p \in Paths : ReconcileLedger(p))
  BY <1>9 DEF Crash, ReconcileJobs, ReconcileLedger, OrphansAdopted
<1>10. CASE Serve
  <2>1. ledger' = ledger /\ Orphans = {}
    BY <1>10 DEF Serve, MayServe
  <2> QED
    BY <1>1, <1>3, <1>4, <2>1 DEF OrphansAdopted
<1>11. CASE UNCHANGED vars
  BY <1>5, <1>11 DEF vars
<1> QED
  BY <1>5, <1>6, <1>7, <1>8, <1>9, <1>10, <1>11 DEF Next, TaskStep, Translate, Startup

-----------------------------------------------------------------------------
(* The theorems. *)

\* The initial state satisfies the inductive invariant.
LEMMA InvariantInit == Init => IInv
<1> SUFFICES ASSUME Init
             PROVE  IInv
  OBVIOUS
<1> USE JobQueueAssumption DEF JobQueueAssumption, Init
<1>1. TypeOK
  BY TypeInit
<1>2. IdsInserted
  BY DEF IdsInserted, JobIds, NoJob, NoTask, NoCaller
<1>3. LockHeld
  BY DEF LockHeld, Translating, NoTask
<1>4. RunningHeld /\ OrphansAdopted
  BY DEF RunningHeld, OrphansAdopted
<1> QED
  BY <1>1, <1>2, <1>3, <1>4 DEF IInv

\* Every step keeps the inductive invariant.
LEMMA InvariantStep == IInv /\ [Next]_vars => IInv'
<1> SUFFICES ASSUME IInv, [Next]_vars
             PROVE  IInv'
  OBVIOUS
<1>1. TypeOK'
  BY TypeCallerBegins, TypeCallerStep, TypeTask, TypeProcess DEF IInv, Next, TypeOK, vars
<1> QED
  BY <1>1, IdsStep, LockStep, RunningStep, OrphansStep DEF IInv

\* The invariant holds in every state of the daemon.
THEOREM InvariantHolds == Spec => []IInv
BY InvariantInit, InvariantStep, PTL DEF Spec

\* D-68, per-series serialization: whatever is enqueued, retried, dispatched
\* twice or lost in a crash, no two tasks translate under one series lock.
THEOREM SeriesSerialized == Spec => []SeriesExclusion
<1>1. IInv => SeriesExclusion
  <2> SUFFICES ASSUME IInv, NEW s \in Slots, NEW t \in Slots, s # t,
                      Translating(s), Translating(t)
               PROVE  KeyOf(s) # KeyOf(t)
    BY DEF SeriesExclusion
  <2>1. owner[KeyOf(s)] = s /\ owner[KeyOf(t)] = t
    BY DEF IInv, LockHeld
  <2> QED
    BY <2>1
<1> QED
  BY <1>1, InvariantHolds, PTL

\* While the service is up, a row that says running is being executed.
THEOREM RunningRowsAreExecuted == Spec => []RunningIsExecuted
<1>1. IInv => RunningIsExecuted
  BY DEF IInv, RunningHeld, RunningIsExecuted
<1> QED
  BY <1>1, InvariantHolds, PTL

\* D-67 ARM 2: no translation cut short by a crash stays unknown to the jobs.
THEOREM NoOrphanWhileUp == Spec => []OrphansAdopted
<1>1. IInv => OrphansAdopted
  BY DEF IInv
<1> QED
  BY <1>1, InvariantHolds, PTL

-----------------------------------------------------------------------------
(* What the proofs about the rows, JobQueueSerialProofs and                *)
(* JobQueueBudgetProofs, share.                                            *)

\* Nothing runs while the process is down or adopting.
Quiet ==
  /\ phase # "up" => /\ \A s \in Slots : task[s].pc = "idle"
                     /\ \A c \in Callers : caller[c].pc = "idle"
  /\ phase = "down" => queue = <<>>

\* One entry of a table changes.
LEMMA OneEntry ==
  ASSUME TypeOK
  PROVE  /\ \A j \in JobIds : \A new : JobBecomes(j, new) =>
              \A k \in JobIds : jobs'[k] = IF k = j THEN new ELSE jobs[k]
         /\ \A s \in Slots : \A new : TaskBecomes(s, new) =>
              \A t \in Slots : task'[t] = IF t = s THEN new ELSE task[t]
         /\ \A c \in Callers : \A new : CallerBecomes(c, new) =>
              \A d \in Callers : caller'[d] = IF d = c THEN new ELSE caller[d]
BY DEF TypeOK, JobBecomes, TaskBecomes, CallerBecomes


\* Tasks and callers begin while the service is up, and a stop ends them.
LEMMA QuietStep == Quiet /\ [Next]_vars => Quiet'
<1> SUFFICES ASSUME Quiet, [Next]_vars
             PROVE  Quiet'
  OBVIOUS
<1>1. ASSUME NEW c \in Callers, CallerBegins(c) \/ CallerStep(c)
      PROVE  phase = "up" /\ phase' = "up"
  BY <1>1 DEF Quiet, CallerBegins, PollSweep, ManualTranslate, TimerFires, RetrySelect,
     CallerStep, SweepItem, EnqueueDedup, EnqueueCap, EnqueueInsert, EnqueuePut,
     RetryReset, RetryPut
<1>2. ASSUME NEW s \in Slots, Dispatch(s) \/ AcquireLock(s) \/ TaskStep(s)
      PROVE  phase = "up" /\ phase' = "up"
  BY <1>2 DEF Quiet, Dispatch, AcquireLock, TaskStep, Translate, TranslateSkip,
     TranslateBegin, TranslateDone, TranslateQuarantine, TranslateError, Leave, JobStart,
     JobCommit, JobUnhandledError
<1>3. CASE Crash
  <2>1. /\ phase' = "down" /\ queue' = <<>>
        /\ \A s \in Slots : task'[s].pc = "idle"
        /\ \A c \in Callers : caller'[c].pc = "idle"
    BY <1>3 DEF Crash, NoTask, NoCaller
  <2> QED
    BY <2>1 DEF Quiet
<1>4. CASE Startup
  BY <1>4 DEF Quiet, Startup, ReconcileJobs, ReconcileLedger, Serve
<1>5. CASE UNCHANGED vars
  BY <1>5 DEF Quiet, vars
<1>6. (phase = "up" /\ phase' = "up") => Quiet'
  BY DEF Quiet
<1> QED
  BY <1>1, <1>2, <1>3, <1>4, <1>5, <1>6 DEF Next

\* The daemon starts down, with nothing queued and nobody inside.
LEMMA QuietInit == Init => Quiet
<1> SUFFICES ASSUME Init
             PROVE  Quiet
  OBVIOUS
<1>1. /\ \A s \in Slots : task[s].pc = "idle"
      /\ \A c \in Callers : caller[c].pc = "idle"
  BY DEF Init, NoTask, NoCaller
<1> QED
  BY <1>1 DEF Init, Quiet

=============================================================================
