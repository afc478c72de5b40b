------------------------- MODULE JobQueueBudgetProofs -------------------------
(***************************************************************************)
(* Theorems of JobQueue on the caps of automatic attempts, for any number  *)
(* of callers inside enqueue_job at once.                                  *)
(***************************************************************************)
EXTENDS JobQueueProofs

-----------------------------------------------------------------------------
(***************************************************************************)
(* The inductive invariant.  AutoBudget counts rows; what bounds them is   *)
(* who may still insert one.  A deduplication that passes (no unfinished   *)
(* row of the path) has to imply that no id of a finished row is left in   *)
(* the queue or in a task, for such a row would come back to life.  Ids do *)
(* get there twice: the put of enqueue_job looks the row up by path,       *)
(* status and trigger and may find the row of another caller.  But then    *)
(* that other row stays queued: there are never more ids on their way than *)
(* queued rows of the same path and trigger (Counted).                     *)
(***************************************************************************)

Rows(p, t) == {j \in JobIds : jobs[j].path = p /\ jobs[j].trigger = t}

\* The triggers of rows that are queued once, when they are inserted.  A retry
\* queues a row again, and makes its trigger "manual-retry".
Plain == Triggers \ {"manual-retry"}

\* Ids on their way to a start: entries of the queue, tasks, callers in their put.
Entries(p, t) == {i \in 1..Len(queue) : queue[i] \in Rows(p, t)}
Starting(p, t) == {s \in Slots : task[s].pc = "start" /\ task[s].id \in Rows(p, t)}
Putting(p, t) ==
  {c \in Callers : caller[c].pc = "put" /\ caller[c].path = p /\ caller[c].trigger = t}
Pending(p, t) ==
  Cardinality(Entries(p, t)) + Cardinality(Starting(p, t)) + Cardinality(Putting(p, t))

\* Rows that wait for one.
Waiting(p, t) == {j \in Rows(p, t) : jobs[j].status = "queued"}

\* A row that is executed twice, or once more after its end.
Started(s) == task[s].pc \notin {"idle", "start"}
Clash(p, t) ==
  \E s \in Slots :
    /\ Started(s) /\ task[s].id \in Rows(p, t)
    /\ \/ jobs[task[s].id].status # "running"
       \/ \E u \in Slots : u # s /\ Started(u) /\ task[u].id = task[s].id

Counted(p, t) ==
  /\ Pending(p, t) <= Cardinality(Waiting(p, t))
  /\ Clash(p, t) => Pending(p, t) < Cardinality(Waiting(p, t))

\* Every row that waits still has an id to wait for; once an id is lost, a row
\* of the path stays queued until the next start.
Matched(p, t) == Pending(p, t) = Cardinality(Waiting(p, t))

\* What a step does to the count while the process lives.
CountKept(p, t) == Counted(p, t)' /\ (Matched(p, t)' => Matched(p, t))

\* No row that has started is queued again without becoming a manual retry.
Marked ==
  /\ \A s \in Slots : Started(s) /\ jobs[task[s].id].trigger \in Plain =>
                        jobs[task[s].id].status # "queued"
  /\ \A c \in Callers :
       /\ caller[c].pc = "retry_reset" =>
            jobs[caller[c].id].status # "queued" \/ jobs[caller[c].id].trigger = "manual-retry"
       /\ caller[c].pc = "retry_put" => jobs[caller[c].id].trigger = "manual-retry"

\* Rows of automatic triggers that something will still execute or that are
\* unfinished; and those that count against the budget now or later.
Held(j) == InQueue(j) \/ \E s \in Slots : task[s].pc # "idle" /\ task[s].id = j
AutoRow(p, j) == jobs[j].path = p /\ jobs[j].trigger \in AutoTriggers
Live(p) == {j \in JobIds : AutoRow(p, j) /\ (jobs[j].status \in Active \/ Held(j))}
Spent(p) == {j \in JobIds : AutoRow(p, j) /\ (jobs[j].status \in Terminal \/ j \in Live(p))}

\* Automatic callers that have passed the deduplication, and the cap as well.
Passed(p) == {c \in Callers : /\ caller[c].pc \in {"cap", "insert"}
                              /\ caller[c].path = p /\ caller[c].trigger \in AutoTriggers}
Inserting(p) == {c \in Passed(p) : caller[c].pc = "insert"}

Bounded(p) ==
  /\ Cardinality(Live(p)) + Cardinality(Passed(p)) <= Cardinality(Callers)
  /\ Cardinality(Spent(p)) + Cardinality(Inserting(p)) < Budget + Cardinality(Callers)

BudgetInv ==
  /\ Quiet
  /\ Marked
  /\ \A p \in Paths, t \in Plain : Counted(p, t)
  /\ \A p \in Paths : Bounded(p)

-----------------------------------------------------------------------------
(* Counting. *)

\* The sets that are counted are finite.
LEMMA SmallSets ==
  /\ \A S : S \subseteq JobIds => IsFiniteSet(S) /\ Cardinality(S) \in Nat
  /\ \A S : S \subseteq Slots => IsFiniteSet(S) /\ Cardinality(S) \in Nat
  /\ \A S : S \subseteq Callers => IsFiniteSet(S) /\ Cardinality(S) \in Nat
  /\ \A n \in Nat : \A S : S \subseteq 1..n => IsFiniteSet(S) /\ Cardinality(S) \in Nat
<1>1. ASSUME NEW T, IsFiniteSet(T), NEW S, S \subseteq T
      PROVE  IsFiniteSet(S) /\ Cardinality(S) \in Nat
  BY <1>1, FS_Subset, FS_CardinalityType
<1>2. IsFiniteSet(JobIds) /\ IsFiniteSet(Slots) /\ IsFiniteSet(Callers)
  BY FS_Interval, JobQueueAssumption, ProcessAssumption
     DEF JobIds, JobQueueAssumption, ProcessAssumption
<1>3. \A n \in Nat : IsFiniteSet(1..n)
  BY FS_Interval
<1> QED
  BY <1>1, <1>2, <1>3

\* More in the set, more counted.
LEMMA Fewer ==
  ASSUME NEW T, NEW S, IsFiniteSet(T), S \subseteq T
  PROVE  Cardinality(S) <= Cardinality(T) /\ Cardinality(S) \in Nat /\ Cardinality(T) \in Nat
BY FS_Subset, FS_CardinalityType

\* One member more, one member less.
LEMMA OneMore ==
  ASSUME NEW T, NEW x, IsFiniteSet(T)
  PROVE  /\ IsFiniteSet(T \union {x}) /\ IsFiniteSet(T \ {x})
         /\ Cardinality(T \union {x}) <= Cardinality(T) + 1
         /\ x \notin T => Cardinality(T \union {x}) = Cardinality(T) + 1
         /\ x \in T => Cardinality(T \ {x}) = Cardinality(T) - 1
         /\ Cardinality(T) \in Nat
<1>1. Cardinality(T) \in Nat
  BY FS_CardinalityType
<1> QED
  BY <1>1, FS_AddElement, FS_RemoveElement

\* The entries of the queue with an id of S, after a put.
LEMMA EntriesPut ==
  ASSUME queue \in Seq(JobIds), NEW j \in JobIds, queue' = Append(queue, j), NEW S
  PROVE  LET before == {i \in 1..Len(queue) : queue[i] \in S}
             after == {i \in 1..Len(queue') : queue'[i] \in S}
         IN  /\ IsFiniteSet(before) /\ IsFiniteSet(after)
             /\ Cardinality(before) \in Nat /\ Cardinality(after) \in Nat
             /\ j \in S => Cardinality(after) = Cardinality(before) + 1
             /\ j \notin S => after = before
<1> DEFINE before == {i \in 1..Len(queue) : queue[i] \in S}
           after == {i \in 1..Len(queue') : queue'[i] \in S}
           n == Len(queue)
<1>1. /\ n \in Nat /\ Len(queue') = n + 1
      /\ \A i \in 1..n : queue'[i] = queue[i]
      /\ queue'[n + 1] = j
  OBVIOUS
<1>2. \A i : i \in 1..(n + 1) <=> i \in 1..n \/ i = n + 1
  BY <1>1
<1>3. after = IF j \in S THEN before \union {n + 1} ELSE before
  BY <1>1, <1>2
<1>4. n + 1 \notin before
  BY <1>1
<1>5. before \subseteq 1..n /\ after \subseteq 1..(n + 1) /\ n + 1 \in Nat
  BY <1>1
<1>6. IsFiniteSet(before) /\ IsFiniteSet(after)
  BY <1>1, <1>5, SmallSets
<1> HIDE DEF before, after
<1>7. Cardinality(before) \in Nat /\ Cardinality(after) \in Nat
  BY <1>6, FS_CardinalityType
<1>8. j \in S => Cardinality(after) = Cardinality(before) + 1
  BY <1>3, <1>4, <1>6, OneMore
<1> QED
  BY <1>3, <1>6, <1>7, <1>8 DEF before, after

\* The same after the worker has taken the first.
LEMMA EntriesTaken ==
  ASSUME queue \in Seq(JobIds), queue # <<>>, queue' = Tail(queue), NEW S
  PROVE  LET before == {i \in 1..Len(queue) : queue[i] \in S}
             after == {i \in 1..Len(queue') : queue'[i] \in S}
         IN  /\ Cardinality(before) \in Nat /\ Cardinality(after) \in Nat
             /\ Head(queue) \in S => Cardinality(after) = Cardinality(before) - 1
             /\ Head(queue) \notin S => Cardinality(after) = Cardinality(before)
<1> DEFINE before == {i \in 1..Len(queue) : queue[i] \in S}
           after == {i \in 1..Len(queue') : queue'[i] \in S}
           rest == before \ {1}
           f == [i \in rest |-> i - 1]
           n == Len(queue)
<1>1. /\ n \in Nat /\ n >= 1 /\ Len(queue') = n - 1 /\ n - 1 \in Nat
      /\ \A i \in 1..(n - 1) : queue'[i] = queue[i + 1]
      /\ Head(queue) = queue[1]
  OBVIOUS
<1>2. before \subseteq 1..n /\ rest \subseteq 1..n /\ after \subseteq 1..(n - 1)
  BY <1>1
<1>3. IsFiniteSet(before) /\ IsFiniteSet(rest)
  BY <1>1, <1>2, SmallSets
<1>4. f \in Bijection(rest, after)
  <2>1. f \in [rest -> after]
    <3>1. ASSUME NEW i \in rest
          PROVE  i - 1 \in 1..Len(queue') /\ queue'[i - 1] = queue[i] /\ queue[i] \in S
      BY <1>1
    <3> QED
      BY <3>1
  <2>2. \A x, y \in rest : f[x] = f[y] => x = y
    BY <1>1
  <2>3. \A y \in after : \E x \in rest : f[x] = y
    <3>1. ASSUME NEW y \in after
          PROVE  y + 1 \in rest /\ (y + 1) - 1 = y
      BY <1>1
    <3> QED
      BY <3>1
  <2> HIDE DEF f, rest, after
  <2>4. f \in Injection(rest, after)
    BY <2>1, <2>2 DEF Injection, IsInjective
  <2>5. f \in Surjection(rest, after)
    BY <2>1, <2>3 DEF Surjection
  <2> QED
    BY <2>4, <2>5 DEF Bijection
<1>5. 1 \in before <=> Head(queue) \in S
  BY <1>1
<1> HIDE DEF before, after, f
<1>6. ExistsBijection(rest, after)
  BY <1>4 DEF ExistsBijection
<1>7. Cardinality(after) = Cardinality(rest)
  BY <1>3, <1>6, FS_Bijection
<1>8. /\ Head(queue) \in S => Cardinality(rest) = Cardinality(before) - 1
      /\ Head(queue) \notin S => rest = before
  BY <1>3, <1>5, OneMore
<1>9. Cardinality(before) \in Nat /\ Cardinality(rest) \in Nat
  BY <1>3, FS_CardinalityType
<1> QED
  BY <1>7, <1>8, <1>9 DEF before, after

\* The numbers that Counted compares.
LEMMA Numbers ==
  ASSUME TypeOK, NEW p, NEW t
  PROVE  /\ IsFiniteSet(Entries(p, t)) /\ Cardinality(Entries(p, t)) \in Nat
         /\ IsFiniteSet(Starting(p, t)) /\ Cardinality(Starting(p, t)) \in Nat
         /\ IsFiniteSet(Putting(p, t)) /\ Cardinality(Putting(p, t)) \in Nat
         /\ IsFiniteSet(Waiting(p, t)) /\ Cardinality(Waiting(p, t)) \in Nat
         /\ Rows(p, t) \subseteq JobIds
<1>1. Len(queue) \in Nat
  BY DEF TypeOK
<1>2. /\ Entries(p, t) \subseteq 1..Len(queue) /\ Starting(p, t) \subseteq Slots
      /\ Putting(p, t) \subseteq Callers /\ Waiting(p, t) \subseteq JobIds
      /\ Rows(p, t) \subseteq JobIds
  BY DEF Entries, Starting, Putting, Waiting, Rows
<1> QED
  BY <1>1, <1>2, SmallSets

\* A step that only moves on callers outside their put and tasks past their start.
LEMMA CountStays ==
  ASSUME NEW p, NEW t, Counted(p, t), UNCHANGED <<jobs, queue>>,
         \A s \in Slots : /\ task'[s].id = task[s].id
                          /\ task'[s].pc = "start" <=> task[s].pc = "start"
                          /\ Started(s)' => Started(s),
         Putting(p, t)' = Putting(p, t)
  PROVE  CountKept(p, t)
<1>1. /\ Rows(p, t)' = Rows(p, t) /\ Entries(p, t)' = Entries(p, t)
      /\ Waiting(p, t)' = Waiting(p, t)
  BY DEF Rows, Entries, Waiting
<1>2. Starting(p, t)' = Starting(p, t)
  BY <1>1 DEF Starting
<1>3. Clash(p, t)' => Clash(p, t)
  BY <1>1 DEF Clash
<1>4. Pending(p, t)' = Pending(p, t)
  BY <1>1, <1>2 DEF Pending
<1> QED
  BY <1>1, <1>3, <1>4 DEF CountKept, Matched, Counted

\* An INSERT: one more row that waits, one more caller that will put an id.
LEMMA CountInsert ==
  ASSUME TypeOK, IdsInserted, NEW p \in Paths, NEW t \in Plain, Counted(p, t),
         NEW c \in Callers, EnqueueInsert(c)
  PROVE  CountKept(p, t)
<1> DEFINE new == NewJob(caller[c].path, caller[c].key, caller[c].trigger)
           mine == caller[c].path = p /\ caller[c].trigger = t
<1>1. /\ caller[c].pc = "insert" /\ nextId \in JobIds /\ caller[c] \in Caller
      /\ \A k \in JobIds : jobs'[k] = IF k = nextId THEN new ELSE jobs[k]
      /\ \A d \in Callers : caller'[d] = IF d = c THEN [caller[c] EXCEPT !.pc = "put"]
                                         ELSE caller[d]
      /\ UNCHANGED <<queue, task>>
  BY OneEntry DEF EnqueueInsert, TypeOK
<1>2. /\ new.path = caller[c].path /\ new.status = "queued"
      /\ new.trigger = caller[c].trigger
  BY DEF NewJob
<1>3. /\ caller'[c].pc = "put" /\ caller'[c].path = caller[c].path
      /\ caller'[c].trigger = caller[c].trigger
  BY <1>1 DEF Caller
<1> HIDE DEF new
<1>4. /\ jobs[nextId].status = "absent" /\ nextId \in Nat
      /\ \A i \in 1..Len(queue) : queue[i] # nextId
      /\ \A s \in Slots : task[s].id # nextId
  BY <1>1, JobQueueAssumption
     DEF IdsInserted, TypeOK, Task, JobIds, JobQueueAssumption
<1>6. \A j \in JobIds : j # nextId => (j \in Rows(p, t)' <=> j \in Rows(p, t))
  BY <1>1 DEF Rows
<1>7. \A i \in 1..Len(queue) : queue[i] \in JobIds
  BY DEF TypeOK
<1>8. Entries(p, t)' = Entries(p, t)
  BY <1>1, <1>4, <1>6, <1>7 DEF Entries
<1>9. \A s \in Slots : task[s].id \in Rows(p, t)' <=> task[s].id \in Rows(p, t)
  BY <1>4, <1>6 DEF Rows
<1>10. Starting(p, t)' = Starting(p, t)
  BY <1>1, <1>9 DEF Starting
<1>11. Clash(p, t)' => Clash(p, t)
  <2>1. \A s \in Slots : task[s].id \in Rows(p, t) => jobs'[task[s].id] = jobs[task[s].id]
    BY <1>1, <1>4 DEF Rows
  <2> QED
    BY <1>1, <1>9, <2>1 DEF Clash, Started
<1>12. Waiting(p, t)' = IF mine THEN Waiting(p, t) \union {nextId} ELSE Waiting(p, t)
  BY <1>1, <1>2, <1>4 DEF Waiting, Rows
<1>13. Putting(p, t)' = IF mine THEN Putting(p, t) \union {c} ELSE Putting(p, t)
  BY <1>1, <1>3 DEF Putting
<1>14. c \notin Putting(p, t) /\ nextId \notin Waiting(p, t)
  BY <1>1, <1>4 DEF Putting, Waiting
<1>15. mine => /\ Cardinality(Putting(p, t)') = Cardinality(Putting(p, t)) + 1
               /\ Cardinality(Waiting(p, t)') = Cardinality(Waiting(p, t)) + 1
  BY <1>12, <1>13, <1>14, Numbers, OneMore
<1> HIDE DEF mine
<1>16. CASE mine
  BY <1>8, <1>10, <1>11, <1>15, <1>16, Numbers DEF CountKept, Matched, Counted, Pending
<1>17. CASE ~ mine
  BY <1>8, <1>10, <1>11, <1>12, <1>13, <1>17 DEF CountKept, Matched, Counted, Pending
<1> QED
  BY <1>16, <1>17

\* A put: the caller's turn becomes an entry, of whichever row it finds.
LEMMA CountPut ==
  ASSUME TypeOK, NEW p \in Paths, NEW t \in Plain, Counted(p, t),
         NEW c \in Callers, EnqueuePut(c)
  PROVE  CountKept(p, t)
<1> DEFINE mine == caller[c].path = p /\ caller[c].trigger = t
<1>1. /\ caller[c].pc = "put" /\ UNCHANGED <<jobs, task>>
      /\ \A d \in Callers : caller'[d] = IF d = c THEN Returned(c) ELSE caller[d]
      /\ Returned(c).pc # "put"
  BY OneEntry, ReturnedType DEF EnqueuePut
<1>2. /\ Rows(p, t)' = Rows(p, t) /\ Waiting(p, t)' = Waiting(p, t)
      /\ Starting(p, t)' = Starting(p, t) /\ (Clash(p, t)' => Clash(p, t))
  BY <1>1 DEF Rows, Waiting, Starting, Clash, Started
<1>3. Putting(p, t)' = IF mine THEN Putting(p, t) \ {c} ELSE Putting(p, t)
  BY <1>1 DEF Putting
<1>4. c \in Putting(p, t) <=> mine
  BY <1>1 DEF Putting
<1>5. mine => Cardinality(Putting(p, t)') = Cardinality(Putting(p, t)) - 1
  BY <1>3, <1>4, Numbers, OneMore
<1>6. \/ Entries(p, t)' = Entries(p, t)
      \/ mine /\ Cardinality(Entries(p, t)') = Cardinality(Entries(p, t)) + 1
  <2>1. CASE queue' = queue
    BY <1>2, <2>1 DEF Entries
  <2>2. ASSUME NEW j \in Found(c), queue' = Append(queue, j)
        PROVE  \/ Entries(p, t)' = Entries(p, t)
               \/ mine /\ Cardinality(Entries(p, t)') = Cardinality(Entries(p, t)) + 1
    <3>1. j \in JobIds /\ (j \in Rows(p, t) <=> mine)
      BY DEF Found, RowsOf, Rows
    <3>2. /\ j \in Rows(p, t) =>
               Cardinality({i \in 1..Len(queue') : queue'[i] \in Rows(p, t)})
                 = Cardinality({i \in 1..Len(queue) : queue[i] \in Rows(p, t)}) + 1
          /\ j \notin Rows(p, t) =>
               {i \in 1..Len(queue') : queue'[i] \in Rows(p, t)}
                 = {i \in 1..Len(queue) : queue[i] \in Rows(p, t)}
      BY <2>2, <3>1, EntriesPut DEF TypeOK
    <3> QED
      BY <1>2, <3>1, <3>2 DEF Entries
  <2> QED
    BY <2>1, <2>2 DEF EnqueuePut
<1> HIDE DEF mine
<1>7. CASE mine
  BY <1>2, <1>5, <1>6, <1>7, Numbers DEF CountKept, Matched, Counted, Pending
<1>8. CASE ~ mine
  BY <1>2, <1>3, <1>6, <1>8 DEF CountKept, Matched, Counted, Pending
<1> QED
  BY <1>7, <1>8

\* retry_job: its row has no automatic trigger any more, and does not wait.
LEMMA CountReset ==
  ASSUME TypeOK, Marked, NEW p \in Paths, NEW t \in Plain, Counted(p, t),
         NEW c \in Callers, RetryReset(c)
  PROVE  CountKept(p, t)
<1> DEFINE i == caller[c].id
           new == [jobs[i] EXCEPT !.status = "queued", !.attempts = 0,
                                  !.trigger = "manual-retry"]
<1>1. /\ caller[c].pc = "retry_reset" /\ i \in JobIds /\ caller[c] \in Caller
      /\ UNCHANGED <<queue, task>>
      /\ \A k \in JobIds : jobs'[k] = IF k = i THEN new ELSE jobs[k]
      /\ \A d \in Callers : caller'[d] = IF d = c THEN [caller[c] EXCEPT !.pc = "retry_put"]
                                         ELSE caller[d]
  BY OneEntry DEF RetryReset, TypeOK, Caller
<1>2. caller'[c].pc = "retry_put"
  BY <1>1 DEF Caller
<1>3. new.trigger = "manual-retry"
  <2>1. jobs[i] \in JobRow
    BY <1>1 DEF TypeOK
  <2> QED
    BY <2>1 DEF JobRow
<1>4. t # "manual-retry"
  BY DEF Plain
<1> HIDE DEF i, new
<1>5. i \notin Rows(p, t)'
  BY <1>1, <1>3, <1>4 DEF Rows
<1>6. Rows(p, t)' = Rows(p, t) \ {i}
  BY <1>1, <1>5 DEF Rows
<1>7. i \in Rows(p, t) => jobs[i].status # "queued"
  BY <1>1, <1>4 DEF Marked, Rows, i
<1>8. Waiting(p, t)' = Waiting(p, t)
  BY <1>1, <1>6, <1>7 DEF Waiting, Rows
<1>9. /\ Entries(p, t)' \subseteq Entries(p, t)
      /\ Starting(p, t)' \subseteq Starting(p, t)
  BY <1>1, <1>6 DEF Entries, Starting
<1>10. Putting(p, t)' = Putting(p, t)
  BY <1>1, <1>2 DEF Putting
<1>11. Clash(p, t)' => Clash(p, t)
  <2>1. \A s \in Slots : task[s].id \in Rows(p, t)' =>
          task[s].id \in Rows(p, t) /\ jobs'[task[s].id] = jobs[task[s].id]
    BY <1>1, <1>6 DEF Rows
  <2> QED
    BY <1>1, <2>1 DEF Clash, Started
<1>12. /\ Cardinality(Entries(p, t)') <= Cardinality(Entries(p, t))
       /\ Cardinality(Starting(p, t)') <= Cardinality(Starting(p, t))
       /\ Cardinality(Entries(p, t)') \in Nat /\ Cardinality(Starting(p, t)') \in Nat
  BY <1>9, Numbers, Fewer
<1> QED
  BY <1>8, <1>10, <1>11, <1>12, Numbers DEF CountKept, Matched, Counted, Pending

\* A put of an id of another path or trigger.
LEMMA CountOther ==
  ASSUME TypeOK, NEW p, NEW t, Counted(p, t), UNCHANGED <<jobs, task>>,
         Putting(p, t)' = Putting(p, t),
         NEW j \in JobIds, j \notin Rows(p, t), queue' = Append(queue, j)
  PROVE  CountKept(p, t)
<1>1. /\ Rows(p, t)' = Rows(p, t) /\ Waiting(p, t)' = Waiting(p, t)
      /\ Starting(p, t)' = Starting(p, t) /\ (Clash(p, t)' => Clash(p, t))
  BY DEF Rows, Waiting, Starting, Clash, Started
<1>2. {i \in 1..Len(queue') : queue'[i] \in Rows(p, t)}
        = {i \in 1..Len(queue) : queue[i] \in Rows(p, t)}
  BY EntriesPut DEF TypeOK
<1>3. Entries(p, t)' = Entries(p, t)
  BY <1>1, <1>2 DEF Entries
<1> QED
  BY <1>1, <1>3 DEF CountKept, Matched, Counted, Pending

\* The worker turns an entry into a task.
LEMMA CountDispatch ==
  ASSUME TypeOK, NEW p, NEW t, Counted(p, t), NEW s \in Slots, Dispatch(s)
  PROVE  CountKept(p, t)
<1> DEFINE h == Head(queue)
           mine == h \in Rows(p, t)
<1>1. /\ queue # <<>> /\ queue' = Tail(queue) /\ UNCHANGED <<jobs, caller>>
      /\ task[s].pc = "idle"
      /\ \A u \in Slots : task'[u] = IF u = s THEN [NoTask EXCEPT !.pc = "start", !.id = h]
                                     ELSE task[u]
  BY OneEntry DEF Dispatch, NoTask
<1>2. task'[s].pc = "start" /\ task'[s].id = h
  BY <1>1 DEF NoTask
<1>3. /\ Rows(p, t)' = Rows(p, t) /\ Waiting(p, t)' = Waiting(p, t)
      /\ Putting(p, t)' = Putting(p, t)
  BY <1>1 DEF Rows, Waiting, Putting
<1> HIDE DEF h
<1>4. Starting(p, t)' = IF mine THEN Starting(p, t) \union {s} ELSE Starting(p, t)
  BY <1>1, <1>2, <1>3 DEF Starting
<1>5. s \notin Starting(p, t)
  BY <1>1 DEF Starting
<1>6. Clash(p, t)' => Clash(p, t)
  BY <1>1, <1>2, <1>3 DEF Clash, Started
<1>7. /\ mine => Cardinality(Entries(p, t)') = Cardinality(Entries(p, t)) - 1
      /\ ~ mine => Cardinality(Entries(p, t)') = Cardinality(Entries(p, t))
  <2>1. LET before == {i \in 1..Len(queue) : queue[i] \in Rows(p, t)}
            after == {i \in 1..Len(queue') : queue'[i] \in Rows(p, t)}
        IN  /\ mine => Cardinality(after) = Cardinality(before) - 1
            /\ ~ mine => Cardinality(after) = Cardinality(before)
    BY <1>1, EntriesTaken DEF TypeOK, h
  <2> QED
    BY <1>3, <2>1 DEF Entries
<1>8. /\ mine => Cardinality(Starting(p, t)') = Cardinality(Starting(p, t)) + 1
      /\ ~ mine => Cardinality(Starting(p, t)') = Cardinality(Starting(p, t))
  BY <1>4, <1>5, Numbers, OneMore
<1> HIDE DEF mine
<1>9. Pending(p, t)' = Pending(p, t)
  BY <1>3, <1>7, <1>8, Numbers DEF Pending
<1> QED
  BY <1>3, <1>6, <1>9 DEF CountKept, Matched, Counted

\* A task that starts: one id less on its way, and one row less that waits for
\* one, unless the row was executed before.
LEMMA CountStart ==
  ASSUME TypeOK, NEW p, NEW t, Counted(p, t), NEW s \in Slots, JobStart(s)
  PROVE  /\ CountKept(p, t)
         /\ Matched(p, t)' /\ task[s].id \in Rows(p, t) =>
              jobs[task[s].id].status = "queued"
<1> DEFINE j == task[s].id
           row == [jobs[j] EXCEPT !.status = "running", !.attempts = @ + 1]
           mine == j \in Rows(p, t)
<1>1. /\ task[s].pc = "start" /\ task[s] \in Task /\ UNCHANGED <<queue, caller>>
      /\ j \in JobIds
      /\ \A k \in JobIds : jobs'[k] = IF k = j THEN row ELSE jobs[k]
      /\ \A u \in Slots : task'[u] = IF u = s THEN [task[s] EXCEPT !.pc = "lock"]
                                     ELSE task[u]
  BY OneEntry DEF JobStart, TypeOK, Task
<1>2. task'[s].pc = "lock" /\ task'[s].id = j
  BY <1>1 DEF Task
<1>3. row.status = "running" /\ row.path = jobs[j].path /\ row.trigger = jobs[j].trigger
  <2>1. jobs[j] \in JobRow
    BY <1>1 DEF TypeOK
  <2> QED
    BY <2>1 DEF JobRow
<1> HIDE DEF j, row
<1>4. Rows(p, t)' = Rows(p, t)
  BY <1>1, <1>3 DEF Rows
<1>5. Entries(p, t)' = Entries(p, t) /\ Putting(p, t)' = Putting(p, t)
  BY <1>1, <1>4 DEF Entries, Putting
<1>6. Starting(p, t)' = IF mine THEN Starting(p, t) \ {s} ELSE Starting(p, t)
  BY <1>1, <1>2, <1>4 DEF Starting, j
<1>7. s \in Starting(p, t) <=> mine
  BY <1>1 DEF Starting, j
<1>8. Waiting(p, t)' = IF mine THEN Waiting(p, t) \ {j} ELSE Waiting(p, t)
  BY <1>1, <1>3, <1>4 DEF Waiting, Rows
<1>9. j \in Waiting(p, t) <=> mine /\ jobs[j].status = "queued"
  BY DEF Waiting
<1>10. mine => Cardinality(Starting(p, t)') = Cardinality(Starting(p, t)) - 1
  BY <1>6, <1>7, Numbers, OneMore
<1>11. /\ mine /\ jobs[j].status = "queued" =>
            Cardinality(Waiting(p, t)') = Cardinality(Waiting(p, t)) - 1
       /\ ~ (mine /\ jobs[j].status = "queued") => Waiting(p, t)' = Waiting(p, t)
  BY <1>8, <1>9, Numbers, OneMore
<1>12. Clash(p, t)' => Clash(p, t) \/ (mine /\ jobs[j].status # "queued")
  <2>1. SUFFICES ASSUME Clash(p, t)', ~ (mine /\ jobs[j].status # "queued")
                 PROVE  Clash(p, t)
    OBVIOUS
  <2>2. PICK u \in Slots :
          /\ Started(u)' /\ task'[u].id \in Rows(p, t)
          /\ \/ jobs'[task'[u].id].status # "running"
             \/ \E v \in Slots : v # u /\ Started(v)' /\ task'[v].id = task'[u].id
    BY <1>4, <2>1 DEF Clash
  <2>3. task'[u].id \in JobIds
    BY <2>2 DEF Rows
  <2>4. \A v \in Slots : v # s => (Started(v)' <=> Started(v)) /\ task'[v] = task[v]
    BY <1>1 DEF Started
  <2>5. CASE jobs'[task'[u].id].status # "running"
    BY <1>1, <1>2, <1>3, <2>2, <2>3, <2>4, <2>5 DEF Clash
  <2>6. ASSUME NEW v \in Slots, v # u, Started(v)', task'[v].id = task'[u].id
        PROVE  Clash(p, t)
    <3>1. CASE u # s /\ v # s
      BY <2>2, <2>4, <2>6, <3>1 DEF Clash
    <3>2. ASSUME NEW w \in {u, v}, w # s, task'[w].id = j
          PROVE  Clash(p, t)
      <4>1. Started(w) /\ task[w].id = j /\ mine
        BY <1>2, <2>2, <2>4, <2>6, <3>2
      <4> QED
        BY <2>1, <4>1 DEF Clash
    <3> QED
      BY <1>2, <2>6, <3>1, <3>2
  <2> QED
    BY <2>2, <2>5, <2>6
<1> HIDE DEF mine
<1>13. ASSUME ~ mine
       PROVE  CountKept(p, t)
  BY <1>5, <1>6, <1>11, <1>12, <1>13 DEF CountKept, Matched, Counted, Pending
<1>14. ASSUME mine /\ jobs[j].status = "queued"
       PROVE  CountKept(p, t)
  BY <1>5, <1>10, <1>11, <1>12, <1>14, Numbers DEF CountKept, Matched, Counted, Pending
<1>15. ASSUME mine /\ jobs[j].status # "queued"
       PROVE  CountKept(p, t)
  BY <1>5, <1>10, <1>11, <1>15, Numbers DEF CountKept, Matched, Counted, Pending
<1>16. Matched(p, t)' /\ mine => jobs[j].status = "queued"
  BY <1>5, <1>10, <1>11, Numbers DEF Matched, Counted, Pending
<1> QED
  BY <1>13, <1>14, <1>15, <1>16 DEF mine, j

\* A task that ends, whatever it writes, takes no row that waits for another id.
LEMMA CountEnd ==
  ASSUME TypeOK, Marked, NEW p \in Paths, NEW t \in Plain, Counted(p, t),
         NEW s \in Slots, JobCommit(s) \/ JobUnhandledError(s)
  PROVE  CountKept(p, t)
<1> DEFINE j == task[s].id
           mine == j \in Rows(p, t)
           early == task[s].pc = "start"
<1>1. /\ task[s].pc \in {"start", "commit"} /\ task[s] \in Task
      /\ UNCHANGED <<queue, caller>> /\ j \in JobIds
  BY DEF JobCommit, JobUnhandledError, TypeOK, Task
<1>2. PICK st \in JobStatus \ Active :
        /\ JobBecomes(j, [jobs[j] EXCEPT !.status = st])
        /\ TaskBecomes(s, NoTask)
  <2>1. FinalStatus(task[s].result) \in JobStatus \ Active
    BY <1>1 DEF Task, Outcomes, FinalStatus, JobStatus, Active, Terminal
  <2>2. "failed" \in JobStatus \ Active
    BY DEF JobStatus, Active, Terminal
  <2> QED
    BY <2>1, <2>2 DEF JobCommit, JobUnhandledError
<1> DEFINE row == [jobs[j] EXCEPT !.status = st]
<1>3. /\ \A k \in JobIds : jobs'[k] = IF k = j THEN row ELSE jobs[k]
      /\ \A u \in Slots : task'[u] = IF u = s THEN NoTask ELSE task[u]
      /\ NoTask.pc = "idle"
  BY <1>1, <1>2, OneEntry DEF NoTask
<1>4. row.status = st /\ row.path = jobs[j].path /\ row.trigger = jobs[j].trigger
  <2>1. jobs[j] \in JobRow
    BY <1>1 DEF TypeOK
  <2> QED
    BY <2>1 DEF JobRow
<1> HIDE DEF j, row
<1>5. Rows(p, t)' = Rows(p, t)
  BY <1>3, <1>4 DEF Rows
<1>6. Entries(p, t)' = Entries(p, t) /\ Putting(p, t)' = Putting(p, t)
  BY <1>1, <1>5 DEF Entries, Putting
<1>7. Starting(p, t)' = IF mine /\ early THEN Starting(p, t) \ {s} ELSE Starting(p, t)
  BY <1>3, <1>5 DEF Starting, j
<1>8. s \in Starting(p, t) <=> mine /\ early
  BY DEF Starting, j
<1>9. mine /\ early => Cardinality(Starting(p, t)') = Cardinality(Starting(p, t)) - 1
  BY <1>7, <1>8, Numbers, OneMore
<1>10. Waiting(p, t)' = IF mine THEN Waiting(p, t) \ {j} ELSE Waiting(p, t)
  BY <1>2, <1>3, <1>4, <1>5 DEF Waiting, Rows, Active
<1>11. j \in Waiting(p, t) <=> mine /\ jobs[j].status = "queued"
  BY DEF Waiting
<1>12. \A u \in Slots : Started(u) /\ task[u].id = j /\ mine => jobs[j].status # "queued"
  BY DEF Marked, Rows
<1>13. mine /\ jobs[j].status = "queued" => early
  BY <1>1, <1>12 DEF Started, j
<1>14. /\ mine /\ jobs[j].status = "queued" =>
            Cardinality(Waiting(p, t)') = Cardinality(Waiting(p, t)) - 1
       /\ ~ (mine /\ jobs[j].status = "queued") => Waiting(p, t)' = Waiting(p, t)
  BY <1>10, <1>11, Numbers, OneMore
<1>15. Clash(p, t)' => Clash(p, t) \/ (mine /\ early /\ jobs[j].status # "queued")
  <2>1. SUFFICES ASSUME Clash(p, t)', ~ (mine /\ early /\ jobs[j].status # "queued")
                 PROVE  Clash(p, t)
    OBVIOUS
  <2>2. PICK u \in Slots :
          /\ Started(u)' /\ task'[u].id \in Rows(p, t)
          /\ \/ jobs'[task'[u].id].status # "running"
             \/ \E v \in Slots : v # u /\ Started(v)' /\ task'[v].id = task'[u].id
    BY <1>5, <2>1 DEF Clash
  <2>3. ~ Started(s)' /\ \A v \in Slots : v # s => (Started(v)' <=> Started(v)) /\ task'[v] = task[v]
    BY <1>3 DEF Started
  <2>4. u # s /\ task[u].id \in Rows(p, t) /\ Started(u) /\ task[u].id \in JobIds
    BY <2>2, <2>3 DEF Rows
  <2>5. CASE task[u].id = j
    <3>1. mine /\ jobs[j].status # "queued"
      BY <1>12, <2>4, <2>5
    <3>2. Started(s)
      BY <1>1, <2>1, <3>1 DEF Started
    <3> QED
      BY <2>4, <2>5, <3>2 DEF Clash, j
  <2>6. CASE task[u].id # j
    BY <1>3, <2>2, <2>3, <2>4, <2>6 DEF Clash
  <2> QED
    BY <2>5, <2>6
<1> HIDE DEF mine, early
<1>16. CASE ~ (mine /\ early)
  BY <1>6, <1>7, <1>13, <1>14, <1>15, <1>16 DEF CountKept, Matched, Counted, Pending
<1>17. CASE mine /\ early /\ jobs[j].status = "queued"
  BY <1>6, <1>9, <1>14, <1>15, <1>17, Numbers DEF CountKept, Matched, Counted, Pending
<1>18. CASE mine /\ early /\ jobs[j].status # "queued"
  BY <1>6, <1>9, <1>14, <1>18, Numbers DEF CountKept, Matched, Counted, Pending
<1> QED
  BY <1>16, <1>17, <1>18

\* After a stop nothing is on its way.
LEMMA CountCrash ==
  ASSUME TypeOK, NEW p, NEW t, Crash
  PROVE  Counted(p, t)'
<1>1. /\ queue' = <<>> /\ jobs' = jobs
      /\ \A s \in Slots : task'[s].pc = "idle"
      /\ \A c \in Callers : caller'[c].pc = "idle"
  BY DEF Crash, NoTask, NoCaller
<1>2. /\ Entries(p, t)' = {} /\ Starting(p, t)' = {} /\ Putting(p, t)' = {}
      /\ Waiting(p, t)' = Waiting(p, t) /\ ~ Clash(p, t)'
  BY <1>1 DEF Entries, Starting, Putting, Waiting, Rows, Clash, Started
<1>3. Pending(p, t)' = 0
  BY <1>2, FS_EmptySet DEF Pending
<1> QED
  BY <1>2, <1>3, Numbers DEF Counted

\* ARM 1 puts every unfinished row once.
LEMMA CountReconcile ==
  ASSUME TypeOK, Quiet, NEW p, NEW t, ReconcileJobs
  PROVE  Counted(p, t)'
<1>1. /\ UNCHANGED <<task, caller>>
      /\ \A j \in JobIds : jobs'[j] = IF j \in Stale THEN [jobs[j] EXCEPT !.status = "queued"]
                                      ELSE jobs[j]
      /\ \A s \in Slots : task[s].pc = "idle"
      /\ \A c \in Callers : caller[c].pc = "idle"
  BY DEF ReconcileJobs, Quiet
<1>2. PICK ids \in [1..Cardinality(Stale) -> Stale] :
        /\ \A x, y \in DOMAIN ids : ids[x] = ids[y] => x = y
        /\ queue' = ids
  BY DEF ReconcileJobs
<1>3. Stale \subseteq JobIds /\ Cardinality(Stale) \in Nat
  BY JobIdsFinite DEF Stale
<1>4. Len(ids) = Cardinality(Stale)
  BY <1>2, <1>3, QueueOfIds
<1>5. Starting(p, t)' = {} /\ Putting(p, t)' = {} /\ ~ Clash(p, t)'
  BY <1>1 DEF Starting, Putting, Clash, Started
<1>6. \A j \in Stale : jobs'[j].status = "queued"
  <2>1. \A j \in Stale : jobs[j] \in JobRow
    BY <1>3 DEF TypeOK
  <2> QED
    BY <1>1, <1>3, <2>1 DEF JobRow
<1> DEFINE E == Entries(p, t)'
           W == Waiting(p, t)'
           f == [i \in E |-> ids[i]]
<1>7. /\ E \subseteq 1..Cardinality(Stale)
      /\ \A i \in E : ids[i] \in Stale /\ ids[i] \in Rows(p, t)'
  BY <1>2, <1>4 DEF Entries
<1>8. \A i \in E : ids[i] \in W
  BY <1>6, <1>7 DEF Waiting
<1>9. W \subseteq JobIds
  BY DEF Waiting, Rows
<1>10. f \in Injection(E, W)
  <2>1. f \in [E -> W]
    BY <1>8
  <2>2. \A x, y \in E : f[x] = f[y] => x = y
    BY <1>2, <1>7
  <2> HIDE DEF f, E, W
  <2> QED
    BY <2>1, <2>2 DEF Injection, IsInjective
<1> HIDE DEF f, E, W
<1>11. IsFiniteSet(W) /\ Cardinality(W) \in Nat
  BY <1>9, SmallSets
<1>12. Cardinality(E) <= Cardinality(W) /\ Cardinality(E) \in Nat
  BY <1>10, <1>11, FS_Injection, FS_CardinalityType
<1>13. Pending(p, t)' = Cardinality(E)
  BY <1>5, <1>12, FS_EmptySet DEF Pending, E
<1> QED
  BY <1>5, <1>12, <1>13 DEF Counted, W

\* ARM 2 inserts a row and puts its id in one step.
LEMMA CountAdopt ==
  ASSUME TypeOK, IdsInserted, Quiet, NEW p, NEW t, Counted(p, t),
         NEW q, ReconcileLedger(q)
  PROVE  CountKept(p, t)
<1> DEFINE new == NewJob(q, NoSeries, "startup-reconcile")
           mine == q = p /\ t = "startup-reconcile"
<1>1. /\ phase = "adopting" /\ nextId \in JobIds /\ queue' = Append(queue, nextId)
      /\ UNCHANGED <<task, caller>>
      /\ \A k \in JobIds : jobs'[k] = IF k = nextId THEN new ELSE jobs[k]
  BY OneEntry DEF ReconcileLedger
<1>2. new.path = q /\ new.trigger = "startup-reconcile" /\ new.status = "queued"
  BY DEF NewJob
<1> HIDE DEF new
<1>3. /\ \A s \in Slots : task[s].pc = "idle"
      /\ \A c \in Callers : caller[c].pc = "idle"
  BY <1>1 DEF Quiet
<1>4. jobs[nextId].status = "absent" /\ \A i \in 1..Len(queue) : queue[i] # nextId
  BY <1>1, JobQueueAssumption DEF IdsInserted, TypeOK, JobIds, JobQueueAssumption
<1>5. /\ Starting(p, t)' = {} /\ Starting(p, t) = {} /\ ~ Clash(p, t)'
      /\ Putting(p, t)' = {} /\ Putting(p, t) = {}
  BY <1>1, <1>3 DEF Starting, Putting, Clash, Started
<1>6. \A j \in JobIds : j # nextId => (j \in Rows(p, t)' <=> j \in Rows(p, t))
  BY <1>1 DEF Rows
<1>7. nextId \in Rows(p, t)' <=> mine
  BY <1>1, <1>2 DEF Rows
<1>8. Waiting(p, t)' = IF mine THEN Waiting(p, t) \union {nextId} ELSE Waiting(p, t)
  BY <1>1, <1>2, <1>4, <1>6, <1>7 DEF Waiting, Rows
<1>9. nextId \notin Waiting(p, t)
  BY <1>1, <1>4 DEF Waiting
<1>10. mine => Cardinality(Waiting(p, t)') = Cardinality(Waiting(p, t)) + 1
  BY <1>8, <1>9, Numbers, OneMore
<1>11. PICK j \in JobIds : j = nextId
  BY <1>1
<1>12. PICK S : S = Rows(p, t)'
  OBVIOUS
<1>13. {i \in 1..Len(queue) : queue[i] \in S} = Entries(p, t)
  BY <1>4, <1>6, <1>12 DEF Entries, TypeOK
<1>14. /\ j \in S => Cardinality({i \in 1..Len(queue') : queue'[i] \in S})
                       = Cardinality({i \in 1..Len(queue) : queue[i] \in S}) + 1
       /\ j \notin S => {i \in 1..Len(queue') : queue'[i] \in S}
                          = {i \in 1..Len(queue) : queue[i] \in S}
  BY <1>1, <1>11, EntriesPut DEF TypeOK
<1>15. /\ mine => Cardinality(Entries(p, t)') = Cardinality(Entries(p, t)) + 1
       /\ ~ mine => Entries(p, t)' = Entries(p, t)
  BY <1>7, <1>11, <1>12, <1>13, <1>14 DEF Entries
<1> HIDE DEF mine
<1>16. CASE mine
  BY <1>5, <1>10, <1>15, <1>16, Numbers, FS_EmptySet
     DEF CountKept, Matched, Counted, Pending
<1>17. CASE ~ mine
  BY <1>5, <1>8, <1>15, <1>17 DEF CountKept, Matched, Counted, Pending
<1> QED
  BY <1>16, <1>17

\* What a caller does before it writes: it begins, takes up a row to retry, or
\* passes one of the checks of enqueue_job.
LEMMA Thinks ==
  ASSUME TypeOK, NEW c \in Callers,
         CallerBegins(c) \/ SweepItem(c) \/ EnqueueDedup(c) \/ EnqueueCap(c)
  PROVE  /\ UNCHANGED <<jobs, queue, task>>
         /\ caller[c].pc \in {"idle", "sweep", "dedup", "cap"}
         /\ \A d \in Callers : d # c => caller'[d] = caller[d]
         /\ \/ caller'[c].pc \in {"idle", "sweep", "dedup"}
            \/ /\ caller'[c].pc = "retry_reset" /\ caller'[c].id \in JobIds
               /\ jobs[caller'[c].id].status \in Terminal
            \/ /\ caller[c].pc = "dedup" /\ ~ IsDuplicate(caller[c].path)
               /\ caller'[c] = [caller[c] EXCEPT
                                  !.pc = IF caller[c].trigger \in AutoTriggers
                                         THEN "cap" ELSE "insert"]
            \/ /\ caller[c].pc = "cap" /\ ~ CapReached(caller[c].path, caller[c].trigger)
               /\ caller'[c] = [caller[c] EXCEPT !.pc = "insert"]
<1>1. Returned(c).pc \in {"idle", "sweep"}
  BY ReturnedType
<1>2. NoCaller.pc = "idle" /\ \A p, k, t, T : EnqueueCall(p, k, t, T).pc = "dedup"
  BY DEF NoCaller, EnqueueCall
<1>3. CASE PollSweep(c)
  <2>1. PICK T : CallerBecomes(c, [NoCaller EXCEPT !.pc = "sweep", !.todo = T])
    BY <1>3 DEF PollSweep
  <2>2. caller'[c] = [NoCaller EXCEPT !.pc = "sweep", !.todo = T]
    BY <2>1, OneEntry
  <2>3. caller'[c].pc = "sweep"
    BY <2>2 DEF NoCaller
  <2> QED
    BY <1>2, <1>3, <2>1, <2>3, OneEntry DEF PollSweep
<1>4. CASE ManualTranslate(c)
  <2>1. PICK p, k : CallerBecomes(c, EnqueueCall(p, k, "manual", {}))
    BY <1>4 DEF ManualTranslate
  <2> QED
    BY <1>2, <1>4, <2>1, OneEntry DEF ManualTranslate
<1>5. CASE TimerFires(c)
  <2>1. PICK p, k : CallerBecomes(c, EnqueueCall(p, k, "auto-retry", {}))
    BY <1>5 DEF TimerFires
  <2> QED
    BY <1>2, <1>5, <2>1, OneEntry DEF TimerFires
<1>6. CASE RetrySelect(c)
  <2>1. PICK j \in JobIds :
          /\ jobs[j].status \in Terminal
          /\ CallerBecomes(c, [NoCaller EXCEPT !.pc = "retry_reset", !.id = j])
    BY <1>6 DEF RetrySelect, Retriable
  <2>2. caller'[c] = [NoCaller EXCEPT !.pc = "retry_reset", !.id = j]
    BY <2>1, OneEntry
  <2>3. caller'[c].pc = "retry_reset" /\ caller'[c].id = j
    BY <2>2 DEF NoCaller
  <2> QED
    BY <1>2, <1>6, <2>1, <2>3, OneEntry DEF RetrySelect
<1>7. CASE SweepItem(c)
  <2>1. PICK p, k, T : CallerBecomes(c, EnqueueCall(p, k, "poll", T))
    BY <1>7 DEF SweepItem
  <2> QED
    BY <1>2, <1>7, <2>1, OneEntry DEF SweepItem
<1>8. CASE EnqueueDedup(c)
  <2>1. CASE IsDuplicate(caller[c].path)
    BY <1>1, <1>8, <2>1, OneEntry DEF EnqueueDedup
  <2>2. CASE ~ IsDuplicate(caller[c].path)
    BY <1>8, <2>2, OneEntry DEF EnqueueDedup
  <2> QED
    BY <2>1, <2>2
<1>9. CASE EnqueueCap(c)
  <2>1. CASE CapReached(caller[c].path, caller[c].trigger)
    BY <1>1, <1>9, <2>1, OneEntry DEF EnqueueCap
  <2>2. CASE ~ CapReached(caller[c].path, caller[c].trigger)
    BY <1>9, <2>2, OneEntry DEF EnqueueCap
  <2> QED
    BY <2>1, <2>2
<1> QED
  BY <1>3, <1>4, <1>5, <1>6, <1>7, <1>8, <1>9 DEF CallerBegins

\* What a task does between its start and its end, as far as the rows go.
LEMMA Works ==
  ASSUME TypeOK, NEW s \in Slots, AcquireLock(s) \/ Translate(s)
  PROVE  /\ UNCHANGED <<jobs, queue, caller>>
         /\ task[s].pc \in {"lock", "work", "translating"}
         /\ task'[s].id = task[s].id /\ task'[s].pc \in {"work", "translating", "commit"}
         /\ \A u \in Slots : u # s => task'[u] = task[u]
<1>1. task[s] \in Task
  BY DEF TypeOK
<1>2. CASE AcquireLock(s)
  <2>1. task'[s] = [task[s] EXCEPT !.pc = "work"]
    BY <1>2, OneEntry DEF AcquireLock
  <2>2. task'[s].id = task[s].id /\ task'[s].pc = "work"
    BY <1>1, <2>1 DEF Task
  <2> QED
    BY <1>2, <2>2, OneEntry DEF AcquireLock
<1>3. CASE TranslateBegin(s)
  <2>1. task'[s] = [task[s] EXCEPT !.pc = "translating"]
    BY <1>3, OneEntry DEF TranslateBegin
  <2>2. task'[s].id = task[s].id /\ task'[s].pc = "translating"
    BY <1>1, <2>1 DEF Task
  <2> QED
    BY <1>3, <2>2, OneEntry DEF TranslateBegin
<1>4. ASSUME NEW r, Leave(s, r), task[s].pc \in {"work", "translating"}
      PROVE  /\ UNCHANGED <<jobs, queue, caller>>
             /\ task'[s].id = task[s].id /\ task'[s].pc = "commit"
             /\ \A u \in Slots : u # s => task'[u] = task[u]
  <2>1. task'[s] = [task[s] EXCEPT !.pc = "commit", !.result = r]
    BY <1>4, OneEntry DEF Leave
  <2>2. task'[s].id = task[s].id /\ task'[s].pc = "commit"
    BY <1>1, <2>1 DEF Task
  <2> QED
    BY <1>4, <2>2, OneEntry DEF Leave
<1>5. CASE TranslateSkip(s)
  BY <1>4, <1>5 DEF TranslateSkip
<1>6. CASE TranslateDone(s)
  BY <1>4, <1>6 DEF TranslateDone
<1>7. CASE TranslateQuarantine(s)
  BY <1>4, <1>7 DEF TranslateQuarantine
<1>8. CASE TranslateError(s)
  BY <1>4, <1>8 DEF TranslateError
<1> QED
  BY <1>2, <1>3, <1>5, <1>6, <1>7, <1>8 DEF Translate

\* Every step keeps the count, and only a new start finds what was lost.
LEMMA CountStep ==
  ASSUME TypeOK, IdsInserted, Quiet, Marked, [Next]_vars,
         NEW p \in Paths, NEW t \in Plain, Counted(p, t)
  PROVE  /\ Counted(p, t)'
         /\ Matched(p, t)' => Matched(p, t) \/ Crash \/ ReconcileJobs
<1>1. ASSUME NEW c \in Callers,
             CallerBegins(c) \/ SweepItem(c) \/ EnqueueDedup(c) \/ EnqueueCap(c)
      PROVE  CountKept(p, t)
  <2>1. /\ UNCHANGED <<jobs, queue, task>> /\ caller[c].pc # "put"
        /\ \A d \in Callers : d # c => caller'[d] = caller[d]
    BY <1>1, Thinks
  <2>2. caller'[c].pc # "put"
    <3>1. \A pc : [caller[c] EXCEPT !.pc = pc].pc = pc
      BY DEF TypeOK, Caller
    <3> QED
      BY <1>1, <3>1, Thinks
  <2>3. Putting(p, t)' = Putting(p, t)
    BY <2>1, <2>2 DEF Putting
  <2> QED
    BY <2>1, <2>3, CountStays DEF Started
<1>2. ASSUME NEW c \in Callers, RetryPut(c)
      PROVE  CountKept(p, t)
  <2>1. /\ caller[c].pc = "retry_put" /\ UNCHANGED <<jobs, task>>
        /\ queue' = Append(queue, caller[c].id) /\ caller[c].id \in JobIds
        /\ \A d \in Callers : caller'[d] = IF d = c THEN NoCaller ELSE caller[d]
        /\ NoCaller.pc = "idle"
    BY <1>2, OneEntry DEF RetryPut, TypeOK, Caller, NoCaller
  <2>2. caller[c].id \notin Rows(p, t)
    BY <2>1 DEF Marked, Rows, Plain
  <2>3. Putting(p, t)' = Putting(p, t)
    BY <2>1 DEF Putting
  <2>4. PICK j \in JobIds : j = caller[c].id
    BY <2>1
  <2> QED
    BY <2>1, <2>2, <2>3, <2>4, CountOther
<1>3. ASSUME NEW s \in Slots, AcquireLock(s) \/ Translate(s)
      PROVE  CountKept(p, t)
  <2>1. Putting(p, t)' = Putting(p, t)
    BY <1>3, Works DEF Putting
  <2> QED
    BY <1>3, <2>1, Works, CountStays DEF Started
<1>4. ASSUME Serve \/ UNCHANGED vars
      PROVE  CountKept(p, t)
  BY <1>4, CountStays DEF Serve, vars, Started, Putting
<1>5. ASSUME NEW c \in Callers, CallerBegins(c) \/ CallerStep(c)
      PROVE  CountKept(p, t)
  BY <1>1, <1>2, <1>5, CountInsert, CountPut, CountReset DEF CallerStep
<1>6. ASSUME NEW s \in Slots, Dispatch(s) \/ AcquireLock(s) \/ TaskStep(s)
      PROVE  CountKept(p, t)
  BY <1>3, <1>6, CountDispatch, CountStart, CountEnd DEF TaskStep
<1>7. ASSUME Startup
      PROVE  CountKept(p, t) \/ (Counted(p, t)' /\ ReconcileJobs)
  BY <1>4, <1>7, CountReconcile, CountAdopt DEF Startup
<1> QED
  BY <1>4, <1>5, <1>6, <1>7, CountCrash DEF Next, CountKept

\* A step that writes no row keeps the marks of the tasks and callers it moves.
LEMMA MarkedStays ==
  ASSUME TypeOK, Marked, jobs' = jobs,
         \A s \in Slots : Started(s)' => Started(s) /\ task'[s].id = task[s].id,
         \A c \in Callers : \/ caller'[c] = caller[c]
                            \/ caller'[c].pc \notin {"retry_reset", "retry_put"}
                            \/ /\ caller'[c].pc = "retry_reset"
                               /\ jobs[caller'[c].id].status \in Terminal
  PROVE  Marked'
<1>1. \A st \in Terminal : st # "queued"
  BY DEF Terminal
<1> QED
  BY <1>1 DEF Marked

\* Nor does one that takes a row out of the queued ones.
LEMMA MarkedLeaves ==
  ASSUME TypeOK, Marked, NEW j \in JobIds, caller' = caller,
         \A k \in JobIds : k # j => jobs'[k] = jobs[k],
         jobs'[j].status # "queued", jobs'[j].trigger = jobs[j].trigger,
         \A s \in Slots : /\ task[s].pc # "idle" => task[s].id \in JobIds
                          /\ Started(s)' => /\ task'[s].id = task[s].id
                                            /\ task[s].pc # "idle"
                                            /\ task[s].id # j => Started(s)
  PROVE  Marked'
<1>1. \A s \in Slots : Started(s)' /\ jobs'[task'[s].id].trigger \in Plain =>
                         jobs'[task'[s].id].status # "queued"
  BY DEF Marked
<1>2. \A c \in Callers : caller[c].pc \in {"retry_reset", "retry_put"} =>
                           caller[c].id \in JobIds
  BY DEF TypeOK, Caller
<1> QED
  BY <1>1, <1>2 DEF Marked

\* An inserted row is in no task and is not being retried.
LEMMA MarkedInsert ==
  ASSUME TypeOK, IdsInserted, Marked, NEW c \in Callers, EnqueueInsert(c)
  PROVE  Marked'
<1>1. /\ caller[c].pc = "insert" /\ nextId \in JobIds /\ caller[c] \in Caller
      /\ \A k \in JobIds : k # nextId => jobs'[k] = jobs[k]
      /\ \A d \in Callers : d # c => caller'[d] = caller[d]
      /\ caller'[c] = [caller[c] EXCEPT !.pc = "put"]
      /\ task' = task
  BY OneEntry DEF EnqueueInsert, TypeOK
<1>2. caller'[c].pc = "put"
  BY <1>1 DEF Caller
<1>3. \A s \in Slots : Started(s) => task[s].id \in JobIds /\ task[s].id # nextId
  BY <1>1, JobQueueAssumption
     DEF Started, IdsInserted, TypeOK, Task, JobIds, JobQueueAssumption
<1>4. \A d \in Callers : caller[d].pc \in {"retry_reset", "retry_put"} =>
                           caller[d].id \in JobIds /\ caller[d].id # nextId
  BY <1>1, JobQueueAssumption DEF IdsInserted, TypeOK, Caller, JobIds, JobQueueAssumption
<1>5. \A s \in Slots : Started(s)' /\ jobs'[task'[s].id].trigger \in Plain =>
                         jobs'[task'[s].id].status # "queued"
  <2>1. \A s \in Slots : Started(s) => jobs'[task'[s].id] = jobs[task[s].id]
    BY <1>1, <1>3
  <2> QED
    BY <1>1, <2>1 DEF Marked, Started
<1>6. ASSUME NEW d \in Callers
      PROVE  /\ caller'[d].pc = "retry_reset" =>
                  jobs'[caller'[d].id].status # "queued"
                  \/ jobs'[caller'[d].id].trigger = "manual-retry"
             /\ caller'[d].pc = "retry_put" => jobs'[caller'[d].id].trigger = "manual-retry"
  <2>1. CASE d = c
    BY <1>2, <2>1
  <2>2. CASE d # c
    <3>1. caller[d].pc \in {"retry_reset", "retry_put"} =>
            jobs'[caller[d].id] = jobs[caller[d].id]
      BY <1>1, <1>4
    <3> QED
      BY <1>1, <2>2, <3>1 DEF Marked
  <2> QED
    BY <2>1, <2>2
<1> QED
  BY <1>5, <1>6 DEF Marked

\* Nor is a row that retry_job queues again one of an automatic trigger.
LEMMA MarkedReset ==
  ASSUME TypeOK, Marked, NEW c \in Callers, RetryReset(c)
  PROVE  Marked'
<1> DEFINE i == caller[c].id
<1>1. /\ caller[c].pc = "retry_reset" /\ i \in JobIds /\ caller[c] \in Caller
      /\ jobs[i] \in JobRow /\ task' = task
      /\ \A k \in JobIds : jobs'[k] =
           IF k = i THEN [jobs[i] EXCEPT !.status = "queued", !.attempts = 0,
                                         !.trigger = "manual-retry"] ELSE jobs[k]
      /\ \A d \in Callers : d # c => caller'[d] = caller[d]
      /\ caller'[c] = [caller[c] EXCEPT !.pc = "retry_put"]
  BY OneEntry DEF RetryReset, TypeOK, Caller
<1>2. caller'[c].pc = "retry_put" /\ caller'[c].id = i
  BY <1>1 DEF Caller
<1>3. jobs'[i].trigger = "manual-retry" /\ "manual-retry" \notin Plain
  BY <1>1 DEF JobRow, Plain
<1> HIDE DEF i
<1>4. \A s \in Slots : Started(s) => task[s].id \in JobIds
  BY DEF Started, TypeOK, Task
<1>5. \A d \in Callers : caller[d].pc \in {"retry_reset", "retry_put"} =>
                           caller[d].id \in JobIds
  BY DEF TypeOK, Caller
<1>6. \A k \in JobIds : k # i => jobs'[k] = jobs[k]
  BY <1>1
<1>7. \A s \in Slots : Started(s)' /\ jobs'[task'[s].id].trigger \in Plain =>
                         jobs'[task'[s].id].status # "queued"
  BY <1>1, <1>3, <1>4, <1>6 DEF Marked, Started
<1>8. ASSUME NEW d \in Callers
      PROVE  /\ caller'[d].pc = "retry_reset" =>
                  jobs'[caller'[d].id].status # "queued"
                  \/ jobs'[caller'[d].id].trigger = "manual-retry"
             /\ caller'[d].pc = "retry_put" => jobs'[caller'[d].id].trigger = "manual-retry"
  <2>1. CASE d = c
    BY <1>2, <1>3, <2>1
  <2>2. CASE d # c
    <3>1. caller[d].pc \in {"retry_reset", "retry_put"} =>
            \/ jobs'[caller[d].id] = jobs[caller[d].id]
            \/ jobs'[caller[d].id].trigger = "manual-retry"
      BY <1>3, <1>5, <1>6
    <3> QED
      BY <1>1, <2>2, <3>1 DEF Marked
  <2> QED
    BY <2>1, <2>2
<1> QED
  BY <1>7, <1>8 DEF Marked

\* Every step keeps the marks.
LEMMA MarkedStep ==
  ASSUME TypeOK, IdsInserted, Quiet, Marked, [Next]_vars
  PROVE  Marked'
<1>1. ASSUME NEW c \in Callers,
             CallerBegins(c) \/ SweepItem(c) \/ EnqueueDedup(c) \/ EnqueueCap(c)
      PROVE  Marked'
  <2>1. \A pc : [caller[c] EXCEPT !.pc = pc].pc = pc
    BY DEF TypeOK, Caller
  <2>2. \/ caller'[c].pc \in {"idle", "sweep", "dedup", "cap", "insert"}
        \/ /\ caller'[c].pc = "retry_reset"
           /\ jobs[caller'[c].id].status \in Terminal
    <3>1. CASE \/ /\ caller[c].pc = "dedup"
                  /\ caller'[c] = [caller[c] EXCEPT
                                     !.pc = IF caller[c].trigger \in AutoTriggers
                                            THEN "cap" ELSE "insert"]
               \/ /\ caller[c].pc = "cap"
                  /\ caller'[c] = [caller[c] EXCEPT !.pc = "insert"]
      BY <2>1, <3>1
    <3> QED
      BY <1>1, <3>1, Thinks
  <2> QED
    BY <1>1, <2>2, Thinks, MarkedStays DEF Started
<1>2. ASSUME NEW c \in Callers, EnqueuePut(c) \/ RetryPut(c)
      PROVE  Marked'
  <2>1. Returned(c).pc \in {"idle", "sweep"} /\ NoCaller.pc = "idle"
    BY ReturnedType DEF NoCaller
  <2>2. /\ UNCHANGED <<jobs, task>> /\ caller'[c].pc \in {"idle", "sweep"}
        /\ \A d \in Callers : d # c => caller'[d] = caller[d]
    BY <1>2, <2>1, OneEntry DEF EnqueuePut, RetryPut
  <2> QED
    BY <2>2, MarkedStays DEF Started
<1>3. ASSUME NEW s \in Slots, AcquireLock(s) \/ Translate(s)
      PROVE  Marked'
  BY <1>3, Works, MarkedStays DEF Started
<1>4. ASSUME NEW s \in Slots, Dispatch(s)
      PROVE  Marked'
  <2>1. /\ UNCHANGED <<jobs, caller>>
        /\ task'[s] = [NoTask EXCEPT !.pc = "start", !.id = Head(queue)]
        /\ \A u \in Slots : u # s => task'[u] = task[u]
    BY <1>4, OneEntry DEF Dispatch
  <2>2. task'[s].pc = "start"
    BY <2>1 DEF NoTask
  <2> QED
    BY <2>1, <2>2, MarkedStays DEF Started
<1>5. ASSUME NEW s \in Slots, JobStart(s) \/ JobCommit(s) \/ JobUnhandledError(s)
      PROVE  Marked'
  <2>1. \A u \in Slots : task[u].pc # "idle" => task[u].id \in JobIds
    BY DEF TypeOK, Task
  <2>2. /\ task[s].pc \in {"start", "commit"} /\ task[s] \in Task /\ caller' = caller
        /\ \A r \in Outcomes : FinalStatus(r) # "queued"
    BY <1>5 DEF JobStart, JobCommit, JobUnhandledError, TypeOK, FinalStatus, Outcomes
  <2>3. PICK j \in JobIds : j = task[s].id
    BY <2>1, <2>2
  <2>4. jobs[j] \in JobRow
    BY DEF TypeOK
  <2>5. CASE JobStart(s)
    <3>1. /\ jobs'[j] = [jobs[j] EXCEPT !.status = "running", !.attempts = @ + 1]
          /\ \A k \in JobIds : k # j => jobs'[k] = jobs[k]
          /\ task'[s] = [task[s] EXCEPT !.pc = "lock"]
          /\ \A u \in Slots : u # s => task'[u] = task[u]
      BY <2>3, <2>5, OneEntry DEF JobStart
    <3>2. task'[s].id = j /\ jobs'[j].status = "running" /\ jobs'[j].trigger = jobs[j].trigger
      BY <2>2, <2>3, <2>4, <3>1 DEF Task, JobRow
    <3>3. \A u \in Slots : Started(u)' => /\ task'[u].id = task[u].id
                                          /\ task[u].pc # "idle"
                                          /\ task[u].id # j => Started(u)
      BY <2>2, <2>3, <3>1, <3>2 DEF Started
    <3> QED
      BY <2>1, <2>2, <3>1, <3>2, <3>3, MarkedLeaves
  <2>6. CASE JobCommit(s) \/ JobUnhandledError(s)
    <3>1. PICK st : st # "queued" /\ JobBecomes(j, [jobs[j] EXCEPT !.status = st])
                    /\ TaskBecomes(s, NoTask)
      BY <2>2, <2>3, <2>6 DEF JobCommit, JobUnhandledError, Task
    <3>2. /\ jobs'[j] = [jobs[j] EXCEPT !.status = st]
          /\ \A k \in JobIds : k # j => jobs'[k] = jobs[k]
          /\ task'[s].pc = "idle" /\ \A u \in Slots : u # s => task'[u] = task[u]
      BY <3>1, OneEntry DEF NoTask
    <3>3. jobs'[j].status = st /\ jobs'[j].trigger = jobs[j].trigger
      BY <2>4, <3>2 DEF JobRow
    <3>4. \A u \in Slots : Started(u)' => /\ task'[u].id = task[u].id
                                          /\ task[u].pc # "idle"
                                          /\ task[u].id # j => Started(u)
      BY <3>2 DEF Started
    <3> QED
      BY <2>1, <2>2, <3>1, <3>2, <3>3, <3>4, MarkedLeaves
  <2> QED
    BY <1>5, <2>5, <2>6
<1>6. CASE Crash
  BY <1>6 DEF Crash, NoTask, NoCaller, Marked, Started
<1>7. ASSUME ReconcileJobs \/ \E p \in Paths : ReconcileLedger(p)
      PROVE  Marked'
  <2>1. /\ UNCHANGED <<task, caller>>
        /\ \A s \in Slots : task[s].pc = "idle"
        /\ \A c \in Callers : caller[c].pc = "idle"
    BY <1>7 DEF ReconcileJobs, ReconcileLedger, Quiet
  <2> QED
    BY <2>1 DEF Marked, Started
<1>8. CASE Serve \/ UNCHANGED vars
  BY <1>8 DEF Serve, vars, Marked, Started
<1> QED
  BY <1>1, <1>2, <1>3, <1>4, <1>5, <1>6, <1>7, <1>8, MarkedInsert, MarkedReset
     DEF Next, CallerStep, TaskStep, Startup

-----------------------------------------------------------------------------
(* The bounds. *)

\* The budget is the larger cap.
LEMMA BudgetIsMax ==
  Budget \in Nat /\ Budget >= JobMaxAutoAttempts /\ Budget >= JobAutoRetryMax
<1> DEFINE caps == {JobMaxAutoAttempts, JobAutoRetryMax}
<1>1. \E x \in caps : \A y \in caps : x >= y
  BY JobQueueAssumption DEF JobQueueAssumption
<1>2. Budget \in caps /\ \A y \in caps : Budget >= y
  BY <1>1 DEF Budget, Max
<1> QED
  BY <1>2, JobQueueAssumption DEF JobQueueAssumption

\* The numbers that Bounded compares.
LEMMA Bounds ==
  ASSUME NEW p
  PROVE  /\ IsFiniteSet(Live(p)) /\ Cardinality(Live(p)) \in Nat
         /\ IsFiniteSet(Spent(p)) /\ Cardinality(Spent(p)) \in Nat
         /\ IsFiniteSet(Passed(p)) /\ Cardinality(Passed(p)) \in Nat
         /\ IsFiniteSet(Inserting(p)) /\ Cardinality(Inserting(p)) \in Nat
         /\ IsFiniteSet(Callers) /\ Cardinality(Callers) \in Nat \ {0}
<1>1. /\ Live(p) \subseteq JobIds /\ Spent(p) \subseteq JobIds
      /\ Passed(p) \subseteq Callers /\ Inserting(p) \subseteq Callers
  BY DEF Live, Spent, Passed, Inserting
<1>2. Cardinality(Callers) \in Nat \ {0}
  BY ProcessAssumption, FS_CardinalityType, FS_EmptySet DEF ProcessAssumption
<1> QED
  BY <1>1, <1>2, SmallSets

\* A step that adds nothing to what is counted.
LEMMA BoundedShrinks ==
  ASSUME NEW p, Bounded(p),
         Live(p)' \subseteq Live(p), Spent(p)' \subseteq Spent(p),
         Passed(p)' \subseteq Passed(p), Inserting(p)' \subseteq Inserting(p)
  PROVE  Bounded(p)'
<1>1. /\ Cardinality(Live(p)') <= Cardinality(Live(p)) /\ Cardinality(Live(p)') \in Nat
      /\ Cardinality(Spent(p)') <= Cardinality(Spent(p)) /\ Cardinality(Spent(p)') \in Nat
      /\ Cardinality(Passed(p)') <= Cardinality(Passed(p)) /\ Cardinality(Passed(p)') \in Nat
      /\ Cardinality(Inserting(p)') <= Cardinality(Inserting(p))
      /\ Cardinality(Inserting(p)') \in Nat
  BY Bounds, Fewer
<1> QED
  BY <1>1, Bounds, BudgetIsMax DEF Bounded, Budget

\* Rows do not add to it as long as none comes to life.
LEMMA RowsShrink ==
  ASSUME NEW p,
         \A k \in JobIds : AutoRow(p, k)' =>
           /\ AutoRow(p, k)
           /\ jobs'[k].status \in Active \/ Held(k)' => jobs[k].status \in Active \/ Held(k)
           /\ jobs'[k].status \in Terminal =>
                jobs[k].status \in Active \union Terminal \/ Held(k)
  PROVE  Live(p)' \subseteq Live(p) /\ Spent(p)' \subseteq Spent(p)
<1>1. Live(p)' \subseteq Live(p)
  BY DEF Live
<1>2. Spent(p)' \subseteq Spent(p)
  BY <1>1 DEF Spent, Live
<1> QED
  BY <1>1, <1>2

\* When the deduplication passes, no row of the path is left in the queue or in
\* a task: a row of a finished status that still had its id there would need a
\* queued row to make up for it.  And nothing is lost.
LEMMA NoneHeld ==
  ASSUME TypeOK, NEW p \in Paths, \A t \in Plain : Counted(p, t), ~ IsDuplicate(p)
  PROVE  /\ \A t \in Plain : Matched(p, t)
         /\ \A j \in JobIds : jobs[j].path = p /\ jobs[j].trigger \in Plain => ~ Held(j)
<1>1. ASSUME NEW t \in Plain
      PROVE  /\ Pending(p, t) = 0 /\ Cardinality(Waiting(p, t)) = 0 /\ ~ Clash(p, t)
             /\ Entries(p, t) = {} /\ Starting(p, t) = {}
             /\ \A j \in Rows(p, t) : jobs[j].status \notin Active
  <2>1. \A j \in Rows(p, t) : jobs[j].status \notin Active
    BY DEF IsDuplicate, RowsOf, Rows
  <2>2. Waiting(p, t) = {}
    BY <2>1 DEF Waiting, Active
  <2>3. Pending(p, t) = 0 /\ ~ Clash(p, t)
    BY <1>1, <2>2, Numbers, FS_EmptySet DEF Counted, Pending
  <2>4. Entries(p, t) = {} /\ Starting(p, t) = {}
    BY <2>3, Numbers, FS_EmptySet DEF Pending
  <2> QED
    BY <2>1, <2>2, <2>3, <2>4, FS_EmptySet
<1>2. ASSUME NEW j \in JobIds, jobs[j].path = p, jobs[j].trigger \in Plain, Held(j)
      PROVE  FALSE
  <2>1. PICK t \in Plain : t = jobs[j].trigger
    BY <1>2
  <2>2. j \in Rows(p, t)
    BY <1>2, <2>1 DEF Rows
  <2>3. ~ InQueue(j)
    BY <1>1, <2>2 DEF InQueue, Entries
  <2>4. PICK s \in Slots : task[s].pc # "idle" /\ task[s].id = j
    BY <1>2, <2>3 DEF Held
  <2>5. Started(s)
    BY <1>1, <2>2, <2>4 DEF Starting, Started
  <2> QED
    BY <1>1, <2>2, <2>4, <2>5 DEF Clash, Active
<1> QED
  BY <1>1, <1>2 DEF Matched

\* A path without an unfinished row has no live row of an automatic trigger.
LEMMA LiveEmpty ==
  ASSUME TypeOK, NEW p \in Paths, \A t \in Plain : Counted(p, t), ~ IsDuplicate(p)
  PROVE  Live(p) = {}
BY NoneHeld DEF Live, AutoRow, AutoTriggers, Plain, Triggers, IsDuplicate, RowsOf

\* What the callers do before they write.
LEMMA BoundedThinks ==
  ASSUME TypeOK, NEW p \in Paths, \A t \in Plain : Counted(p, t), Bounded(p),
         NEW c \in Callers,
         CallerBegins(c) \/ SweepItem(c) \/ EnqueueDedup(c) \/ EnqueueCap(c)
  PROVE  Bounded(p)'
<1>1. /\ UNCHANGED <<jobs, queue, task>> /\ caller[c] \in Caller
      /\ \A d \in Callers : d # c => caller'[d] = caller[d]
  BY Thinks DEF TypeOK
<1>2. Live(p)' = Live(p) /\ Spent(p)' = Spent(p)
  BY <1>1 DEF Live, Spent, AutoRow, Held, InQueue
<1>3. CASE caller'[c].pc \notin {"cap", "insert"}
  <2>1. Passed(p)' \subseteq Passed(p) /\ Inserting(p)' \subseteq Inserting(p)
    BY <1>1, <1>3 DEF Passed, Inserting
  <2> QED
    BY <1>2, <2>1, BoundedShrinks
<1>4. CASE /\ caller[c].pc = "dedup" /\ ~ IsDuplicate(caller[c].path)
           /\ caller'[c] = [caller[c] EXCEPT !.pc = IF caller[c].trigger \in AutoTriggers
                                                    THEN "cap" ELSE "insert"]
  <2>1. /\ caller'[c].path = caller[c].path /\ caller'[c].trigger = caller[c].trigger
        /\ caller[c].trigger \in AutoTriggers => caller'[c].pc = "cap"
    BY <1>1, <1>4 DEF Caller
  <2>2. Inserting(p)' \subseteq Inserting(p)
    BY <1>1, <2>1 DEF Passed, Inserting
  <2>3. CASE c \notin Passed(p)'
    <3>1. Passed(p)' \subseteq Passed(p)
      BY <1>1, <2>3 DEF Passed
    <3> QED
      BY <1>2, <2>2, <3>1, BoundedShrinks
  <2>4. CASE c \in Passed(p)'
    <3>1. Live(p) = {}
      <4>1. caller'[c].path = p
        BY <2>4 DEF Passed
      <4>2. ~ IsDuplicate(p)
        BY <1>4, <2>1, <4>1
      <4> QED
        BY <4>2, LiveEmpty
    <3>2. Passed(p)' \subseteq Callers
      BY DEF Passed
    <3>3. /\ Cardinality(Passed(p)') <= Cardinality(Callers)
          /\ Cardinality(Passed(p)') \in Nat
          /\ Cardinality(Inserting(p)') <= Cardinality(Inserting(p))
          /\ Cardinality(Inserting(p)') \in Nat
      BY <2>2, <3>2, Bounds, Fewer
    <3> QED
      BY <1>2, <3>1, <3>3, Bounds, BudgetIsMax, FS_EmptySet DEF Bounded, Budget
  <2> QED
    BY <2>3, <2>4
<1>5. CASE /\ caller[c].pc = "cap" /\ ~ CapReached(caller[c].path, caller[c].trigger)
           /\ caller'[c] = [caller[c] EXCEPT !.pc = "insert"]
  <2>1. /\ caller'[c].path = caller[c].path /\ caller'[c].trigger = caller[c].trigger
        /\ caller'[c].pc = "insert"
    BY <1>1, <1>5 DEF Caller
  <2>2. Passed(p)' = Passed(p)
    <3>1. \A d \in Callers : /\ caller'[d].pc \in {"cap", "insert"}
                                <=> caller[d].pc \in {"cap", "insert"}
                             /\ caller'[d].path = caller[d].path
                             /\ caller'[d].trigger = caller[d].trigger
      BY <1>1, <1>5, <2>1
    <3> QED
      BY <3>1 DEF Passed
  <2>3. CASE c \notin Inserting(p)'
    <3>1. Inserting(p)' \subseteq Inserting(p)
      BY <1>1, <2>2, <2>3 DEF Inserting, Passed
    <3> QED
      BY <1>2, <2>2, <3>1, BoundedShrinks
  <2>4. CASE c \in Inserting(p)'
    <3>1. caller[c].path = p
      BY <2>1, <2>4 DEF Inserting, Passed
    <3>2. RowsOf(p, Terminal) \subseteq JobIds
      BY DEF RowsOf
    <3>3. IsFiniteSet(RowsOf(p, Terminal)) /\ Cardinality(RowsOf(p, Terminal)) \in Nat
      BY <3>2, SmallSets
    <3>4. Cardinality(RowsOf(p, Terminal)) < Budget
      BY <1>5, <3>1, <3>3, BudgetIsMax, JobQueueAssumption
         DEF CapReached, AutoCap, JobQueueAssumption
    <3>5. Spent(p) \subseteq RowsOf(p, Terminal) \union Live(p)
      BY DEF Spent, RowsOf, AutoRow
    <3>6. Cardinality(Spent(p)) <= Cardinality(RowsOf(p, Terminal)) + Cardinality(Live(p))
      <4>1. /\ IsFiniteSet(RowsOf(p, Terminal) \union Live(p))
            /\ Cardinality(RowsOf(p, Terminal) \union Live(p))
                 = Cardinality(RowsOf(p, Terminal)) + Cardinality(Live(p))
                   - Cardinality(RowsOf(p, Terminal) \intersect Live(p))
        BY <3>3, Bounds, FS_Union
      <4>2. Cardinality(RowsOf(p, Terminal) \intersect Live(p)) \in Nat
        BY Bounds, Fewer
      <4>3. Cardinality(Spent(p)) <= Cardinality(RowsOf(p, Terminal) \union Live(p))
        BY <3>5, <4>1, Fewer
      <4> QED
        BY <3>3, <4>1, <4>2, <4>3, Bounds
    <3>7. Inserting(p)' \subseteq Passed(p)
      BY <2>2 DEF Inserting
    <3>8. /\ Cardinality(Inserting(p)') <= Cardinality(Passed(p))
          /\ Cardinality(Inserting(p)') \in Nat
      BY <3>7, Bounds, Fewer
    <3> QED
      BY <1>2, <2>2, <3>3, <3>4, <3>6, <3>8, Bounds, BudgetIsMax DEF Bounded, Budget
  <2> QED
    BY <2>3, <2>4
<1> QED
  BY <1>3, <1>4, <1>5, Thinks

\* The row an automatic caller inserts takes the caller's place in both sums.
LEMMA BoundedInsert ==
  ASSUME TypeOK, IdsInserted, NEW p \in Paths, Bounded(p), NEW c \in Callers, EnqueueInsert(c)
  PROVE  Bounded(p)'
<1> DEFINE new == NewJob(caller[c].path, caller[c].key, caller[c].trigger)
           mine == caller[c].path = p /\ caller[c].trigger \in AutoTriggers
<1>1. /\ caller[c].pc = "insert" /\ nextId \in JobIds /\ caller[c] \in Caller
      /\ \A k \in JobIds : jobs'[k] = IF k = nextId THEN new ELSE jobs[k]
      /\ \A d \in Callers : caller'[d] = IF d = c THEN [caller[c] EXCEPT !.pc = "put"]
                                         ELSE caller[d]
      /\ UNCHANGED <<queue, task>>
  BY OneEntry DEF EnqueueInsert, TypeOK
<1>2. /\ new.path = caller[c].path /\ new.status = "queued"
      /\ new.trigger = caller[c].trigger
  BY DEF NewJob
<1>3. caller'[c].pc = "put"
  BY <1>1 DEF Caller
<1> HIDE DEF new
<1>4. \A k \in JobIds : Held(k)' <=> Held(k)
  BY <1>1 DEF Held, InQueue
<1>5. Passed(p)' = Passed(p) \ {c} /\ Inserting(p)' = Inserting(p) \ {c}
  BY <1>1, <1>3 DEF Passed, Inserting
<1>6. CASE ~ mine
  <2>1. \A k \in JobIds : AutoRow(p, k)' => AutoRow(p, k) /\ jobs'[k] = jobs[k]
    BY <1>1, <1>2, <1>6 DEF AutoRow
  <2>2. Live(p)' \subseteq Live(p) /\ Spent(p)' \subseteq Spent(p)
    BY <1>4, <2>1, RowsShrink
  <2> QED
    BY <1>5, <2>2, BoundedShrinks
<1>7. CASE mine
  <2>1. c \in Passed(p) /\ c \in Inserting(p)
    BY <1>1, <1>7 DEF Passed, Inserting
  <2>2. \A k \in JobIds : k # nextId => jobs'[k] = jobs[k]
    BY <1>1
  <2>3. Live(p)' \subseteq Live(p) \union {nextId}
    BY <1>4, <2>2 DEF Live, AutoRow
  <2>4. Spent(p)' \subseteq Spent(p) \union {nextId}
    BY <2>2, <2>3 DEF Spent, AutoRow, Live
  <2>5. /\ Cardinality(Passed(p)') = Cardinality(Passed(p)) - 1
        /\ Cardinality(Inserting(p)') = Cardinality(Inserting(p)) - 1
    BY <1>5, <2>1, Bounds, OneMore
  <2>6. /\ IsFiniteSet(Live(p) \union {nextId})
        /\ Cardinality(Live(p) \union {nextId}) <= Cardinality(Live(p)) + 1
        /\ IsFiniteSet(Spent(p) \union {nextId})
        /\ Cardinality(Spent(p) \union {nextId}) <= Cardinality(Spent(p)) + 1
    BY Bounds, OneMore
  <2>7. /\ Cardinality(Live(p)') <= Cardinality(Live(p)) + 1
        /\ Cardinality(Spent(p)') <= Cardinality(Spent(p)) + 1
        /\ Cardinality(Live(p)') \in Nat /\ Cardinality(Spent(p)') \in Nat
    <3>1. /\ Cardinality(Live(p)') <= Cardinality(Live(p) \union {nextId})
          /\ Cardinality(Live(p)') \in Nat /\ Cardinality(Live(p) \union {nextId}) \in Nat
      BY <2>3, <2>6, Fewer
    <3>2. /\ Cardinality(Spent(p)') <= Cardinality(Spent(p) \union {nextId})
          /\ Cardinality(Spent(p)') \in Nat /\ Cardinality(Spent(p) \union {nextId}) \in Nat
      BY <2>4, <2>6, Fewer
    <3> QED
      BY <2>6, <3>1, <3>2, Bounds
  <2> QED
    BY <2>5, <2>7, Bounds, BudgetIsMax DEF Bounded, Budget
<1> QED
  BY <1>6, <1>7

\* The other callers write no automatic row, and put no id of a finished one.
LEMMA BoundedCallers ==
  ASSUME TypeOK, Marked, NEW p \in Paths, Bounded(p), NEW c \in Callers,
         EnqueuePut(c) \/ RetryReset(c) \/ RetryPut(c)
  PROVE  Bounded(p)'
<1>1. /\ Returned(c).pc \in {"idle", "sweep"} /\ NoCaller.pc = "idle"
      /\ caller[c] \in Caller
      /\ caller[c].pc \in {"retry_reset", "retry_put"} => caller[c].id \in JobIds
  BY ReturnedType DEF TypeOK, Caller, NoCaller
<1>2. /\ caller[c].pc \notin {"cap", "insert"} /\ task' = task
      /\ \A d \in Callers : d # c => caller'[d] = caller[d]
  BY <1>1, OneEntry DEF EnqueuePut, RetryReset, RetryPut
<1>3. caller'[c].pc \notin {"cap", "insert"}
  <2>1. CASE EnqueuePut(c)
    BY <1>1, <2>1, OneEntry DEF EnqueuePut
  <2>2. CASE RetryReset(c)
    <3>1. caller'[c] = [caller[c] EXCEPT !.pc = "retry_put"]
      BY <2>2, OneEntry DEF RetryReset
    <3> QED
      BY <1>1, <3>1 DEF Caller
  <2>3. CASE RetryPut(c)
    BY <1>1, <2>3, OneEntry DEF RetryPut
  <2> QED
    BY <2>1, <2>2, <2>3
<1>4. Passed(p)' = Passed(p) /\ Inserting(p)' = Inserting(p)
  BY <1>2, <1>3 DEF Passed, Inserting
<1>5. ASSUME NEW j \in JobIds, jobs' = jobs, queue' = Append(queue, j),
             jobs[j].status = "queued" \/ jobs[j].trigger \notin AutoTriggers
      PROVE  Live(p)' \subseteq Live(p) /\ Spent(p)' \subseteq Spent(p)
  <2>1. \A k \in JobIds : Held(k)' => Held(k) \/ k = j
    BY <1>2, <1>5 DEF Held, InQueue, TypeOK
  <2> QED
    BY <1>5, <2>1, RowsShrink DEF AutoRow, Active
<1>6. CASE EnqueuePut(c)
  <2>1. CASE queue' = queue
    BY <1>2, <1>4, <1>6, <2>1, BoundedShrinks
       DEF EnqueuePut, Live, Spent, AutoRow, Held, InQueue
  <2>2. ASSUME NEW j \in Found(c), queue' = Append(queue, j)
        PROVE  Bounded(p)'
    <3>1. j \in JobIds /\ jobs[j].status = "queued" /\ jobs' = jobs
      BY <1>6 DEF Found, RowsOf, EnqueuePut
    <3> QED
      BY <1>4, <1>5, <2>2, <3>1, BoundedShrinks
  <2> QED
    BY <1>6, <2>1, <2>2 DEF EnqueuePut
<1>7. CASE RetryReset(c)
  <2>1. PICK j \in JobIds : j = caller[c].id
    BY <1>1, <1>7 DEF RetryReset
  <2>2. /\ jobs'[j] = [jobs[j] EXCEPT !.status = "queued", !.attempts = 0,
                                      !.trigger = "manual-retry"]
        /\ \A k \in JobIds : k # j => jobs'[k] = jobs[k]
        /\ queue' = queue
    BY <1>7, <2>1, OneEntry DEF RetryReset
  <2>3. jobs'[j].trigger = "manual-retry" /\ "manual-retry" \notin AutoTriggers
    BY <2>2 DEF TypeOK, JobRow, AutoTriggers
  <2>4. \A k \in JobIds : Held(k)' <=> Held(k)
    BY <1>2, <2>2 DEF Held, InQueue
  <2>5. \A k \in JobIds : AutoRow(p, k)' => AutoRow(p, k) /\ jobs'[k] = jobs[k]
    BY <2>2, <2>3 DEF AutoRow
  <2> QED
    BY <1>4, <2>4, <2>5, RowsShrink, BoundedShrinks
<1>8. CASE RetryPut(c)
  <2>1. PICK j \in JobIds : j = caller[c].id
    BY <1>1, <1>8 DEF RetryPut
  <2>2. queue' = Append(queue, j) /\ jobs' = jobs /\ jobs[j].trigger \notin AutoTriggers
    BY <1>8, <2>1 DEF RetryPut, Marked, AutoTriggers
  <2> QED
    BY <1>4, <1>5, <2>2, BoundedShrinks
<1> QED
  BY <1>6, <1>7, <1>8

\* A task ends the life of its row, and adds to it only what was spent before.
LEMMA BoundedTasks ==
  ASSUME TypeOK, NEW p \in Paths, Bounded(p), NEW s \in Slots,
         Dispatch(s) \/ AcquireLock(s) \/ TaskStep(s)
  PROVE  Bounded(p)'
<1>1. task[s] \in Task /\ \A u \in Slots : task[u].pc # "idle" => task[u].id \in JobIds
  BY DEF TypeOK, Task
<1>2. ASSUME \A k \in JobIds : Held(k)' => Held(k), UNCHANGED <<jobs, caller>>
      PROVE  Bounded(p)'
  <2>1. Passed(p)' = Passed(p) /\ Inserting(p)' = Inserting(p)
    BY <1>2 DEF Passed, Inserting
  <2>2. Live(p)' \subseteq Live(p) /\ Spent(p)' \subseteq Spent(p)
    BY <1>2, RowsShrink DEF AutoRow
  <2> QED
    BY <2>1, <2>2, BoundedShrinks
<1>3. CASE Dispatch(s)
  <2>1. /\ queue # <<>> /\ queue' = Tail(queue) /\ UNCHANGED <<jobs, caller>>
        /\ task'[s] = [NoTask EXCEPT !.pc = "start", !.id = Head(queue)]
        /\ \A u \in Slots : u # s => task'[u] = task[u]
    BY <1>3, OneEntry DEF Dispatch
  <2>2. task'[s].id = queue[1] /\ 1 \in 1..Len(queue)
    BY <2>1 DEF NoTask, TypeOK
  <2>3. \A i \in 1..Len(queue') : i + 1 \in 1..Len(queue) /\ queue'[i] = queue[i + 1]
    BY <2>1 DEF TypeOK
  <2>4. ASSUME NEW k \in JobIds, Held(k)'
        PROVE  Held(k)
    <3>1. CASE InQueue(k)'
      BY <2>3, <3>1 DEF InQueue, Held
    <3>2. CASE \E u \in Slots : task'[u].pc # "idle" /\ task'[u].id = k
      BY <2>1, <2>2, <3>2 DEF InQueue, Held
    <3> QED
      BY <2>4, <3>1, <3>2 DEF Held
  <2> QED
    BY <1>2, <2>1, <2>4
<1>4. CASE AcquireLock(s) \/ Translate(s)
  <2>1. /\ UNCHANGED <<jobs, queue, caller>> /\ task[s].pc # "idle"
        /\ \A u \in Slots : task'[u].id = task[u].id /\ (task'[u].pc # "idle" => task[u].pc # "idle")
    BY <1>4, Works
  <2>2. \A k \in JobIds : Held(k)' => Held(k)
    BY <2>1 DEF Held, InQueue
  <2> QED
    BY <1>2, <2>1, <2>2
<1>5. CASE JobStart(s) \/ JobCommit(s) \/ JobUnhandledError(s)
  <2>1. PICK j \in JobIds : task[s].pc # "idle" /\ j = task[s].id
    BY <1>1, <1>5 DEF JobStart, JobCommit, JobUnhandledError
  <2>2. jobs[j] \in JobRow /\ UNCHANGED <<queue, caller>> /\ Held(j)
    BY <1>5, <2>1 DEF TypeOK, JobStart, JobCommit, JobUnhandledError, Held
  <2>3. /\ jobs'[j].path = jobs[j].path /\ jobs'[j].trigger = jobs[j].trigger
        /\ \A k \in JobIds : k # j => jobs'[k] = jobs[k]
        /\ \A u \in Slots : task'[u].pc # "idle" => task[u].pc # "idle" /\ task'[u].id = task[u].id
    <3>1. CASE JobStart(s)
      <4>1. /\ jobs'[j] = [jobs[j] EXCEPT !.status = "running", !.attempts = @ + 1]
            /\ \A k \in JobIds : k # j => jobs'[k] = jobs[k]
            /\ task'[s] = [task[s] EXCEPT !.pc = "lock"]
            /\ \A u \in Slots : u # s => task'[u] = task[u]
        BY <2>1, <3>1, OneEntry DEF JobStart
      <4>2. task'[s].id = task[s].id
        BY <1>1, <4>1 DEF Task
      <4> QED
        BY <2>1, <2>2, <4>1, <4>2 DEF JobRow
    <3>2. CASE JobCommit(s) \/ JobUnhandledError(s)
      <4>1. PICK st : JobBecomes(j, [jobs[j] EXCEPT !.status = st]) /\ TaskBecomes(s, NoTask)
        BY <2>1, <3>2 DEF JobCommit, JobUnhandledError
      <4>2. /\ jobs'[j] = [jobs[j] EXCEPT !.status = st]
            /\ \A k \in JobIds : k # j => jobs'[k] = jobs[k]
            /\ task'[s].pc = "idle" /\ \A u \in Slots : u # s => task'[u] = task[u]
        BY <4>1, OneEntry DEF NoTask
      <4> QED
        BY <2>2, <4>2 DEF JobRow
    <3> QED
      BY <1>5, <3>1, <3>2
  <2>4. \A k \in JobIds : Held(k)' => Held(k)
    BY <2>2, <2>3 DEF Held, InQueue
  <2>5. \A k \in JobIds : AutoRow(p, k)' => AutoRow(p, k) /\ (k = j \/ jobs'[k] = jobs[k])
    BY <2>3 DEF AutoRow
  <2>6. Live(p)' \subseteq Live(p) /\ Spent(p)' \subseteq Spent(p)
    BY <2>2, <2>4, <2>5, RowsShrink
  <2>7. Passed(p)' = Passed(p) /\ Inserting(p)' = Inserting(p)
    BY <2>2 DEF Passed, Inserting
  <2> QED
    BY <2>6, <2>7, BoundedShrinks
<1> QED
  BY <1>3, <1>4, <1>5 DEF TaskStep

\* Nor does a stop or a start bring a row to life.
LEMMA BoundedProcess ==
  ASSUME TypeOK, NEW p \in Paths, Bounded(p), Crash \/ Startup \/ UNCHANGED vars
  PROVE  Bounded(p)'
<1>1. CASE Crash
  <2>1. /\ jobs' = jobs /\ queue' = <<>>
        /\ \A s \in Slots : task'[s].pc = "idle"
        /\ \A c \in Callers : caller'[c].pc = "idle"
    BY <1>1 DEF Crash, NoTask, NoCaller
  <2>2. Passed(p)' = {} /\ Inserting(p)' = {}
    BY <2>1 DEF Passed, Inserting
  <2>3. \A k \in JobIds : ~ Held(k)'
    BY <2>1 DEF Held, InQueue
  <2>4. Live(p)' \subseteq Live(p) /\ Spent(p)' \subseteq Spent(p)
    BY <2>1, <2>3, RowsShrink DEF AutoRow
  <2> QED
    BY <2>2, <2>4, BoundedShrinks
<1>2. CASE ReconcileJobs
  <2>1. /\ UNCHANGED <<task, caller>>
        /\ \A j \in JobIds : jobs'[j] = IF j \in Stale THEN [jobs[j] EXCEPT !.status = "queued"]
                                        ELSE jobs[j]
    BY <1>2 DEF ReconcileJobs
  <2>2. PICK ids \in [1..Cardinality(Stale) -> Stale] : queue' = ids
    BY <1>2 DEF ReconcileJobs
  <2>3. Stale \subseteq JobIds /\ \A j \in Stale : jobs[j].status \in Active
    BY DEF Stale
  <2>4. Len(ids) = Cardinality(Stale) /\ Cardinality(Stale) \in Nat
    BY <2>2, <2>3, QueueOfIds, JobIdsFinite
  <2>5. \A k \in JobIds : Held(k)' => Held(k) \/ k \in Stale
    BY <2>1, <2>2, <2>4 DEF Held, InQueue
  <2>6. \A k \in JobIds : jobs'[k].path = jobs[k].path /\ jobs'[k].trigger = jobs[k].trigger
    BY <2>1 DEF TypeOK, JobRow
  <2>7. \A k \in JobIds : k \in Stale \/ jobs'[k] = jobs[k]
    BY <2>1
  <2>8. Live(p)' \subseteq Live(p) /\ Spent(p)' \subseteq Spent(p)
    BY <2>3, <2>5, <2>6, <2>7, RowsShrink DEF AutoRow
  <2>9. Passed(p)' = Passed(p) /\ Inserting(p)' = Inserting(p)
    BY <2>1 DEF Passed, Inserting
  <2> QED
    BY <2>8, <2>9, BoundedShrinks
<1>3. ASSUME NEW q \in Paths, ReconcileLedger(q)
      PROVE  Bounded(p)'
  <2>1. /\ nextId \in JobIds /\ queue' = Append(queue, nextId) /\ UNCHANGED <<task, caller>>
        /\ jobs'[nextId] = NewJob(q, NoSeries, "startup-reconcile")
        /\ \A k \in JobIds : k # nextId => jobs'[k] = jobs[k]
    BY <1>3, OneEntry DEF ReconcileLedger
  <2>2. jobs'[nextId].trigger \notin AutoTriggers
    BY <2>1 DEF NewJob, AutoTriggers
  <2>3. \A k \in JobIds : Held(k)' => Held(k) \/ k = nextId
    BY <2>1 DEF Held, InQueue, TypeOK
  <2>4. \A k \in JobIds : AutoRow(p, k)' => k # nextId /\ AutoRow(p, k) /\ jobs'[k] = jobs[k]
    BY <2>1, <2>2 DEF AutoRow
  <2>5. Live(p)' \subseteq Live(p) /\ Spent(p)' \subseteq Spent(p)
    BY <2>3, <2>4, RowsShrink
  <2>6. Passed(p)' = Passed(p) /\ Inserting(p)' = Inserting(p)
    BY <2>1 DEF Passed, Inserting
  <2> QED
    BY <2>5, <2>6, BoundedShrinks
<1>4. CASE Serve \/ UNCHANGED vars
  <2>1. UNCHANGED <<jobs, queue, task, caller>>
    BY <1>4 DEF Serve, vars
  <2>2. /\ Live(p)' = Live(p) /\ Spent(p)' = Spent(p)
        /\ Passed(p)' = Passed(p) /\ Inserting(p)' = Inserting(p)
    BY <2>1 DEF Live, Spent, AutoRow, Held, InQueue, Passed, Inserting
  <2> QED
    BY <2>2, BoundedShrinks
<1> QED
  BY <1>1, <1>2, <1>3, <1>4 DEF Startup

-----------------------------------------------------------------------------
(* The theorem. *)

\* On the first start there is neither a row nor a caller.
LEMMA BudgetInit == Init => BudgetInv
<1> SUFFICES ASSUME Init
             PROVE  BudgetInv
  OBVIOUS
<1>1. /\ queue = <<>>
      /\ \A j \in JobIds : jobs[j].path = NoPath
      /\ \A s \in Slots : task[s].pc = "idle"
      /\ \A c \in Callers : caller[c].pc = "idle"
  BY DEF Init, NoJob, NoTask, NoCaller
<1>2. Marked
  BY <1>1 DEF Marked, Started
<1>3. ASSUME NEW p \in Paths, NEW t \in Plain
      PROVE  Counted(p, t)
  <2>1. Rows(p, t) = {} /\ Putting(p, t) = {} /\ ~ Clash(p, t)
    BY <1>1, JobQueueAssumption DEF Rows, Putting, Clash, Started, JobQueueAssumption
  <2>2. Entries(p, t) = {} /\ Starting(p, t) = {} /\ Waiting(p, t) = {}
    BY <2>1 DEF Entries, Starting, Waiting
  <2> QED
    BY <2>1, <2>2, FS_EmptySet DEF Counted, Pending
<1>4. ASSUME NEW p \in Paths
      PROVE  Bounded(p)
  <2>1. Live(p) = {} /\ Spent(p) = {} /\ Passed(p) = {} /\ Inserting(p) = {}
    BY <1>1, JobQueueAssumption
       DEF Live, Spent, AutoRow, Passed, Inserting, JobQueueAssumption
  <2> QED
    BY <2>1, Bounds, BudgetIsMax, FS_EmptySet DEF Bounded
<1> QED
  BY <1>2, <1>3, <1>4, QuietInit DEF BudgetInv

\* Every step keeps the invariant.
LEMMA BudgetStep == IInv /\ BudgetInv /\ [Next]_vars => BudgetInv'
<1> SUFFICES ASSUME IInv, BudgetInv, [Next]_vars
             PROVE  BudgetInv'
  OBVIOUS
<1>1. /\ TypeOK /\ IdsInserted /\ Quiet /\ Marked
      /\ \A p \in Paths, t \in Plain : Counted(p, t)
      /\ \A p \in Paths : Bounded(p)
  BY DEF IInv, BudgetInv
<1>2. Quiet' /\ Marked' /\ \A p \in Paths, t \in Plain : Counted(p, t)'
  BY <1>1, QuietStep, MarkedStep, CountStep
<1>3. ASSUME NEW p \in Paths
      PROVE  Bounded(p)'
  <2>1. ASSUME NEW c \in Callers, CallerBegins(c) \/ CallerStep(c)
        PROVE  Bounded(p)'
    BY <1>1, <2>1, BoundedThinks, BoundedInsert, BoundedCallers DEF CallerStep
  <2>2. ASSUME NEW s \in Slots, Dispatch(s) \/ AcquireLock(s) \/ TaskStep(s)
        PROVE  Bounded(p)'
    BY <1>1, <2>2, BoundedTasks
  <2> QED
    BY <1>1, <2>1, <2>2, BoundedProcess DEF Next
<1> QED
  BY <1>2, <1>3 DEF BudgetInv

\* The invariant holds in every reachable state.
THEOREM BudgetHolds == Spec => []BudgetInv
BY BudgetInit, BudgetStep, InvariantHolds, PTL DEF Spec

\* AutoBudget: however many sweeps, webhooks and auto-retry tasks are inside
\* enqueue_job at once, and whatever is retried by hand or lost in a crash, the
\* rows of automatic triggers that are not done stay under the cap plus one
\* row for each caller.
THEOREM AutoBudgetAlways == Spec => []AutoBudget
<1>1. BudgetInv => AutoBudget
  <2> SUFFICES ASSUME BudgetInv, NEW p \in Paths
               PROVE  Cardinality(AutoRows(p)) < Budget + Cardinality(Callers)
    BY DEF AutoBudget
  <2>1. AutoRows(p) \subseteq Spent(p)
    BY DEF AutoRows, RowsOf, Spent, Live, AutoRow
  <2>2. Cardinality(AutoRows(p)) <= Cardinality(Spent(p)) /\ Cardinality(AutoRows(p)) \in Nat
    BY <2>1, Bounds, Fewer
  <2>3. Cardinality(Spent(p)) + Cardinality(Inserting(p)) < Budget + Cardinality(Callers)
    BY DEF BudgetInv, Bounded
  <2> QED
    BY <2>2, <2>3, Bounds, BudgetIsMax
<1> QED
  BY <1>1, BudgetHolds, PTL

-----------------------------------------------------------------------------
(***************************************************************************)
(* The auto-retries.  While no user interferes, every row of an auto-retry *)
(* comes from a finished row of its path: a row that ended transient gets  *)
(* one sleeping task, that task makes one call, and that call inserts at   *)
(* most one row (Traced).  A call that has passed the cap has counted      *)
(* those finished rows, so fewer than the cap were inserted (Chained).     *)
(*                                                                         *)
(* Traced fails once an id is lost: a finished row is executed again, and  *)
(* its second end gives it a second sleeping task.  But then the row whose *)
(* id was lost stays queued, no later call for the path passes the         *)
(* deduplication, and a stop takes the sleeping tasks and the calls away.  *)
(* What survives is the count over the rows that nothing will execute any  *)
(* more (Settled).                                                         *)
(***************************************************************************)

RetryRow(p, j) == jobs[j].path = p /\ jobs[j].trigger = "auto-retry"
Retried(p) ==
  {j \in JobIds : RetryRow(p, j) /\ (jobs[j].status \in Active \union Terminal \/ Held(j))}

\* Calls of the auto-retry task that have got as far as one of the steps S.
Retrying(p, S) == {c \in Callers : /\ caller[c].pc \in S
                                   /\ caller[c].path = p /\ caller[c].trigger = "auto-retry"}
AnyStep == {"dedup", "cap", "insert"}

Settled(p)  == {j \in RowsOf(p, Terminal) : ~ Held(j)}
Sleeping(p) == {j \in JobIds : jobs[j].path = p /\ timers[j] > 0}
RetryCap == Max({JobAutoRetryMax, 1})

NoneLost(p) == \A t \in Plain : Matched(p, t)

Traced(p) ==
  /\ Cardinality(Retried(p)) + Cardinality(Retrying(p, AnyStep)) + Cardinality(Sleeping(p))
       <= Cardinality(RowsOf(p, Terminal))
  /\ \A j \in JobIds : jobs[j].path = p =>
       timers[j] <= 1 /\ (timers[j] > 0 => jobs[j].status \in Terminal)

Chained(p) ==
  /\ Cardinality(Retried(p)) + Cardinality(Retrying(p, {"insert"})) < RetryCap
  /\ Cardinality(Retried(p)) + Cardinality(Retrying(p, {"cap", "insert"}))
       <= Cardinality(Settled(p))

Linked(p) == Chained(p) /\ (NoneLost(p) => Traced(p))

\* Timers belong to rows, and to the running process.
Sleepers == \A j \in JobIds : timers[j] > 0 => phase = "up" /\ jobs[j].status # "absent"

\* Nothing is retried by hand.
Unretried ==
  /\ \A j \in JobIds : jobs[j].trigger # "manual-retry"
  /\ \A c \in Callers : /\ caller[c].pc \notin {"retry_reset", "retry_put"}
                        /\ caller[c].trigger # "manual-retry"

RetryInv ==
  /\ Sleepers
  /\ requests = 0 => Unretried /\ \A p \in Paths : Linked(p)

\* The numbers compared.
LEMMA ChainNumbers ==
  ASSUME NEW p
  PROVE  /\ IsFiniteSet(Retried(p)) /\ Cardinality(Retried(p)) \in Nat
         /\ \A S : IsFiniteSet(Retrying(p, S)) /\ Cardinality(Retrying(p, S)) \in Nat
         /\ IsFiniteSet(Settled(p)) /\ Cardinality(Settled(p)) \in Nat
         /\ IsFiniteSet(Sleeping(p)) /\ Cardinality(Sleeping(p)) \in Nat
         /\ IsFiniteSet(RowsOf(p, Terminal)) /\ Cardinality(RowsOf(p, Terminal)) \in Nat
         /\ Cardinality(Settled(p)) <= Cardinality(RowsOf(p, Terminal))
         /\ \A S, T : S \subseteq T =>
              Cardinality(Retrying(p, S)) <= Cardinality(Retrying(p, T))
<1>1. /\ Retried(p) \subseteq JobIds /\ RowsOf(p, Terminal) \subseteq JobIds
      /\ Settled(p) \subseteq RowsOf(p, Terminal) /\ Settled(p) \subseteq JobIds
      /\ Sleeping(p) \subseteq JobIds /\ \A S : Retrying(p, S) \subseteq Callers
  BY DEF Retried, RowsOf, Settled, Sleeping, Retrying
<1>2. /\ IsFiniteSet(Retried(p)) /\ Cardinality(Retried(p)) \in Nat
      /\ IsFiniteSet(Settled(p)) /\ Cardinality(Settled(p)) \in Nat
      /\ IsFiniteSet(Sleeping(p)) /\ Cardinality(Sleeping(p)) \in Nat
      /\ IsFiniteSet(RowsOf(p, Terminal)) /\ Cardinality(RowsOf(p, Terminal)) \in Nat
  BY <1>1, SmallSets
<1>3. \A S : IsFiniteSet(Retrying(p, S)) /\ Cardinality(Retrying(p, S)) \in Nat
  BY <1>1, SmallSets
<1>4. Cardinality(Settled(p)) <= Cardinality(RowsOf(p, Terminal))
  BY <1>1, <1>2, Fewer
<1>5. ASSUME NEW S, NEW T, S \subseteq T
      PROVE  Cardinality(Retrying(p, S)) <= Cardinality(Retrying(p, T))
  <2>1. Retrying(p, S) \subseteq Retrying(p, T)
    BY <1>5 DEF Retrying
  <2> QED
    BY <1>3, <2>1, Fewer
<1> QED
  BY <1>2, <1>3, <1>4, <1>5

\* The cap of the auto-retries is the larger of its setting and one.
LEMMA RetryCapIsMax == RetryCap \in Nat /\ RetryCap >= JobAutoRetryMax /\ RetryCap >= 1
<1> DEFINE caps == {JobAutoRetryMax, 1}
<1>1. \E x \in caps : \A y \in caps : x >= y
  BY JobQueueAssumption DEF JobQueueAssumption
<1>2. RetryCap \in caps /\ \A y \in caps : RetryCap >= y
  BY <1>1 DEF RetryCap, Max
<1> QED
  BY <1>2, JobQueueAssumption DEF JobQueueAssumption

\* A step that adds no row and no call, and settles none less.
LEMMA ChainStays ==
  ASSUME NEW p, Chained(p), Retried(p)' \subseteq Retried(p),
         Settled(p) \subseteq Settled(p)',
         \A S \in {{"insert"}, {"cap", "insert"}} : Retrying(p, S)' \subseteq Retrying(p, S)
  PROVE  Chained(p)'
<1>1. /\ Cardinality(Retried(p)') <= Cardinality(Retried(p))
      /\ Cardinality(Settled(p)) <= Cardinality(Settled(p)')
      /\ Cardinality(Retried(p)') \in Nat /\ Cardinality(Settled(p)') \in Nat
  <2>1. IsFiniteSet(Settled(p)')
    <3>1. Settled(p)' \subseteq JobIds
      BY DEF Settled, RowsOf
    <3> QED
      BY <3>1, SmallSets
  <2> QED
    BY <2>1, ChainNumbers, Fewer
<1>2. \A S \in {{"insert"}, {"cap", "insert"}} :
        /\ Cardinality(Retrying(p, S)') <= Cardinality(Retrying(p, S))
        /\ Cardinality(Retrying(p, S)') \in Nat
  BY ChainNumbers, Fewer
<1>3. PICK i, i1, k, k1 : /\ i = Cardinality(Retrying(p, {"insert"}))
                          /\ i1 = Cardinality(Retrying(p, {"insert"})')
                          /\ k = Cardinality(Retrying(p, {"cap", "insert"}))
                          /\ k1 = Cardinality(Retrying(p, {"cap", "insert"})')
  OBVIOUS
<1>4. i1 <= i /\ k1 <= k /\ i \in Nat /\ i1 \in Nat /\ k \in Nat /\ k1 \in Nat
  BY <1>2, <1>3, ChainNumbers
<1>5. /\ Cardinality(Retried(p)) + i < RetryCap
      /\ Cardinality(Retried(p)) + k <= Cardinality(Settled(p))
  BY <1>3 DEF Chained
<1>6. /\ Cardinality(Retried(p)') + i1 < RetryCap
      /\ Cardinality(Retried(p)') + k1 <= Cardinality(Settled(p)')
  BY <1>1, <1>4, <1>5, ChainNumbers, RetryCapIsMax
<1>7. RetryCap' = RetryCap
  BY DEF RetryCap
<1> QED
  BY <1>3, <1>6, <1>7 DEF Chained

\* Rows do not add to it as long as none is taken up again.
LEMMA RowsSettle ==
  ASSUME NEW p,
         \A k \in JobIds :
           /\ RetryRow(p, k)' =>
                /\ RetryRow(p, k)
                /\ jobs'[k].status \in Active \union Terminal =>
                     jobs[k].status \in Active \union Terminal \/ Held(k)
           /\ Held(k)' => Held(k) \/ jobs[k].status \in Active
           /\ jobs[k].status \in Terminal => Held(k) \/ jobs'[k] = jobs[k]
  PROVE  Retried(p)' \subseteq Retried(p) /\ Settled(p) \subseteq Settled(p)'
<1>1. Retried(p)' \subseteq Retried(p)
  BY DEF Retried
<1>2. \A st \in Terminal : st \notin Active
  BY DEF Terminal, Active
<1>3. Settled(p) \subseteq Settled(p)'
  BY <1>2 DEF Settled, RowsOf
<1> QED
  BY <1>1, <1>3

\* A step that adds no row, call or sleeping task, and takes no finished row away.
LEMMA TraceStays ==
  ASSUME TypeOK, TypeOK', NEW p, Traced(p), Retried(p)' \subseteq Retried(p),
         Retrying(p, AnyStep)' \subseteq Retrying(p, AnyStep),
         RowsOf(p, Terminal) \subseteq RowsOf(p, Terminal)',
         \A j \in JobIds : jobs'[j].path = p /\ timers'[j] > 0 =>
                             jobs[j].path = p /\ timers'[j] <= timers[j]
  PROVE  Traced(p)'
<1>1. \A j \in JobIds : timers[j] \in Nat /\ timers'[j] \in Nat
  BY DEF TypeOK
<1>2. Sleeping(p)' \subseteq Sleeping(p)
  BY <1>1 DEF Sleeping
<1>3. IsFiniteSet(RowsOf(p, Terminal)')
  <2>1. RowsOf(p, Terminal)' \subseteq JobIds
    BY DEF RowsOf
  <2> QED
    BY <2>1, SmallSets
<1>4. /\ Cardinality(Retried(p)') <= Cardinality(Retried(p))
      /\ Cardinality(Retried(p)') \in Nat
      /\ Cardinality(Sleeping(p)') <= Cardinality(Sleeping(p))
      /\ Cardinality(Sleeping(p)') \in Nat
      /\ Cardinality(RowsOf(p, Terminal)) <= Cardinality(RowsOf(p, Terminal)')
      /\ Cardinality(RowsOf(p, Terminal)') \in Nat
      /\ Cardinality(Retrying(p, AnyStep)') <= Cardinality(Retrying(p, AnyStep))
      /\ Cardinality(Retrying(p, AnyStep)') \in Nat
  BY <1>2, <1>3, ChainNumbers, Fewer
<1>5. \A j \in JobIds : jobs'[j].path = p =>
        timers'[j] <= 1 /\ (timers'[j] > 0 => jobs'[j].status \in Terminal)
  <2>1. SUFFICES ASSUME NEW j \in JobIds, jobs'[j].path = p, timers'[j] > 0
                 PROVE  timers'[j] <= 1 /\ jobs'[j].status \in Terminal
    BY <1>1
  <2>2. jobs[j].path = p /\ timers'[j] <= timers[j]
    BY <2>1
  <2>3. timers[j] <= 1 /\ jobs[j].status \in Terminal
    BY <1>1, <2>1, <2>2 DEF Traced
  <2> QED
    BY <1>1, <2>2, <2>3 DEF RowsOf
<1>6. AnyStep' = AnyStep
  BY DEF AnyStep
<1>7. PICK b, b1 : /\ b = Cardinality(Retrying(p, AnyStep))
                   /\ b1 = Cardinality(Retrying(p, AnyStep)')
  OBVIOUS
<1>8. Cardinality(Retried(p)') + b1 + Cardinality(Sleeping(p)')
        <= Cardinality(RowsOf(p, Terminal)')
  BY <1>4, <1>7, ChainNumbers DEF Traced
<1> QED
  BY <1>5, <1>6, <1>7, <1>8 DEF Traced

\* A call that goes on is still one of the calls that have got this far.
LEMMA CallStays ==
  ASSUME NEW p, NEW S, NEW c \in Callers, \A d \in Callers : d # c => caller'[d] = caller[d],
         caller'[c].path = caller[c].path, caller'[c].trigger = caller[c].trigger,
         caller'[c].pc \in S <=> caller[c].pc \in S
  PROVE  Retrying(p, S)' = Retrying(p, S)
BY DEF Retrying

\* Timers that are not touched.
LEMMA TimersStay ==
  ASSUME TypeOK, timers' = timers
  PROVE  \A j \in JobIds : timers'[j] <= timers[j]
BY DEF TypeOK

\* When the deduplication passes, every finished row of the path is settled.
LEMMA DedupSettles ==
  ASSUME TypeOK, Unretried, NEW p \in Paths, \A t \in Plain : Counted(p, t), ~ IsDuplicate(p)
  PROVE  NoneLost(p) /\ Settled(p) = RowsOf(p, Terminal)
<1>1. \A j \in JobIds : jobs[j].trigger \in Plain
  BY DEF TypeOK, JobRow, Unretried, Plain
<1>2. \A j \in RowsOf(p, Terminal) : j \in JobIds /\ jobs[j].path = p
  BY DEF RowsOf
<1> QED
  BY <1>1, <1>2, NoneHeld DEF Settled, NoneLost

\* The deduplication passes: the call has counted on nothing yet.
LEMMA ChainDedup ==
  ASSUME TypeOK, TypeOK', NEW p \in Paths, \A t \in Plain : Counted(p, t),
         Unretried, Linked(p), NoneLost(p)' => NoneLost(p),
         NEW c \in Callers, caller[c].pc = "dedup", ~ IsDuplicate(caller[c].path),
         caller'[c] = [caller[c] EXCEPT !.pc = IF caller[c].trigger \in AutoTriggers
                                               THEN "cap" ELSE "insert"],
         UNCHANGED <<jobs, queue, task, timers>>,
         \A d \in Callers : d # c => caller'[d] = caller[d]
  PROVE  Linked(p)'
<1>1. /\ caller'[c].path = caller[c].path /\ caller'[c].trigger = caller[c].trigger
      /\ caller'[c].pc = IF caller[c].trigger \in AutoTriggers THEN "cap" ELSE "insert"
  BY DEF TypeOK, Caller
<1>2. /\ Retried(p)' = Retried(p) /\ Settled(p)' = Settled(p)
      /\ RowsOf(p, Terminal)' = RowsOf(p, Terminal)
  BY DEF Retried, RetryRow, Settled, RowsOf, Held, InQueue
<1>3. Retrying(p, {"insert"})' \subseteq Retrying(p, {"insert"})
  BY <1>1 DEF Retrying, AutoTriggers
<1>4. Retrying(p, AnyStep)' = Retrying(p, AnyStep)
  <2>1. ASSUME NEW S \in {AnyStep}
        PROVE  Retrying(p, S)' = Retrying(p, S)
    <3>1. caller'[c].pc \in S <=> caller[c].pc \in S
      BY <1>1 DEF AnyStep
    <3>2. caller'[c].path = caller[c].path /\ caller'[c].trigger = caller[c].trigger
      BY <1>1
    <3> QED
      BY <3>1, <3>2, CallStays
  <2>2. PICK S : S = AnyStep
    OBVIOUS
  <2>3. Retrying(p, S)' = Retrying(p, S)
    BY <2>1, <2>2
  <2> QED
    BY <2>2, <2>3 DEF Retrying, AnyStep
<1>5. NoneLost(p)' => Traced(p)'
  BY <1>2, <1>4, TraceStays, TimersStay DEF Linked
<1>6. CASE c \notin Retrying(p, {"cap", "insert"})'
  <2>1. Retrying(p, {"cap", "insert"})' \subseteq Retrying(p, {"cap", "insert"})
    BY <1>6 DEF Retrying
  <2>2. \A S \in {{"insert"}, {"cap", "insert"}} : Retrying(p, S)' \subseteq Retrying(p, S)
    BY <1>3, <2>1
  <2>3. Chained(p)'
    BY <1>2, <2>2, ChainStays DEF Linked
  <2> QED
    BY <1>5, <2>3 DEF Linked
<1>7. CASE c \in Retrying(p, {"cap", "insert"})'
  <2>1. caller[c].path = p
    BY <1>1, <1>7 DEF Retrying
  <2>2. NoneLost(p) /\ Settled(p) = RowsOf(p, Terminal)
    BY <2>1, DedupSettles
  <2>3. /\ Cardinality(Retried(p)) + Cardinality(Retrying(p, AnyStep))
             + Cardinality(Sleeping(p)) <= Cardinality(Settled(p))
        /\ Cardinality(Retried(p)) + Cardinality(Retrying(p, {"insert"})) < RetryCap
    BY <2>2 DEF Linked, Traced, Chained
  <2>4. Retrying(p, {"cap", "insert"})' \subseteq Retrying(p, AnyStep)
    BY <1>4 DEF Retrying, AnyStep
  <2>5. PICK k, i : /\ k = Cardinality(Retrying(p, {"cap", "insert"})')
                    /\ i = Cardinality(Retrying(p, {"insert"})')
    OBVIOUS
  <2>6. /\ k <= Cardinality(Retrying(p, AnyStep)) /\ k \in Nat
        /\ i <= Cardinality(Retrying(p, {"insert"})) /\ i \in Nat
    BY <1>3, <2>4, <2>5, ChainNumbers, Fewer
  <2>7. /\ Cardinality(Retried(p)') + i < RetryCap
        /\ Cardinality(Retried(p)') + k <= Cardinality(Settled(p)')
    BY <1>2, <2>3, <2>6, ChainNumbers, RetryCapIsMax
  <2>8. RetryCap' = RetryCap
    BY DEF RetryCap
  <2>9. Chained(p)'
    BY <2>5, <2>7, <2>8 DEF Chained
  <2> QED
    BY <1>5, <2>9 DEF Linked
<1> QED
  BY <1>6, <1>7

\* The cap passes: it has counted the finished rows.
LEMMA ChainCap ==
  ASSUME TypeOK, TypeOK', NEW p \in Paths, Linked(p), NoneLost(p)' => NoneLost(p),
         NEW c \in Callers, caller[c].pc = "cap",
         ~ CapReached(caller[c].path, caller[c].trigger),
         caller'[c] = [caller[c] EXCEPT !.pc = "insert"],
         UNCHANGED <<jobs, queue, task, timers>>,
         \A d \in Callers : d # c => caller'[d] = caller[d]
  PROVE  Linked(p)'
<1>1. /\ caller'[c].path = caller[c].path /\ caller'[c].trigger = caller[c].trigger
      /\ caller'[c].pc = "insert"
  BY DEF TypeOK, Caller
<1>2. /\ Retried(p)' = Retried(p) /\ Settled(p)' = Settled(p)
      /\ RowsOf(p, Terminal)' = RowsOf(p, Terminal)
  BY DEF Retried, RetryRow, Settled, RowsOf, Held, InQueue
<1>3. /\ Retrying(p, AnyStep)' = Retrying(p, AnyStep)
      /\ Retrying(p, {"cap", "insert"})' = Retrying(p, {"cap", "insert"})
  <2>1. ASSUME NEW S \in {AnyStep, {"cap", "insert"}}
        PROVE  Retrying(p, S)' = Retrying(p, S)
    <3>1. caller'[c].pc \in S <=> caller[c].pc \in S
      BY <1>1 DEF AnyStep
    <3>2. \A d \in Callers : /\ caller'[d].pc \in S <=> caller[d].pc \in S
                             /\ caller'[d].path = caller[d].path
                             /\ caller'[d].trigger = caller[d].trigger
      BY <1>1, <3>1
    <3> QED
      BY <3>2 DEF Retrying
  <2>2. PICK S, T : S = AnyStep /\ T = {"cap", "insert"}
    OBVIOUS
  <2>3. Retrying(p, S)' = Retrying(p, S) /\ Retrying(p, T)' = Retrying(p, T)
    BY <2>1, <2>2
  <2> QED
    BY <2>2, <2>3 DEF Retrying, AnyStep
<1>4. NoneLost(p)' => Traced(p)'
  BY <1>2, <1>3, TraceStays, TimersStay DEF Linked
<1>5. CASE c \notin Retrying(p, {"insert"})'
  <2>1. Retrying(p, {"insert"})' \subseteq Retrying(p, {"insert"})
    BY <1>5 DEF Retrying
  <2>2. \A S \in {{"insert"}, {"cap", "insert"}} : Retrying(p, S)' \subseteq Retrying(p, S)
    BY <1>3, <2>1
  <2>3. Chained(p)'
    BY <1>2, <2>2, ChainStays DEF Linked
  <2> QED
    BY <1>4, <2>3 DEF Linked
<1>6. CASE c \in Retrying(p, {"insert"})'
  <2>1. caller[c].path = p /\ caller[c].trigger = "auto-retry"
    BY <1>1, <1>6 DEF Retrying
  <2>2. Cardinality(RowsOf(p, Terminal)) < RetryCap
    BY <2>1, ChainNumbers, RetryCapIsMax, JobQueueAssumption
       DEF CapReached, AutoCap, JobQueueAssumption
  <2>3. Retrying(p, {"insert"})' \subseteq Retrying(p, {"cap", "insert"})
    BY <1>3 DEF Retrying
  <2>4. PICK i, k : /\ i = Cardinality(Retrying(p, {"insert"})')
                    /\ k = Cardinality(Retrying(p, {"cap", "insert"}))
    OBVIOUS
  <2>5. i <= k /\ i \in Nat /\ k \in Nat
    BY <2>3, <2>4, ChainNumbers, Fewer
  <2>6. Cardinality(Retried(p)) + k <= Cardinality(Settled(p))
    BY <2>4 DEF Linked, Chained
  <2>7. Cardinality(Retried(p)') + i < RetryCap
    BY <1>2, <2>2, <2>5, <2>6, ChainNumbers, RetryCapIsMax
  <2>8. RetryCap' = RetryCap
    BY DEF RetryCap
  <2>9. Chained(p)'
    BY <1>2, <1>3, <2>4, <2>6, <2>7, <2>8 DEF Chained
  <2> QED
    BY <1>4, <2>9 DEF Linked
<1> QED
  BY <1>5, <1>6

\* A sleeping task becomes a call.
LEMMA ChainTimer ==
  ASSUME TypeOK, TypeOK', NEW p \in Paths, Linked(p), NoneLost(p)' => NoneLost(p),
         NEW c \in Callers, TimerFires(c)
  PROVE  Linked(p)'
<1>1. PICK j \in JobIds :
        /\ timers[j] > 0 /\ timers' = [timers EXCEPT ![j] = @ - 1]
        /\ CallerBecomes(c, EnqueueCall(jobs[j].path, jobs[j].key, "auto-retry", {}))
  BY DEF TimerFires
<1>2. /\ UNCHANGED <<jobs, queue, task>> /\ caller[c].pc = "idle"
      /\ caller'[c] = EnqueueCall(jobs[j].path, jobs[j].key, "auto-retry", {})
      /\ \A d \in Callers : d # c => caller'[d] = caller[d]
  BY <1>1, OneEntry DEF TimerFires, NoCaller
<1>3. /\ caller'[c].pc = "dedup" /\ caller'[c].path = jobs[j].path
      /\ caller'[c].trigger = "auto-retry"
  BY <1>2 DEF EnqueueCall
<1>4. /\ Retried(p)' = Retried(p) /\ Settled(p)' = Settled(p)
      /\ RowsOf(p, Terminal)' = RowsOf(p, Terminal)
  BY <1>2 DEF Retried, RetryRow, Settled, RowsOf, Held, InQueue
<1>5. /\ timers[j] \in Nat /\ timers'[j] = timers[j] - 1
      /\ \A k \in JobIds : timers[k] \in Nat /\ (k # j => timers'[k] = timers[k])
  BY <1>1 DEF TypeOK
<1>6. Chained(p)'
  <2>1. \A S \in {{"insert"}, {"cap", "insert"}} : Retrying(p, S)' \subseteq Retrying(p, S)
    BY <1>2, <1>3 DEF Retrying
  <2> QED
    BY <1>4, <2>1, ChainStays DEF Linked
<1>7. ASSUME NoneLost(p)', jobs[j].path # p
      PROVE  Traced(p)'
  <2>1. Retrying(p, AnyStep)' \subseteq Retrying(p, AnyStep)
    BY <1>2, <1>3, <1>7 DEF Retrying, AnyStep
  <2>2. \A k \in JobIds : jobs'[k].path = p /\ timers'[k] > 0 =>
                            jobs[k].path = p /\ timers'[k] <= timers[k]
    BY <1>2, <1>5
  <2> QED
    BY <1>4, <1>7, <2>1, <2>2, TraceStays DEF Linked
<1>8. ASSUME NoneLost(p)', jobs[j].path = p
      PROVE  Traced(p)'
  <2>1. Traced(p)
    BY <1>8 DEF Linked
  <2>2. timers[j] = 1 /\ timers'[j] = 0 /\ j \in Sleeping(p)
    BY <1>1, <1>5, <1>8, <2>1 DEF Traced, Sleeping
  <2>3. Sleeping(p)' = Sleeping(p) \ {j}
    BY <1>2, <1>5, <2>2 DEF Sleeping
  <2>4. PICK b : b = Retrying(p, AnyStep)'
    OBVIOUS
  <2>5. b = Retrying(p, AnyStep) \union {c}
    BY <1>2, <1>3, <1>8, <2>4 DEF Retrying, AnyStep
  <2>6. Cardinality(Sleeping(p)') = Cardinality(Sleeping(p)) - 1
    BY <2>2, <2>3, ChainNumbers, OneMore
  <2>7. Cardinality(b) <= Cardinality(Retrying(p, AnyStep)) + 1 /\ Cardinality(b) \in Nat
    BY <2>5, ChainNumbers, OneMore, FS_CardinalityType
  <2>8. Cardinality(Retried(p)') + Cardinality(b) + Cardinality(Sleeping(p)')
          <= Cardinality(RowsOf(p, Terminal)')
    BY <1>4, <2>1, <2>6, <2>7, ChainNumbers DEF Traced
  <2>9. \A k \in JobIds : jobs'[k].path = p =>
          timers'[k] <= 1 /\ (timers'[k] > 0 => jobs'[k].status \in Terminal)
    BY <1>2, <1>5, <2>1, <2>2 DEF Traced
  <2>10. AnyStep' = AnyStep
    BY DEF AnyStep
  <2> QED
    BY <2>4, <2>8, <2>9, <2>10 DEF Traced
<1> QED
  BY <1>6, <1>7, <1>8 DEF Linked

\* The callers that think, as long as no user interferes.
LEMMA ChainThinks ==
  ASSUME TypeOK, TypeOK', NEW p \in Paths, \A t \in Plain : Counted(p, t),
         Unretried, Linked(p), NoneLost(p)' => NoneLost(p), requests' = 0, NEW c \in Callers,
         CallerBegins(c) \/ SweepItem(c) \/ EnqueueDedup(c) \/ EnqueueCap(c)
  PROVE  Linked(p)'
<1>1. /\ UNCHANGED <<jobs, queue, task>>
      /\ \A d \in Callers : d # c => caller'[d] = caller[d]
  BY Thinks
<1>2. /\ Retried(p)' = Retried(p) /\ Settled(p)' = Settled(p)
      /\ RowsOf(p, Terminal)' = RowsOf(p, Terminal)
  BY <1>1 DEF Retried, RetryRow, Settled, RowsOf, Held, InQueue
<1>3. ASSUME caller'[c].pc \in {"idle", "sweep"} \/ caller'[c].trigger # "auto-retry",
             timers' = timers
      PROVE  Linked(p)'
  <2>1. \A S \in {{"insert"}, {"cap", "insert"}} : Retrying(p, S)' \subseteq Retrying(p, S)
    BY <1>1, <1>3 DEF Retrying
  <2>2. Retrying(p, AnyStep)' \subseteq Retrying(p, AnyStep)
    BY <1>1, <1>3 DEF Retrying, AnyStep
  <2>3. \A k \in JobIds : jobs'[k].path = p /\ timers'[k] > 0 =>
                            jobs[k].path = p /\ timers'[k] <= timers[k]
    BY <1>1, <1>3, TimersStay
  <2> QED
    BY <1>2, <2>1, <2>2, <2>3, ChainStays, TraceStays DEF Linked
<1>4. ~ ManualTranslate(c) /\ ~ RetrySelect(c)
  <2>1. requests \in Nat
    BY JobQueueAssumption DEF TypeOK, JobQueueAssumption
  <2>2. ManualTranslate(c) \/ RetrySelect(c) => requests' = requests + 1
    BY DEF ManualTranslate, RetrySelect
  <2> QED
    BY <2>1, <2>2
<1>5. CASE PollSweep(c)
  <2>1. PICK T : CallerBecomes(c, [NoCaller EXCEPT !.pc = "sweep", !.todo = T])
    BY <1>5 DEF PollSweep
  <2>2. caller'[c] = [NoCaller EXCEPT !.pc = "sweep", !.todo = T]
    BY <2>1, OneEntry
  <2>3. caller'[c].pc = "sweep"
    BY <2>2 DEF NoCaller
  <2> QED
    BY <1>3, <1>5, <2>3 DEF PollSweep
<1>6. CASE SweepItem(c)
  <2>1. PICK q, k, T : CallerBecomes(c, EnqueueCall(q, k, "poll", T))
    BY <1>6 DEF SweepItem
  <2>2. caller'[c] = EnqueueCall(q, k, "poll", T)
    BY <2>1, OneEntry
  <2>3. caller'[c].trigger = "poll"
    BY <2>2 DEF EnqueueCall
  <2> QED
    BY <1>3, <1>6, <2>3 DEF SweepItem
<1>7. Returned(c).pc \in {"idle", "sweep"}
  BY ReturnedType
<1>8. CASE EnqueueDedup(c)
  <2>1. CASE IsDuplicate(caller[c].path)
    BY <1>3, <1>7, <1>8, <2>1, OneEntry DEF EnqueueDedup
  <2>2. CASE ~ IsDuplicate(caller[c].path)
    <3>1. /\ caller[c].pc = "dedup" /\ timers' = timers
          /\ caller'[c] = [caller[c] EXCEPT !.pc = IF caller[c].trigger \in AutoTriggers
                                                   THEN "cap" ELSE "insert"]
      BY <1>8, <2>2, OneEntry DEF EnqueueDedup
    <3> QED
      BY <1>1, <2>2, <3>1, ChainDedup
  <2> QED
    BY <2>1, <2>2
<1>9. CASE EnqueueCap(c)
  <2>1. CASE CapReached(caller[c].path, caller[c].trigger)
    BY <1>3, <1>7, <1>9, <2>1, OneEntry DEF EnqueueCap
  <2>2. CASE ~ CapReached(caller[c].path, caller[c].trigger)
    <3>1. /\ caller[c].pc = "cap" /\ timers' = timers
          /\ caller'[c] = [caller[c] EXCEPT !.pc = "insert"]
      BY <1>9, <2>2, OneEntry DEF EnqueueCap
    <3> QED
      BY <1>1, <2>2, <3>1, ChainCap
  <2> QED
    BY <2>1, <2>2
<1> QED
  BY <1>4, <1>5, <1>6, <1>8, <1>9, ChainTimer DEF CallerBegins

\* The row of an auto-retry takes the place of its call.
LEMMA ChainInsert ==
  ASSUME TypeOK, TypeOK', IdsInserted, Sleepers, NEW p \in Paths, Linked(p),
         NoneLost(p)' => NoneLost(p), NEW c \in Callers, EnqueueInsert(c)
  PROVE  Linked(p)'
<1> DEFINE new == NewJob(caller[c].path, caller[c].key, caller[c].trigger)
           mine == caller[c].path = p /\ caller[c].trigger = "auto-retry"
<1>1. /\ caller[c].pc = "insert" /\ nextId \in JobIds /\ caller[c] \in Caller
      /\ \A k \in JobIds : jobs'[k] = IF k = nextId THEN new ELSE jobs[k]
      /\ \A d \in Callers : caller'[d] = IF d = c THEN [caller[c] EXCEPT !.pc = "put"]
                                         ELSE caller[d]
      /\ UNCHANGED <<queue, task, timers>>
  BY OneEntry DEF EnqueueInsert, TypeOK
<1>2. /\ new.path = caller[c].path /\ new.status = "queued"
      /\ new.trigger = caller[c].trigger
  BY DEF NewJob
<1>3. caller'[c].pc = "put"
  BY <1>1 DEF Caller
<1> HIDE DEF new
<1>4. jobs[nextId].status = "absent" /\ ~ (timers[nextId] > 0)
  BY <1>1, JobQueueAssumption
     DEF IdsInserted, Sleepers, TypeOK, JobIds, JobQueueAssumption
<1>5. \A k \in JobIds : Held(k)' <=> Held(k)
  BY <1>1 DEF Held, InQueue
<1>6. \A k \in JobIds : k # nextId => jobs'[k] = jobs[k]
  BY <1>1
<1>7. RowsOf(p, Terminal)' = RowsOf(p, Terminal)
  BY <1>1, <1>2, <1>4, <1>6 DEF RowsOf, Terminal
<1>8. Settled(p)' = Settled(p)
  BY <1>5, <1>7 DEF Settled, RowsOf
<1>9. \A S \in {{"insert"}, {"cap", "insert"}, AnyStep} :
        Retrying(p, S)' = Retrying(p, S) \ {c}
  BY <1>1, <1>3 DEF Retrying, AnyStep
<1>10. \A k \in JobIds : jobs'[k].path = p /\ timers'[k] > 0 =>
                           jobs[k].path = p /\ timers'[k] <= timers[k]
  BY <1>1, <1>4, <1>6, TimersStay
<1>11. CASE ~ mine
  <2>1. \A k \in JobIds : RetryRow(p, k)' => k # nextId
    BY <1>1, <1>2, <1>11 DEF RetryRow
  <2>2. Retried(p)' \subseteq Retried(p)
    BY <1>5, <1>6, <2>1 DEF Retried, RetryRow
  <2>3. /\ \A S \in {{"insert"}, {"cap", "insert"}} : Retrying(p, S)' \subseteq Retrying(p, S)
        /\ Retrying(p, AnyStep)' \subseteq Retrying(p, AnyStep)
    BY <1>9
  <2> QED
    BY <1>7, <1>8, <1>10, <2>2, <2>3, ChainStays, TraceStays DEF Linked
<1>12. CASE mine
  <2>1. Retried(p)' \subseteq Retried(p) \union {nextId}
    BY <1>5, <1>6 DEF Retried, RetryRow
  <2>2. /\ IsFiniteSet(Retried(p) \union {nextId})
        /\ Cardinality(Retried(p) \union {nextId}) <= Cardinality(Retried(p)) + 1
    BY ChainNumbers, OneMore
  <2>3. Cardinality(Retried(p)') <= Cardinality(Retried(p)) + 1 /\ Cardinality(Retried(p)') \in Nat
    <3>1. /\ Cardinality(Retried(p)') <= Cardinality(Retried(p) \union {nextId})
          /\ Cardinality(Retried(p)') \in Nat /\ Cardinality(Retried(p) \union {nextId}) \in Nat
      BY <2>1, <2>2, Fewer
    <3> QED
      BY <2>2, <3>1, ChainNumbers
  <2>4. ASSUME NEW S \in {{"insert"}, {"cap", "insert"}, AnyStep}
        PROVE  /\ Cardinality(Retrying(p, S)') = Cardinality(Retrying(p, S)) - 1
               /\ Cardinality(Retrying(p, S)) \in Nat
    <3>1. c \in Retrying(p, S)
      BY <1>1, <1>12 DEF Retrying, AnyStep
    <3> QED
      BY <1>9, <3>1, ChainNumbers, OneMore
  <2>5. PICK i, i1, k, k1, b, b1 :
          /\ i = Cardinality(Retrying(p, {"insert"}))
          /\ i1 = Cardinality(Retrying(p, {"insert"})')
          /\ k = Cardinality(Retrying(p, {"cap", "insert"}))
          /\ k1 = Cardinality(Retrying(p, {"cap", "insert"})')
          /\ b = Cardinality(Retrying(p, AnyStep))
          /\ b1 = Cardinality(Retrying(p, AnyStep)')
    OBVIOUS
  <2>6. /\ i1 = i - 1 /\ k1 = k - 1 /\ b1 = b - 1
        /\ i \in Nat /\ k \in Nat /\ b \in Nat
    BY <2>4, <2>5
  <2>7. RetryCap' = RetryCap /\ AnyStep' = AnyStep
    BY DEF RetryCap, AnyStep
  <2>8. /\ Cardinality(Retried(p)) + i < RetryCap
        /\ Cardinality(Retried(p)) + k <= Cardinality(Settled(p))
    BY <2>5 DEF Linked, Chained
  <2>9. /\ Cardinality(Retried(p)') + i1 < RetryCap
        /\ Cardinality(Retried(p)') + k1 <= Cardinality(Settled(p)')
    BY <1>8, <2>3, <2>6, <2>8, ChainNumbers, RetryCapIsMax
  <2>10. Chained(p)'
    BY <2>5, <2>7, <2>9 DEF Chained
  <2>11. ASSUME NoneLost(p)'
         PROVE  Traced(p)'
    <3>1. Traced(p)
      BY <2>11 DEF Linked
    <3>2. \A x \in JobIds : jobs'[x].path = p =>
            timers'[x] <= 1 /\ (timers'[x] > 0 => jobs'[x].status \in Terminal)
      <4>1. timers[nextId] = 0 /\ timers' = timers
        BY <1>1, <1>4 DEF TypeOK
      <4> QED
        BY <1>6, <3>1, <4>1 DEF Traced
    <3>3. Sleeping(p)' \subseteq Sleeping(p)
      BY <1>1, <1>10 DEF Sleeping
    <3>4. Cardinality(Sleeping(p)') <= Cardinality(Sleeping(p)) /\ Cardinality(Sleeping(p)') \in Nat
      BY <3>3, ChainNumbers, Fewer
    <3>5. Cardinality(Retried(p)) + b + Cardinality(Sleeping(p))
            <= Cardinality(RowsOf(p, Terminal))
      BY <2>5, <3>1 DEF Traced
    <3>6. Cardinality(Retried(p)') + b1 + Cardinality(Sleeping(p)')
            <= Cardinality(RowsOf(p, Terminal)')
      BY <1>7, <2>3, <2>6, <3>4, <3>5, ChainNumbers
    <3> QED
      BY <2>5, <2>7, <3>2, <3>6 DEF Traced
  <2> QED
    BY <2>10, <2>11 DEF Linked
<1> QED
  BY <1>11, <1>12

\* The put of its id: of a row that waits, whichever it is.
LEMMA ChainPut ==
  ASSUME TypeOK, TypeOK', NEW p \in Paths, Linked(p), NoneLost(p)' => NoneLost(p),
         NEW c \in Callers, EnqueuePut(c)
  PROVE  Linked(p)'
<1>1. /\ UNCHANGED <<jobs, task, timers>> /\ caller[c].pc = "put"
      /\ caller'[c].pc \in {"idle", "sweep"}
      /\ \A d \in Callers : d # c => caller'[d] = caller[d]
  BY ReturnedType, OneEntry DEF EnqueuePut
<1>2. \A k \in JobIds : Held(k)' => Held(k) \/ jobs[k].status \in Active
  <2>1. CASE queue' = queue
    BY <1>1, <2>1 DEF Held, InQueue
  <2>2. ASSUME NEW j \in Found(c), queue' = Append(queue, j)
        PROVE  \A k \in JobIds : Held(k)' => Held(k) \/ jobs[k].status \in Active
    <3>1. j \in JobIds /\ jobs[j].status \in Active
      BY DEF Found, RowsOf, Active
    <3>2. \A k \in JobIds : Held(k)' => Held(k) \/ k = j
      BY <1>1, <2>2, <3>1 DEF Held, InQueue, TypeOK
    <3> QED
      BY <3>1, <3>2
  <2> QED
    BY <2>1, <2>2 DEF EnqueuePut
<1>3. Retried(p)' \subseteq Retried(p) /\ Settled(p) \subseteq Settled(p)'
  BY <1>1, <1>2, RowsSettle DEF RetryRow
<1>4. /\ \A S \in {{"insert"}, {"cap", "insert"}} : Retrying(p, S)' \subseteq Retrying(p, S)
      /\ Retrying(p, AnyStep)' \subseteq Retrying(p, AnyStep)
  BY <1>1 DEF Retrying, AnyStep
<1>5. RowsOf(p, Terminal)' = RowsOf(p, Terminal)
  BY <1>1 DEF RowsOf
<1> QED
  BY <1>1, <1>3, <1>4, <1>5, ChainStays, TraceStays, TimersStay DEF Linked

\* A task that does not write its row.
LEMMA ChainWorks ==
  ASSUME TypeOK, TypeOK', NEW p \in Paths, Linked(p), NoneLost(p)' => NoneLost(p),
         UNCHANGED <<jobs, caller, timers>>, \A k \in JobIds : Held(k)' => Held(k)
  PROVE  Linked(p)'
<1>1. Retried(p)' \subseteq Retried(p) /\ Settled(p) \subseteq Settled(p)'
  BY RowsSettle DEF RetryRow
<1>2. /\ \A S \in {{"insert"}, {"cap", "insert"}} : Retrying(p, S)' \subseteq Retrying(p, S)
      /\ Retrying(p, AnyStep)' \subseteq Retrying(p, AnyStep)
  BY DEF Retrying, AnyStep
<1>3. RowsOf(p, Terminal)' = RowsOf(p, Terminal)
  BY DEF RowsOf
<1> QED
  BY <1>1, <1>2, <1>3, ChainStays, TraceStays, TimersStay DEF Linked

\* A task that starts takes up a row that nothing has finished, unless an id
\* is lost by it.
LEMMA ChainStart ==
  ASSUME TypeOK, TypeOK', NEW p \in Paths, \A t \in Plain : Counted(p, t),
         Unretried, Linked(p), NoneLost(p)' => NoneLost(p), NEW s \in Slots, JobStart(s)
  PROVE  Linked(p)'
<1>1. task[s].pc = "start" /\ task[s].id \in JobIds /\ task[s] \in Task
  BY DEF JobStart, TypeOK, Task
<1>2. PICK j \in JobIds : j = task[s].id
  BY <1>1
<1>3. /\ jobs'[j] = [jobs[j] EXCEPT !.status = "running", !.attempts = @ + 1]
      /\ \A k \in JobIds : k # j => jobs'[k] = jobs[k]
      /\ task'[s] = [task[s] EXCEPT !.pc = "lock"]
      /\ \A u \in Slots : u # s => task'[u] = task[u]
      /\ UNCHANGED <<queue, caller, timers>>
  BY <1>2, OneEntry DEF JobStart
<1>4. /\ task'[s].id = j /\ jobs'[j].status = "running" /\ jobs'[j].path = jobs[j].path
      /\ jobs'[j].trigger = jobs[j].trigger /\ jobs[j].trigger \in Triggers
  <2>1. jobs[j] \in JobRow
    BY DEF TypeOK
  <2> QED
    BY <1>1, <1>2, <1>3, <2>1 DEF Task, JobRow
<1>5. Held(j) /\ \A k \in JobIds : Held(k)' => Held(k)
  <2>1. task[s].pc # "idle" /\ queue' = queue
    BY <1>1, <1>3
  <2>2. \A u \in Slots : /\ task'[u].id = task[u].id
                         /\ task'[u].pc # "idle" => task[u].pc # "idle"
    BY <1>2, <1>3, <1>4, <2>1
  <2> QED
    BY <1>2, <2>1, <2>2 DEF Held, InQueue
<1>6. Retried(p)' \subseteq Retried(p) /\ Settled(p) \subseteq Settled(p)'
  <2>1. \A k \in JobIds : RetryRow(p, k)' => RetryRow(p, k)
    <3>1. \A k \in JobIds : jobs'[k].path = jobs[k].path /\ jobs'[k].trigger = jobs[k].trigger
      BY <1>3, <1>4
    <3> QED
      BY <3>1 DEF RetryRow
  <2>2. \A k \in JobIds :
          /\ RetryRow(p, k)' =>
               /\ RetryRow(p, k)
               /\ jobs'[k].status \in Active \union Terminal =>
                    jobs[k].status \in Active \union Terminal \/ Held(k)
          /\ Held(k)' => Held(k) \/ jobs[k].status \in Active
          /\ jobs[k].status \in Terminal => Held(k) \/ jobs'[k] = jobs[k]
    BY <1>3, <1>5, <2>1
  <2> QED
    BY <2>2, RowsSettle
<1>7. /\ \A S \in {{"insert"}, {"cap", "insert"}} : Retrying(p, S)' \subseteq Retrying(p, S)
      /\ Retrying(p, AnyStep)' \subseteq Retrying(p, AnyStep)
  BY <1>3 DEF Retrying, AnyStep
<1>8. ASSUME NoneLost(p)'
      PROVE  RowsOf(p, Terminal) \subseteq RowsOf(p, Terminal)'
  <2>1. CASE jobs[j].path # p
    BY <1>3, <2>1 DEF RowsOf
  <2>2. CASE jobs[j].path = p
    <3>1. PICK t \in Plain : t = jobs[j].trigger
      BY <1>4 DEF Unretried, Plain
    <3>2. j \in Rows(p, t)
      BY <2>2, <3>1 DEF Rows
    <3>3. Matched(p, t)' /\ Counted(p, t)
      BY <1>8 DEF NoneLost
    <3>4. jobs[j].status = "queued"
      BY <1>2, <3>2, <3>3, CountStart
    <3>5. j \notin RowsOf(p, Terminal)
      BY <3>4 DEF RowsOf, Terminal
    <3> QED
      BY <1>3, <3>5 DEF RowsOf
  <2> QED
    BY <2>1, <2>2
<1>9. \A k \in JobIds : jobs'[k].path = p /\ timers'[k] > 0 =>
                          jobs[k].path = p /\ timers'[k] <= timers[k]
  BY <1>3, <1>4, TimersStay
<1> QED
  BY <1>6, <1>7, <1>8, <1>9, ChainStays, TraceStays DEF Linked

\* A task that ends finishes its row, and puts at most one task to sleep for it.
LEMMA ChainEnd ==
  ASSUME TypeOK, TypeOK', NEW p \in Paths, \A t \in Plain : Counted(p, t),
         Unretried, Linked(p), NoneLost(p)' => NoneLost(p), NEW s \in Slots,
         JobCommit(s) \/ JobUnhandledError(s)
  PROVE  Linked(p)'
<1>1. task[s].pc \in {"start", "commit"} /\ task[s].id \in JobIds /\ task[s] \in Task
  BY DEF JobCommit, JobUnhandledError, TypeOK, Task
<1>2. PICK j \in JobIds : j = task[s].id
  BY <1>1
<1>3. PICK st \in JobStatus \ Active :
        /\ JobBecomes(j, [jobs[j] EXCEPT !.status = st]) /\ TaskBecomes(s, NoTask)
        /\ \/ /\ timers' = timers
              /\ st = "failed" \/ task[s].pc = "commit"
           \/ /\ timers' = [timers EXCEPT ![j] = @ + 1]
              /\ st = "quarantined" /\ task[s].pc = "commit"
  <2>1. CASE JobCommit(s)
    <3>1. FinalStatus(task[s].result) \in JobStatus \ Active
      BY <1>1 DEF Task, Outcomes, FinalStatus, JobStatus, Active, Terminal
    <3>2. CASE WantsAutoRetry(s)
      <4>1. FinalStatus(task[s].result) = "quarantined"
        BY <3>2 DEF WantsAutoRetry, FinalStatus
      <4> QED
        BY <1>2, <2>1, <3>1, <3>2, <4>1 DEF JobCommit
    <3>3. CASE ~ WantsAutoRetry(s)
      BY <1>2, <2>1, <3>1, <3>3 DEF JobCommit
    <3> QED
      BY <3>2, <3>3
  <2>2. CASE JobUnhandledError(s)
    <3>1. "failed" \in JobStatus \ Active
      BY DEF JobStatus, Active, Terminal
    <3> QED
      BY <1>2, <2>2, <3>1 DEF JobUnhandledError
  <2> QED
    BY <2>1, <2>2
<1>4. /\ jobs'[j] = [jobs[j] EXCEPT !.status = st]
      /\ \A k \in JobIds : k # j => jobs'[k] = jobs[k]
      /\ task'[s].pc = "idle" /\ \A u \in Slots : u # s => task'[u] = task[u]
      /\ UNCHANGED <<queue, caller>>
  BY <1>3, OneEntry DEF NoTask, JobCommit, JobUnhandledError
<1>5. /\ jobs'[j].status = st /\ jobs'[j].path = jobs[j].path
      /\ jobs'[j].trigger = jobs[j].trigger /\ jobs[j].trigger \in Triggers
  <2>1. jobs[j] \in JobRow
    BY DEF TypeOK
  <2> QED
    BY <1>4, <2>1 DEF JobRow
<1>6. Held(j) /\ \A k \in JobIds : Held(k)' => Held(k)
  BY <1>1, <1>2, <1>4 DEF Held, InQueue
<1>7. Retried(p)' \subseteq Retried(p) /\ Settled(p) \subseteq Settled(p)'
  <2>1. \A k \in JobIds : RetryRow(p, k)' => RetryRow(p, k)
    BY <1>4, <1>5 DEF RetryRow
  <2> QED
    BY <1>4, <1>6, <2>1, RowsSettle
<1>8. \A S \in {{"insert"}, {"cap", "insert"}, AnyStep} : Retrying(p, S)' = Retrying(p, S)
  BY <1>4 DEF Retrying, AnyStep
<1>9. Chained(p)'
  <2>1. \A S \in {{"insert"}, {"cap", "insert"}} : Retrying(p, S)' \subseteq Retrying(p, S)
    BY <1>8
  <2> QED
    BY <1>7, <2>1, ChainStays DEF Linked
<1>10. \A k \in JobIds : timers[k] \in Nat /\ (k # j => timers'[k] = timers[k])
  BY <1>3 DEF TypeOK
<1>11. ASSUME NoneLost(p), jobs[j].path = p, task[s].pc = "commit"
       PROVE  jobs[j].status = "running"
  <2>1. PICK t \in Plain : t = jobs[j].trigger
    BY <1>5 DEF Unretried, Plain
  <2>2. Matched(p, t) /\ Counted(p, t)
    BY <1>11 DEF NoneLost
  <2>3. ~ Clash(p, t)
    BY <2>2, Numbers DEF Matched, Counted, Pending
  <2>4. j \in Rows(p, t)
    BY <1>11, <2>1 DEF Rows
  <2> QED
    BY <1>2, <1>11, <2>3, <2>4 DEF Clash, Started
<1>12. ASSUME NoneLost(p)'
       PROVE  Traced(p)'
  <2>1. NoneLost(p) /\ Traced(p)
    BY <1>12 DEF Linked
  <2>2. RowsOf(p, Terminal) \subseteq RowsOf(p, Terminal)'
    <3>1. jobs[j].path = p => jobs[j].status \notin Terminal \/ st \in Terminal
      BY <1>3, <1>11, <2>1 DEF Terminal
    <3> QED
      BY <1>4, <1>5, <3>1 DEF RowsOf
  <2>3. Retrying(p, AnyStep)' \subseteq Retrying(p, AnyStep)
    BY <1>8
  <2>4. CASE jobs[j].path # p \/ timers' = timers
    <3>1. \A k \in JobIds : jobs'[k].path = p /\ timers'[k] > 0 =>
                              jobs[k].path = p /\ timers'[k] <= timers[k]
      <4>1. \A k \in JobIds : jobs'[k].path = jobs[k].path
        BY <1>4, <1>5
      <4>2. \A k \in JobIds : k # j \/ timers' = timers => timers'[k] <= timers[k]
        BY <1>10
      <4> QED
        BY <2>4, <4>1, <4>2
    <3> QED
      BY <1>7, <2>1, <2>2, <2>3, <3>1, TraceStays
  <2>5. CASE /\ jobs[j].path = p /\ timers' = [timers EXCEPT ![j] = @ + 1]
             /\ st = "quarantined" /\ task[s].pc = "commit"
    <3>1. jobs[j].status = "running" /\ jobs[j].status \notin Terminal
      BY <1>11, <2>1, <2>5 DEF Terminal
    <3>2. timers[j] = 0 /\ timers'[j] = 1
      BY <1>10, <2>1, <2>5, <3>1 DEF Traced, TypeOK
    <3>3. RowsOf(p, Terminal)' = RowsOf(p, Terminal) \union {j}
      BY <1>4, <1>5, <2>5 DEF RowsOf, Terminal
    <3>4. Sleeping(p)' = Sleeping(p) \union {j}
      <4>1. \A k \in JobIds : jobs'[k].path = jobs[k].path
        BY <1>4, <1>5
      <4>2. \A k \in JobIds : timers'[k] > 0 <=> timers[k] > 0 \/ k = j
        BY <1>10, <3>2
      <4>3. jobs[j].path = p
        BY <2>5
      <4> QED
        BY <4>1, <4>2, <4>3 DEF Sleeping
    <3>5. j \notin RowsOf(p, Terminal)
      BY <3>1 DEF RowsOf
    <3>6. /\ Cardinality(RowsOf(p, Terminal)') = Cardinality(RowsOf(p, Terminal)) + 1
          /\ Cardinality(Sleeping(p)') <= Cardinality(Sleeping(p)) + 1
          /\ Cardinality(Sleeping(p)') \in Nat
      BY <3>3, <3>4, <3>5, ChainNumbers, OneMore, FS_CardinalityType
    <3>7. Cardinality(Retried(p)') <= Cardinality(Retried(p)) /\ Cardinality(Retried(p)') \in Nat
      BY <1>7, ChainNumbers, Fewer
    <3>8. PICK b : b = Cardinality(Retrying(p, AnyStep)) /\ b = Cardinality(Retrying(p, AnyStep)')
      BY <1>8
    <3>9. b \in Nat /\ Cardinality(Retried(p)) + b + Cardinality(Sleeping(p))
                         <= Cardinality(RowsOf(p, Terminal))
      BY <2>1, <3>8, ChainNumbers DEF Traced
    <3>10. Cardinality(Retried(p)') + b + Cardinality(Sleeping(p)')
             <= Cardinality(RowsOf(p, Terminal)')
      BY <3>6, <3>7, <3>9, ChainNumbers
    <3>11. \A k \in JobIds : jobs'[k].path = p =>
             timers'[k] <= 1 /\ (timers'[k] > 0 => jobs'[k].status \in Terminal)
      <4>1. \A k \in JobIds : k # j => jobs'[k] = jobs[k] /\ timers'[k] = timers[k]
        BY <1>4, <1>10
      <4>2. timers'[j] = 1 /\ jobs'[j].status \in Terminal
        BY <1>5, <2>5, <3>2 DEF Terminal
      <4> QED
        BY <2>1, <4>1, <4>2 DEF Traced
    <3>12. AnyStep' = AnyStep
      BY DEF AnyStep
    <3> QED
      BY <3>8, <3>10, <3>11, <3>12 DEF Traced
  <2> QED
    BY <1>3, <2>4, <2>5
<1> QED
  BY <1>9, <1>12 DEF Linked

\* A stop takes the calls and the sleeping tasks away, and a start takes up
\* only what is unfinished: the finished rows that are settled still pay for the
\* rows of the auto-retries, even if an id was lost.
LEMMA ChainRestart ==
  ASSUME TypeOK, TypeOK', IdsInserted, Quiet, Sleepers, NEW p \in Paths, Linked(p),
         Crash \/ ReconcileJobs \/ \E q \in Paths : ReconcileLedger(q)
  PROVE  Linked(p)'
<1>1. /\ \A j \in JobIds : timers'[j] = 0
      /\ \A c \in Callers : caller'[c].pc = "idle"
  <2>1. CASE Crash
    BY <2>1 DEF Crash, NoCaller
  <2>2. CASE ReconcileJobs \/ \E q \in Paths : ReconcileLedger(q)
    <3>1. phase # "up" /\ UNCHANGED <<timers, caller>>
      BY <2>2 DEF ReconcileJobs, ReconcileLedger
    <3>2. \A j \in JobIds : timers[j] \in Nat
      BY DEF TypeOK
    <3> QED
      BY <3>1, <3>2 DEF Quiet, Sleepers
  <2> QED
    BY <2>1, <2>2
<1>2. \A S \in {{"insert"}, {"cap", "insert"}, AnyStep} : Retrying(p, S)' = {}
  BY <1>1 DEF Retrying, AnyStep
<1>3. Retried(p)' \subseteq Retried(p) /\ Settled(p) \subseteq Settled(p)'
  <2>1. CASE Crash
    <3>1. jobs' = jobs /\ \A k \in JobIds : ~ Held(k)'
      BY <2>1 DEF Crash, NoTask, Held, InQueue
    <3> QED
      BY <3>1, RowsSettle DEF RetryRow
  <2>2. CASE ReconcileJobs
    <3>1. /\ task' = task
          /\ \A j \in JobIds : jobs'[j] = IF j \in Stale THEN [jobs[j] EXCEPT !.status = "queued"]
                                          ELSE jobs[j]
      BY <2>2 DEF ReconcileJobs
    <3>2. PICK ids \in [1..Cardinality(Stale) -> Stale] : queue' = ids
      BY <2>2 DEF ReconcileJobs
    <3>3. Stale \subseteq JobIds /\ \A j \in JobIds : j \in Stale <=> jobs[j].status \in Active
      BY DEF Stale
    <3>4. Len(ids) = Cardinality(Stale) /\ Cardinality(Stale) \in Nat
      BY <3>2, <3>3, QueueOfIds, JobIdsFinite
    <3>5. \A k \in JobIds : Held(k)' => Held(k) \/ k \in Stale
      BY <3>1, <3>2, <3>4 DEF Held, InQueue
    <3>6. \A k \in JobIds : jobs'[k].path = jobs[k].path /\ jobs'[k].trigger = jobs[k].trigger
      <4>1. \A k \in JobIds : jobs[k] \in JobRow
        BY DEF TypeOK
      <4> QED
        BY <3>1, <4>1 DEF JobRow
    <3>7. \A k \in JobIds : k \in Stale \/ jobs'[k] = jobs[k]
      BY <3>1
    <3>8. \A st \in Terminal : st \notin Active
      BY DEF Terminal, Active
    <3>9. \A k \in JobIds : RetryRow(p, k)' => RetryRow(p, k)
      BY <3>6 DEF RetryRow
    <3>10. ASSUME NEW k \in JobIds
           PROVE  /\ RetryRow(p, k)' =>
                       /\ RetryRow(p, k)
                       /\ jobs'[k].status \in Active \union Terminal =>
                            jobs[k].status \in Active \union Terminal \/ Held(k)
                  /\ Held(k)' => Held(k) \/ jobs[k].status \in Active
                  /\ jobs[k].status \in Terminal => Held(k) \/ jobs'[k] = jobs[k]
      <4>1. CASE k \in Stale
        BY <3>3, <3>8, <3>9, <4>1
      <4>2. CASE k \notin Stale
        BY <3>5, <3>7, <3>9, <4>2
      <4> QED
        BY <4>1, <4>2
    <3> QED
      BY <3>10, RowsSettle
  <2>3. ASSUME NEW q \in Paths, ReconcileLedger(q)
        PROVE  Retried(p)' \subseteq Retried(p) /\ Settled(p) \subseteq Settled(p)'
    <3>1. /\ nextId \in JobIds /\ queue' = Append(queue, nextId) /\ task' = task
          /\ jobs'[nextId] = NewJob(q, NoSeries, "startup-reconcile")
          /\ \A k \in JobIds : k # nextId => jobs'[k] = jobs[k]
          /\ q \in Orphans
      BY <2>3, OneEntry DEF ReconcileLedger
    <3>2. jobs'[nextId].trigger # "auto-retry"
      BY <3>1 DEF NewJob
    <3>3. \A k \in JobIds : Held(k)' => Held(k) \/ k = nextId
      BY <3>1 DEF Held, InQueue, TypeOK
    <3>4. Retried(p)' \subseteq Retried(p)
      BY <3>1, <3>2, <3>3 DEF Retried, RetryRow
    <3>5. jobs[nextId].status = "absent"
      BY <3>1, JobQueueAssumption DEF IdsInserted, TypeOK, JobIds, JobQueueAssumption
    <3>6. nextId \notin RowsOf(p, Terminal)
      BY <3>5 DEF RowsOf, Terminal
    <3>7. Settled(p) \subseteq Settled(p)'
      BY <3>1, <3>3, <3>6 DEF Settled, RowsOf
    <3> QED
      BY <3>4, <3>7
  <2> QED
    BY <2>1, <2>2, <2>3
<1>4. Chained(p)'
  <2>1. \A S \in {{"insert"}, {"cap", "insert"}} : Retrying(p, S)' \subseteq Retrying(p, S)
    BY <1>2
  <2> QED
    BY <1>3, <2>1, ChainStays DEF Linked
<1>5. Traced(p)'
  <2>1. Sleeping(p)' = {} /\ AnyStep' = AnyStep
    BY <1>1 DEF Sleeping, AnyStep
  <2>2. Settled(p)' \subseteq RowsOf(p, Terminal)' /\ RowsOf(p, Terminal)' \subseteq JobIds
    BY DEF Settled, RowsOf
  <2>3. /\ Cardinality(Settled(p)') <= Cardinality(RowsOf(p, Terminal)')
        /\ Cardinality(Settled(p)') \in Nat /\ Cardinality(RowsOf(p, Terminal)') \in Nat
    BY <2>2, SmallSets, Fewer
  <2>4. PICK k, b : /\ k = Cardinality(Retrying(p, {"cap", "insert"})')
                    /\ b = Cardinality(Retrying(p, AnyStep)')
    OBVIOUS
  <2>5. k = 0 /\ b = 0 /\ Cardinality(Sleeping(p)') = 0
    BY <1>2, <2>1, <2>4, FS_EmptySet
  <2>6. Cardinality(Retried(p)') + k <= Cardinality(Settled(p)')
    BY <1>4, <2>4 DEF Chained
  <2>7. Cardinality(Retried(p)') \in Nat
    BY <1>3, ChainNumbers, Fewer
  <2>8. Cardinality(Retried(p)') + b + Cardinality(Sleeping(p)')
          <= Cardinality(RowsOf(p, Terminal)')
    BY <2>3, <2>5, <2>6, <2>7
  <2> QED
    BY <1>1, <2>1, <2>4, <2>8 DEF Traced
<1> QED
  BY <1>4, <1>5 DEF Linked

\* Requests are counted up, so none so far means none before.
LEMMA NoRequest ==
  ASSUME TypeOK, [Next]_vars, requests' = 0
  PROVE  requests = 0 /\ \A c \in Callers : ~ ManualTranslate(c) /\ ~ RetrySelect(c)
<1>1. requests \in Nat
  BY JobQueueAssumption DEF TypeOK, JobQueueAssumption
<1>2. ASSUME NEW c \in Callers
      PROVE  ~ ManualTranslate(c) /\ ~ RetrySelect(c)
  <2>1. ManualTranslate(c) \/ RetrySelect(c) => requests' = requests + 1
    BY DEF ManualTranslate, RetrySelect
  <2> QED
    BY <1>1, <2>1
<1>3. requests' = requests \/ \E c \in Callers : ManualTranslate(c) \/ RetrySelect(c)
  <2>1. ASSUME NEW c \in Callers, CallerBegins(c) \/ CallerStep(c)
        PROVE  requests' = requests \/ ManualTranslate(c) \/ RetrySelect(c)
    BY <2>1 DEF CallerBegins, PollSweep, TimerFires, CallerStep, SweepItem, EnqueueDedup,
       EnqueueCap, EnqueueInsert, EnqueuePut, RetryReset, RetryPut
  <2>2. ASSUME NEW s \in Slots, Dispatch(s) \/ AcquireLock(s) \/ TaskStep(s)
        PROVE  requests' = requests
    BY <2>2 DEF Dispatch, AcquireLock, TaskStep, JobStart, Translate, TranslateSkip,
       TranslateBegin, TranslateDone, TranslateQuarantine, TranslateError, Leave,
       JobCommit, JobUnhandledError
  <2>3. Crash \/ Startup \/ UNCHANGED vars => requests' = requests
    BY DEF Crash, Startup, ReconcileJobs, ReconcileLedger, Serve, vars
  <2> QED
    BY <2>1, <2>2, <2>3 DEF Next
<1> QED
  BY <1>2, <1>3

\* No other step makes a manual retry.
LEMMA UnretriedStep ==
  ASSUME TypeOK, Unretried, [Next]_vars, requests' = 0
  PROVE  Unretried'
<1>1. ASSUME \A j \in JobIds : jobs'[j].trigger # "manual-retry",
             \A c \in Callers : \/ caller'[c] = caller[c]
                                \/ /\ caller'[c].pc \notin {"retry_reset", "retry_put"}
                                   /\ caller'[c].trigger # "manual-retry"
      PROVE  Unretried'
  BY <1>1 DEF Unretried
<1>2. ASSUME NEW c \in Callers, CallerBegins(c) \/ CallerStep(c)
      PROVE  /\ caller'[c].pc \notin {"retry_reset", "retry_put"}
             /\ caller'[c].trigger # "manual-retry"
             /\ \A d \in Callers : d # c => caller'[d] = caller[d]
  <2>1. /\ caller[c] \in Caller /\ caller[c].trigger # "manual-retry"
        /\ caller[c].pc \notin {"retry_reset", "retry_put"}
    BY DEF TypeOK, Unretried
  <2>2. ASSUME NEW new, CallerBecomes(c, new), new.trigger # "manual-retry",
               new.pc \notin {"retry_reset", "retry_put"}
        PROVE  /\ caller'[c].pc \notin {"retry_reset", "retry_put"}
               /\ caller'[c].trigger # "manual-retry"
               /\ \A d \in Callers : d # c => caller'[d] = caller[d]
    BY <2>2, OneEntry
  <2>3. /\ \A T : /\ [NoCaller EXCEPT !.pc = "sweep", !.todo = T].pc = "sweep"
                  /\ [NoCaller EXCEPT !.pc = "sweep", !.todo = T].trigger = "poll"
        /\ NoCaller.pc = "idle" /\ NoCaller.trigger = "poll"
    BY DEF NoCaller
  <2>4. \A p, k, t, T : EnqueueCall(p, k, t, T).pc = "dedup" /\ EnqueueCall(p, k, t, T).trigger = t
    BY DEF EnqueueCall
  <2>5. Returned(c).pc \in {"idle", "sweep"} /\ Returned(c).trigger = "poll"
    BY <2>3 DEF Returned
  <2>6. \A pc : [caller[c] EXCEPT !.pc = pc].pc = pc
                /\ [caller[c] EXCEPT !.pc = pc].trigger = caller[c].trigger
    BY <2>1 DEF Caller
  <2>7. CASE PollSweep(c) \/ TimerFires(c) \/ SweepItem(c)
    <3>1. CASE PollSweep(c)
      <4>1. PICK T : CallerBecomes(c, [NoCaller EXCEPT !.pc = "sweep", !.todo = T])
        BY <3>1 DEF PollSweep
      <4> QED
        BY <2>2, <2>3, <4>1
    <3>2. CASE TimerFires(c) \/ SweepItem(c)
      <4>1. PICK p, k, t, T : t # "manual-retry" /\ CallerBecomes(c, EnqueueCall(p, k, t, T))
        BY <3>2 DEF TimerFires, SweepItem
      <4> QED
        BY <2>2, <2>4, <4>1
    <3> QED
      BY <2>7, <3>1, <3>2
  <2>8. CASE EnqueueDedup(c) \/ EnqueueCap(c) \/ EnqueueInsert(c) \/ EnqueuePut(c)
    <3>1. \/ CallerBecomes(c, Returned(c))
          \/ \E pc \in {"cap", "insert", "put"} : CallerBecomes(c, [caller[c] EXCEPT !.pc = pc])
      BY <2>8 DEF EnqueueDedup, EnqueueCap, EnqueueInsert, EnqueuePut
    <3>2. CASE CallerBecomes(c, Returned(c))
      BY <2>2, <2>5, <3>2
    <3>3. ASSUME NEW pc \in {"cap", "insert", "put"}, CallerBecomes(c, [caller[c] EXCEPT !.pc = pc])
          PROVE  /\ caller'[c].pc \notin {"retry_reset", "retry_put"}
                 /\ caller'[c].trigger # "manual-retry"
                 /\ \A d \in Callers : d # c => caller'[d] = caller[d]
      BY <2>1, <2>2, <2>6, <3>3
    <3> QED
      BY <3>1, <3>2, <3>3
  <2>9. ~ RetryReset(c) /\ ~ RetryPut(c)
    BY <2>1 DEF RetryReset, RetryPut
  <2> QED
    BY <1>2, <2>7, <2>8, <2>9, NoRequest DEF CallerBegins, CallerStep
<1>3. ASSUME NEW j \in JobIds, NEW new, JobBecomes(j, new),
             new.trigger = jobs[j].trigger \/ new.trigger # "manual-retry"
      PROVE  \A k \in JobIds : jobs'[k].trigger # "manual-retry"
  BY <1>3, OneEntry DEF Unretried
<1>4. \A j \in JobIds : jobs[j] \in JobRow /\ jobs[j].trigger # "manual-retry"
  BY DEF TypeOK, Unretried
<1>5. ASSUME NEW c \in Callers, CallerBegins(c) \/ CallerStep(c)
      PROVE  \A k \in JobIds : jobs'[k].trigger # "manual-retry"
  <2>1. caller[c].trigger # "manual-retry" /\ ~ RetryReset(c)
    BY DEF Unretried, RetryReset
  <2>2. CASE EnqueueInsert(c)
    <3>1. PICK p, k, t : /\ nextId \in JobIds /\ JobBecomes(nextId, NewJob(p, k, t))
                         /\ t = caller[c].trigger
      BY <2>2 DEF EnqueueInsert
    <3>2. NewJob(p, k, t).trigger = t
      BY DEF NewJob
    <3> QED
      BY <1>3, <2>1, <3>1, <3>2
  <2>3. CASE ~ EnqueueInsert(c)
    <3>1. jobs' = jobs
      BY <1>5, <2>1, <2>3 DEF CallerBegins, PollSweep, ManualTranslate, TimerFires,
         RetrySelect, CallerStep, SweepItem, EnqueueDedup, EnqueueCap, EnqueuePut, RetryPut
    <3> QED
      BY <1>4, <3>1
  <2> QED
    BY <2>2, <2>3
<1>6. ASSUME NEW s \in Slots, Dispatch(s) \/ AcquireLock(s) \/ TaskStep(s)
      PROVE  caller' = caller /\ \A k \in JobIds : jobs'[k].trigger # "manual-retry"
  <2>1. CASE JobStart(s) \/ JobCommit(s) \/ JobUnhandledError(s)
    <3>1. PICK j \in JobIds : j = task[s].id
      BY <2>1 DEF JobStart, JobCommit, JobUnhandledError, TypeOK, Task
    <3>2. caller' = caller
      BY <2>1 DEF JobStart, JobCommit, JobUnhandledError
    <3>3. PICK new : JobBecomes(j, new) /\ new.trigger = jobs[j].trigger
      <4>1. /\ \A st : [jobs[j] EXCEPT !.status = st].trigger = jobs[j].trigger
            /\ [jobs[j] EXCEPT !.status = "running", !.attempts = @ + 1].trigger
                 = jobs[j].trigger
        BY <1>4 DEF JobRow
      <4>2. CASE JobStart(s)
        BY <3>1, <4>1, <4>2 DEF JobStart
      <4>3. CASE JobCommit(s) \/ JobUnhandledError(s)
        <5>1. PICK st : JobBecomes(j, [jobs[j] EXCEPT !.status = st])
          BY <3>1, <4>3 DEF JobCommit, JobUnhandledError
        <5> QED
          BY <4>1, <5>1
      <4> QED
        BY <2>1, <4>2, <4>3
    <3> QED
      BY <1>3, <3>2, <3>3
  <2>2. CASE Dispatch(s)
    BY <1>4, <2>2 DEF Dispatch
  <2>3. CASE AcquireLock(s) \/ Translate(s)
    BY <1>4, <2>3, Works
  <2> QED
    BY <1>6, <2>1, <2>2, <2>3 DEF TaskStep
<1>7. CASE Crash
  BY <1>1, <1>4, <1>7 DEF Crash, NoCaller
<1>8. CASE ReconcileJobs
  <2>1. /\ caller' = caller
        /\ \A j \in JobIds : jobs'[j] = IF j \in Stale THEN [jobs[j] EXCEPT !.status = "queued"]
                                        ELSE jobs[j]
    BY <1>8 DEF ReconcileJobs
  <2>2. \A j \in JobIds : jobs'[j].trigger = jobs[j].trigger
    BY <1>4, <2>1 DEF JobRow
  <2> QED
    BY <1>1, <1>4, <2>1, <2>2
<1>9. ASSUME NEW q \in Paths, ReconcileLedger(q)
      PROVE  Unretried'
  <2>1. PICK new : /\ nextId \in JobIds /\ JobBecomes(nextId, new) /\ caller' = caller
                   /\ new = NewJob(q, NoSeries, "startup-reconcile")
    BY <1>9 DEF ReconcileLedger
  <2>2. new.trigger # "manual-retry"
    BY <2>1 DEF NewJob
  <2> QED
    BY <1>1, <1>3, <2>1, <2>2
<1>10. CASE Serve \/ UNCHANGED vars
  BY <1>10 DEF Serve, vars, Unretried
<1> QED
  BY <1>1, <1>2, <1>5, <1>6, <1>7, <1>8, <1>9, <1>10 DEF Next, Startup

\* A sleeping task is only ever made for a row that exists, in a process that runs.
LEMMA SleepersStep ==
  ASSUME TypeOK, IdsInserted, Quiet, Sleepers, [Next]_vars
  PROVE  Sleepers'
<1>1. \A j \in JobIds : jobs[j].status # "absent" => jobs'[j].status # "absent"
  <2>1. \A j \in JobIds : j < nextId => jobs'[j].status # "absent"
    BY RowsKept DEF RowKept
  <2>2. nextId \in Nat /\ \A j \in JobIds : j \in Nat
    BY JobQueueAssumption DEF TypeOK, JobIds, JobQueueAssumption
  <2>3. \A j \in JobIds : j >= nextId => jobs[j].status = "absent"
    BY DEF IdsInserted
  <2> QED
    BY <2>1, <2>2, <2>3
<1>2. \A j \in JobIds : timers[j] \in Nat
  BY DEF TypeOK
<1>3. ASSUME \A j \in JobIds : timers'[j] > 0 => timers[j] > 0, phase' = phase
      PROVE  Sleepers'
  BY <1>1, <1>3 DEF Sleepers
<1>4. ASSUME NEW c \in Callers, CallerBegins(c) \/ CallerStep(c)
      PROVE  Sleepers'
  <2>1. CASE TimerFires(c)
    <3>1. PICK j \in JobIds : timers[j] > 0 /\ timers' = [timers EXCEPT ![j] = @ - 1]
      BY <2>1 DEF TimerFires
    <3>2. \A k \in JobIds : timers'[k] > 0 => timers[k] > 0
      BY <1>2, <3>1 DEF TypeOK
    <3> QED
      BY <1>3, <2>1, <3>2 DEF TimerFires
  <2>2. CASE ~ TimerFires(c)
    <3>1. UNCHANGED <<timers, phase>>
      BY <1>4, <2>2 DEF CallerBegins, PollSweep, ManualTranslate, RetrySelect, CallerStep,
         SweepItem, EnqueueDedup, EnqueueCap, EnqueueInsert, EnqueuePut, RetryReset, RetryPut
    <3> QED
      BY <1>3, <3>1
  <2> QED
    BY <2>1, <2>2
<1>5. ASSUME NEW s \in Slots, Dispatch(s) \/ AcquireLock(s) \/ TaskStep(s)
      PROVE  Sleepers'
  <2>1. CASE JobCommit(s)
    <3>1. PICK j \in JobIds : j = task[s].id /\ task[s].pc = "commit"
      BY <2>1 DEF JobCommit, TypeOK, Task
    <3>2. phase = "up" /\ phase' = "up"
      BY <2>1, <3>1 DEF JobCommit, Quiet
    <3>3. jobs[j].status # "absent"
      <4>1. j < nextId /\ j \in Nat /\ nextId \in Nat
        BY <3>1, JobQueueAssumption DEF IdsInserted, TypeOK, JobIds, JobQueueAssumption
      <4> QED
        BY <4>1 DEF IdsInserted
    <3>4. \A k \in JobIds : k # j => timers'[k] = timers[k]
      BY <2>1, <3>1 DEF JobCommit, TypeOK
    <3> QED
      BY <1>1, <3>2, <3>3, <3>4 DEF Sleepers
  <2>2. CASE ~ JobCommit(s)
    <3>1. UNCHANGED <<timers, phase>>
      BY <1>5, <2>2 DEF Dispatch, AcquireLock, TaskStep, JobStart, Translate, TranslateSkip,
         TranslateBegin, TranslateDone, TranslateQuarantine, TranslateError, Leave,
         JobUnhandledError
    <3> QED
      BY <1>3, <3>1
  <2> QED
    BY <2>1, <2>2
<1>6. CASE Crash
  BY <1>6 DEF Crash, Sleepers
<1>7. CASE Startup
  <2>1. phase # "up" /\ timers' = timers
    BY <1>7 DEF Startup, ReconcileJobs, ReconcileLedger, Serve
  <2> QED
    BY <2>1 DEF Sleepers
<1>8. CASE UNCHANGED vars
  BY <1>3, <1>8 DEF vars
<1> QED
  BY <1>4, <1>5, <1>6, <1>7, <1>8 DEF Next

\* At first there is nothing to count.
LEMMA RetryInit == Init => RetryInv
<1> SUFFICES ASSUME Init
             PROVE  RetryInv
  OBVIOUS
<1>1. /\ queue = <<>>
      /\ \A j \in JobIds : jobs[j].path = NoPath /\ jobs[j].trigger = "poll" /\ timers[j] = 0
      /\ \A c \in Callers : caller[c].pc = "idle" /\ caller[c].trigger = "poll"
  BY DEF Init, NoJob, NoCaller
<1>2. Sleepers /\ Unretried
  BY <1>1 DEF Sleepers, Unretried
<1>3. ASSUME NEW p \in Paths
      PROVE  Linked(p)
  <2>1. /\ Retried(p) = {} /\ Sleeping(p) = {} /\ RowsOf(p, Terminal) = {}
        /\ \A S : Retrying(p, S) = {}
    BY <1>1, JobQueueAssumption
       DEF Retried, RetryRow, Sleeping, RowsOf, Retrying, JobQueueAssumption
  <2>2. Settled(p) = {}
    BY <2>1 DEF Settled
  <2>3. Chained(p)
    BY <2>1, <2>2, FS_EmptySet, RetryCapIsMax DEF Chained
  <2>4. Traced(p)
    <3>1. \A j \in JobIds : jobs[j].path # p
      BY <1>1, JobQueueAssumption DEF JobQueueAssumption
    <3> QED
      BY <2>1, <3>1, FS_EmptySet DEF Traced
  <2> QED
    BY <2>3, <2>4 DEF Linked
<1> QED
  BY <1>2, <1>3 DEF RetryInv

\* Every step keeps the count of the auto-retries of a path.
LEMMA LinkedStep ==
  ASSUME TypeOK, TypeOK', IdsInserted, Quiet, Marked, Sleepers, Unretried, requests' = 0,
         [Next]_vars, NEW p \in Paths, \A t \in Plain : Counted(p, t), Linked(p)
  PROVE  Linked(p)'
<1>1. CASE Crash \/ ReconcileJobs \/ \E q \in Paths : ReconcileLedger(q)
  BY <1>1, ChainRestart
<1>2. CASE ~ (Crash \/ ReconcileJobs \/ \E q \in Paths : ReconcileLedger(q))
  <2>1. NoneLost(p)' => NoneLost(p)
    <3>1. \A t \in Plain : Matched(p, t)' => Matched(p, t)
      BY <1>2, CountStep
    <3> QED
      BY <3>1 DEF NoneLost
  <2>2. ASSUME NEW c \in Callers, CallerBegins(c) \/ CallerStep(c)
        PROVE  Linked(p)'
    <3>1. ~ RetryReset(c) /\ ~ RetryPut(c)
      BY DEF Unretried, RetryReset, RetryPut
    <3>2. CASE CallerBegins(c) \/ SweepItem(c) \/ EnqueueDedup(c) \/ EnqueueCap(c)
      BY <2>1, <3>2, ChainThinks
    <3>3. CASE EnqueueInsert(c)
      BY <2>1, <3>3, ChainInsert
    <3>4. CASE EnqueuePut(c)
      BY <2>1, <3>4, ChainPut
    <3> QED
      BY <2>2, <3>1, <3>2, <3>3, <3>4 DEF CallerStep
  <2>3. ASSUME NEW s \in Slots, Dispatch(s) \/ AcquireLock(s) \/ TaskStep(s)
        PROVE  Linked(p)'
    <3>1. CASE Dispatch(s)
      <4>1. /\ queue # <<>> /\ queue' = Tail(queue) /\ UNCHANGED <<jobs, caller, timers>>
            /\ task'[s] = [NoTask EXCEPT !.pc = "start", !.id = Head(queue)]
            /\ \A u \in Slots : u # s => task'[u] = task[u]
        BY <3>1, OneEntry DEF Dispatch
      <4>2. task'[s].id = queue[1] /\ 1 \in 1..Len(queue)
        BY <4>1 DEF NoTask, TypeOK
      <4>3. \A i \in 1..Len(queue') : i + 1 \in 1..Len(queue) /\ queue'[i] = queue[i + 1]
        BY <4>1 DEF TypeOK
      <4>4. ASSUME NEW k \in JobIds, Held(k)'
            PROVE  Held(k)
        <5>1. CASE InQueue(k)'
          BY <4>3, <5>1 DEF InQueue, Held
        <5>2. CASE \E u \in Slots : task'[u].pc # "idle" /\ task'[u].id = k
          BY <4>1, <4>2, <5>2 DEF InQueue, Held
        <5> QED
          BY <4>4, <5>1, <5>2 DEF Held
      <4> QED
        BY <2>1, <4>1, <4>4, ChainWorks
    <3>2. CASE AcquireLock(s) \/ Translate(s)
      <4>1. /\ UNCHANGED <<jobs, queue, caller>> /\ task[s].pc # "idle"
            /\ \A u \in Slots : task'[u].id = task[u].id
                                /\ (task'[u].pc # "idle" => task[u].pc # "idle")
        BY <3>2, Works
      <4>2. \A k \in JobIds : Held(k)' => Held(k)
        BY <4>1 DEF Held, InQueue
      <4>3. timers' = timers
        BY <3>2 DEF AcquireLock, Translate, TranslateSkip, TranslateBegin, TranslateDone,
           TranslateQuarantine, TranslateError, Leave
      <4> QED
        BY <2>1, <4>1, <4>2, <4>3, ChainWorks
    <3>3. CASE JobStart(s)
      BY <2>1, <3>3, ChainStart
    <3>4. CASE JobCommit(s) \/ JobUnhandledError(s)
      BY <2>1, <3>4, ChainEnd
    <3> QED
      BY <2>3, <3>1, <3>2, <3>3, <3>4 DEF TaskStep
  <2>4. CASE Serve \/ UNCHANGED vars
    <3>1. UNCHANGED <<jobs, caller, timers, queue, task>>
      BY <2>4 DEF Serve, vars
    <3>2. \A k \in JobIds : Held(k)' => Held(k)
      BY <3>1 DEF Held, InQueue
    <3> QED
      BY <2>1, <3>1, <3>2, ChainWorks
  <2> QED
    BY <1>2, <2>2, <2>3, <2>4 DEF Next, Startup
<1> QED
  BY <1>1, <1>2

\* The invariant of the auto-retries is inductive.
LEMMA RetryStep == IInv /\ IInv' /\ BudgetInv /\ RetryInv /\ [Next]_vars => RetryInv'
<1> SUFFICES ASSUME IInv, IInv', BudgetInv, RetryInv, [Next]_vars
             PROVE  RetryInv'
  OBVIOUS
<1>1. /\ TypeOK /\ TypeOK' /\ IdsInserted /\ Quiet /\ Marked /\ Sleepers
      /\ \A p \in Paths, t \in Plain : Counted(p, t)
  BY DEF IInv, BudgetInv, RetryInv
<1>2. Sleepers'
  BY <1>1, SleepersStep
<1>3. ASSUME requests' = 0
      PROVE  Unretried' /\ \A p \in Paths : Linked(p)'
  <2>1. requests = 0
    BY <1>1, <1>3, NoRequest
  <2>2. Unretried /\ \A p \in Paths : Linked(p)
    BY <2>1 DEF RetryInv
  <2> QED
    BY <1>1, <1>3, <2>2, UnretriedStep, LinkedStep
<1> QED
  BY <1>2, <1>3 DEF RetryInv

\* The count of the auto-retries holds in every reachable state.
THEOREM RetryHolds == Spec => []RetryInv
BY RetryInit, RetryStep, BudgetHolds, InvariantHolds, PTL DEF Spec

\* AutoRetryBudget: as long as no user interferes, the auto-retry task inserts
\* fewer rows for a path than job_auto_retry_max, so that max=2 yields at most one
\* auto-retry after the initial run, whatever the sweeps, the other callers and
\* the crashes do meanwhile.
THEOREM AutoRetryBudgetAlways == Spec => []AutoRetryBudget
<1>1. RetryInv => AutoRetryBudget
  <2> SUFFICES ASSUME RetryInv, requests = 0, NEW p \in Paths
               PROVE  Cardinality({j \in AutoRows(p) : jobs[j].trigger = "auto-retry"})
                        < Max({JobAutoRetryMax, 1})
    BY DEF AutoRetryBudget
  <2> DEFINE retries == {j \in AutoRows(p) : jobs[j].trigger = "auto-retry"}
  <2>1. retries \subseteq Retried(p)
    BY DEF AutoRows, RowsOf, Retried, RetryRow
  <2>2. Cardinality(retries) <= Cardinality(Retried(p)) /\ Cardinality(retries) \in Nat
    BY <2>1, ChainNumbers, Fewer
  <2>3. Cardinality(Retried(p)) + Cardinality(Retrying(p, {"insert"})) < RetryCap
    BY DEF RetryInv, Linked, Chained
  <2>4. Cardinality(Retrying(p, {"insert"})) \in Nat /\ Cardinality(Retried(p)) \in Nat
    BY ChainNumbers
  <2>5. RetryCap = Max({JobAutoRetryMax, 1}) /\ RetryCap \in Nat
    BY RetryCapIsMax DEF RetryCap
  <2> HIDE DEF retries
  <2>6. Cardinality(retries) < RetryCap
    BY <2>2, <2>3, <2>4, <2>5
  <2> QED
    BY <2>5, <2>6 DEF retries
<1> QED
  BY <1>1, RetryHolds, PTL
=============================================================================
