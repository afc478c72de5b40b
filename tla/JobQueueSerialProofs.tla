------------------------- MODULE JobQueueSerialProofs -------------------------
(***************************************************************************)
(* Theorems of JobQueue when the calls of enqueue_job and retry_job that   *)
(* are past their first SELECT stay apart: the condition under which the   *)
(* deduplication of enqueue_job (D-66) is sound.  Any number of callers    *)
(* may be inside at once.  Two of them that are not apart make             *)
(* NoStrandedJob and DispatchedOnce false (run queue_stranded).            *)
(***************************************************************************)
EXTENDS JobQueueProofs

\* enqueue_job has found no duplicate, or retry_job a failed row, and the call
\* has not put an id yet.
Enqueuing(c) == caller[c].pc \in {"cap", "insert", "put"}
Retrying(c)  == caller[c].pc \in {"retry_reset", "retry_put"}

\* No two such calls are for the same row: two of enqueue_job differ in path or
\* trigger (what the second SELECT of enqueue_job looks the row up by), two of
\* retry_job in their job.  A retry may run beside an enqueue of its path.
Apart ==
  \A c, d \in Callers : c # d =>
    /\ Enqueuing(c) /\ Enqueuing(d) =>
         caller[c].path # caller[d].path \/ caller[c].trigger # caller[d].trigger
    /\ Retrying(c) /\ Retrying(d) => caller[c].id # caller[d].id

-----------------------------------------------------------------------------
(***************************************************************************)
(* The inductive invariant.  DispatchedOnce says where an id is, not what  *)
(* its row says, and nothing of the coroutines that are about to put an    *)
(* id: between its dedup and its put a caller relies on a row that no      *)
(* other step touches.                                                     *)
(***************************************************************************)

\* Neither the queue nor a task has the id.
Waits(j) == ~ InQueue(j) /\ ~ Executed(j)

\* The status of a row tells where its id is.
StatusTells ==
  /\ \A j \in JobIds : InQueue(j) => jobs[j].status = "queued"
  /\ \A s \in Slots :
       /\ task[s].pc = "idle" => task[s].id = 0
       /\ task[s].pc = "start" => jobs[task[s].id].status = "queued"
       /\ task[s].pc \notin {"idle", "start"} => jobs[task[s].id].status = "running"

\* What enqueue_job and retry_job found out still holds when they act on it.
\* Only retry_job marks a row manual-retry, so no put of enqueue_job finds it.
CallerSound(c) ==
  /\ caller[c].trigger # "manual-retry"
  /\ caller[c].pc \in {"cap", "insert"} => Found(c) = {}
  /\ caller[c].pc = "put" => \E j \in JobIds : Found(c) = {j} /\ Waits(j)
  /\ caller[c].pc = "retry_reset" => jobs[caller[c].id].status \in Terminal
  /\ caller[c].pc = "retry_put" => /\ jobs[caller[c].id].status = "queued"
                                   /\ jobs[caller[c].id].trigger = "manual-retry"
                                   /\ Waits(caller[c].id)

InHand(j) == InQueue(j) \/ Executed(j) \/ BeingPut(j)

\* NoStrandedJob from the first step of the start-up on.
NoneStranded ==
  phase # "down" => \A j \in JobIds : jobs[j].status \in Active => InHand(j)

SerialInv ==
  /\ DispatchedOnce
  /\ StatusTells
  /\ \A c \in Callers : CallerSound(c)
  /\ Quiet
  /\ NoneStranded

-----------------------------------------------------------------------------
(* Where an id is after a step of the queue, the tables and a row. *)

QueueOnce == \A x, y \in 1..Len(queue) : queue[x] = queue[y] => x = y

\* A put adds its id to the queue, and an id that was not there only once.
LEMMA PutAdds ==
  ASSUME queue \in Seq(JobIds), NEW j \in JobIds, queue' = Append(queue, j)
  PROVE  /\ \A k : InQueue(k)' <=> InQueue(k) \/ k = j
         /\ QueueOnce /\ ~ InQueue(j) => QueueOnce'
<1>1. /\ Len(queue') = Len(queue) + 1
      /\ Len(queue) \in Nat
      /\ \A i \in 1..Len(queue) : queue'[i] = queue[i]
      /\ queue'[Len(queue) + 1] = j
  OBVIOUS
<1>2. ASSUME NEW k
      PROVE  InQueue(k)' <=> InQueue(k) \/ k = j
  <2>1. \A i : i \in 1..Len(queue') <=> i \in 1..Len(queue) \/ i = Len(queue) + 1
    BY <1>1
  <2> QED
    BY <1>1, <2>1 DEF InQueue
<1>3. ASSUME QueueOnce, ~ InQueue(j)
      PROVE  QueueOnce'
  <2>1. ASSUME NEW x \in 1..Len(queue'), NEW y \in 1..Len(queue'), queue'[x] = queue'[y]
        PROVE  x = y
    BY <1>1, <1>3, <2>1 DEF QueueOnce, InQueue
  <2> QED
    BY <2>1 DEF QueueOnce
<1> QED
  BY <1>2, <1>3

\* worker_loop takes the only entry of an id.
LEMMA TakeRemoves ==
  ASSUME queue \in Seq(JobIds), queue # <<>>, queue' = Tail(queue), QueueOnce
  PROVE  /\ Head(queue) \in JobIds /\ InQueue(Head(queue))
         /\ \A k : InQueue(k)' <=> InQueue(k) /\ k # Head(queue)
         /\ QueueOnce'
<1>1. /\ Len(queue) \in Nat /\ Len(queue) >= 1
      /\ Len(queue') = Len(queue) - 1
      /\ \A i \in 1..Len(queue') : queue'[i] = queue[i + 1]
      /\ Head(queue) = queue[1]
      /\ Head(queue) \in JobIds
  OBVIOUS
<1>2. InQueue(Head(queue))
  BY <1>1 DEF InQueue
<1>3. ASSUME NEW k, InQueue(k)'
      PROVE  InQueue(k) /\ k # Head(queue)
  <2>1. PICK i \in 1..Len(queue') : queue'[i] = k
    BY <1>3 DEF InQueue
  <2>2. i + 1 \in 1..Len(queue) /\ queue[i + 1] = k /\ i + 1 # 1 /\ 1 \in 1..Len(queue)
    BY <1>1, <2>1
  <2> QED
    BY <1>1, <2>2 DEF InQueue, QueueOnce
<1>4. ASSUME NEW k, InQueue(k), k # Head(queue)
      PROVE  InQueue(k)'
  <2>1. PICK i \in 1..Len(queue) : queue[i] = k
    BY <1>4 DEF InQueue
  <2>2. i - 1 \in 1..Len(queue') /\ queue'[i - 1] = k
    BY <1>1, <1>4, <2>1
  <2> QED
    BY <2>2 DEF InQueue
<1>5. QueueOnce'
  <2>1. ASSUME NEW x \in 1..Len(queue'), NEW y \in 1..Len(queue'), queue'[x] = queue'[y]
        PROVE  x = y
    <3>1. x + 1 \in 1..Len(queue) /\ y + 1 \in 1..Len(queue)
      BY <1>1
    <3> QED
      BY <1>1, <2>1, <3>1 DEF QueueOnce
  <2> QED
    BY <2>1 DEF QueueOnce
<1> QED
  BY <1>1, <1>2, <1>3, <1>4, <1>5

\* A queue that stays has the same ids.
LEMMA QueueStays ==
  ASSUME queue' = queue
  PROVE  /\ \A k : InQueue(k)' <=> InQueue(k)
         /\ QueueOnce <=> QueueOnce'
BY DEF InQueue, QueueOnce

\* The rows that the put of a caller may choose from.
LEMMA FoundIs ==
  \A c, j : j \in Found(c) <=> /\ j \in JobIds
                               /\ jobs[j].path = caller[c].path
                               /\ jobs[j].status = "queued"
                               /\ jobs[j].trigger = caller[c].trigger
BY DEF Found, RowsOf

-----------------------------------------------------------------------------
(* The callers that a step is not about. *)

\* The caller may put the id next.
Puts(c, j) == \/ caller[c].pc = "put" /\ j \in Found(c)
              \/ caller[c].pc = "retry_put" /\ caller[c].id = j

\* A caller that does not move stays sound if the step leaves it the rows it
\* found, the row it retries, and the id it puts in nobody's hands.
LEMMA StaysSound ==
  ASSUME TypeOK, NEW d \in Callers, CallerSound(d), caller'[d] = caller[d],
         Enqueuing(d) => Found(d)' = Found(d),
         Retrying(d) => jobs'[caller[d].id] = jobs[caller[d].id],
         \A j \in JobIds : Puts(d, j) /\ Waits(j) => ~ InQueue(j)' /\ ~ Executed(j)'
  PROVE  CallerSound(d)'
<1>1. caller[d] \in Caller
  BY DEF TypeOK
<1>2. CASE caller[d].pc \in {"cap", "insert"}
  BY <1>2 DEF CallerSound, Enqueuing
<1>3. CASE caller[d].pc = "put"
  <2>1. PICK j \in JobIds : Found(d) = {j} /\ Waits(j)
    BY <1>3 DEF CallerSound
  <2>2. Found(d)' = {j} /\ ~ InQueue(j)' /\ ~ Executed(j)'
    BY <1>3, <2>1 DEF Enqueuing, Puts
  <2> QED
    BY <1>3, <2>2 DEF CallerSound, Waits
<1>4. CASE caller[d].pc \in {"retry_reset", "retry_put"}
  <2>1. PICK j \in JobIds : j = caller[d].id
    BY <1>1, <1>4 DEF TypeOK, Caller
  <2>2. jobs'[j] = jobs[j]
    BY <1>4, <2>1 DEF Retrying
  <2>3. caller[d].pc = "retry_put" => ~ InQueue(j)' /\ ~ Executed(j)'
    BY <2>1 DEF CallerSound, Puts
  <2> QED
    BY <1>4, <2>1, <2>2, <2>3 DEF CallerSound, Waits, InQueue, Executed
<1>5. CASE caller[d].pc \in {"idle", "sweep", "dedup"}
  BY <1>5 DEF CallerSound
<1> QED
  BY <1>1, <1>2, <1>3, <1>4, <1>5 DEF Caller, CallerPc

\* A row that a caller puts is being put, before and after a step that leaves
\* the caller and the row alone.
LEMMA PutStays ==
  ASSUME NEW d \in Callers, NEW j \in JobIds, Puts(d, j)
  PROVE  /\ BeingPut(j)
         /\ caller'[d] = caller[d] /\ jobs'[j] = jobs[j] => BeingPut(j)'
BY DEF BeingPut, Puts, Found, RowsOf

\* An id that is being put has its caller.
LEMMA PutBy ==
  ASSUME NEW j, BeingPut(j)
  PROVE  \E d \in Callers : Puts(d, j)
BY DEF BeingPut, Puts

-----------------------------------------------------------------------------
(* The callers' steps. *)

\* A caller that only thinks leaves everything in the same hands.
LEMMA CallerThinks ==
  ASSUME TypeOK, SerialInv, NEW c \in Callers, NEW new, CallerBecomes(c, new),
         UNCHANGED <<phase, jobs, queue, task>>, phase = "up",
         caller[c].pc \notin {"put", "retry_put"}, CallerSound(c)'
  PROVE  SerialInv'
<1>1. /\ \A k : InQueue(k)' <=> InQueue(k)
      /\ \A k : Executed(k)' <=> Executed(k)
  BY DEF InQueue, Executed
<1>2. DispatchedOnce' /\ StatusTells'
  BY <1>1 DEF SerialInv, DispatchedOnce, StatusTells, InQueue
<1>3. \A d \in Callers : d # c => caller'[d] = caller[d]
  BY OneEntry
<1>4. ASSUME NEW d \in Callers, d # c
      PROVE  CallerSound(d)'
  <2>1. caller'[d] = caller[d] /\ CallerSound(d)
    BY <1>3, <1>4 DEF SerialInv
  <2>2. Found(d)' = Found(d)
    BY <2>1 DEF Found, RowsOf
  <2> QED
    BY <1>1, <2>1, <2>2, StaysSound DEF Waits
<1>5. Quiet'
  BY DEF SerialInv, Quiet
<1>6. NoneStranded'
  <2>1. ASSUME NEW j \in JobIds, BeingPut(j)
        PROVE  BeingPut(j)'
    <3>1. PICK d \in Callers : Puts(d, j)
      BY <2>1, PutBy
    <3>2. caller'[d] = caller[d]
      BY <1>3, <3>1 DEF Puts
    <3> QED
      BY <3>1, <3>2, PutStays
  <2> QED
    BY <1>1, <2>1 DEF SerialInv, NoneStranded, InHand
<1> QED
  BY <1>2, <1>4, <1>5, <1>6 DEF SerialInv

\* A call that begins: a sweep, a request, a timer, a retry of a failed row.
LEMMA SerialBegins ==
  ASSUME TypeOK, SerialInv, NEW c \in Callers, CallerBegins(c)
  PROVE  SerialInv'
<1>1. /\ caller[c] = NoCaller /\ phase = "up"
      /\ UNCHANGED <<phase, jobs, queue, task>>
  BY DEF CallerBegins, PollSweep, ManualTranslate, TimerFires, RetrySelect
<1>2. caller[c].pc = "idle"
  BY <1>1 DEF NoCaller
<1>3. CASE RetrySelect(c)
  <2>1. PICK j \in JobIds :
          /\ jobs[j].status \in Retriable
          /\ CallerBecomes(c, [NoCaller EXCEPT !.pc = "retry_reset", !.id = j])
    BY <1>3 DEF RetrySelect
  <2>2. caller'[c] = [NoCaller EXCEPT !.pc = "retry_reset", !.id = j]
    BY <2>1, OneEntry
  <2>3. /\ caller'[c].pc = "retry_reset" /\ caller'[c].id = j
        /\ caller'[c].trigger = "poll"
    BY <2>2 DEF NoCaller
  <2>4. CallerSound(c)'
    BY <1>1, <2>1, <2>3 DEF CallerSound, Retriable
  <2> QED
    BY <1>1, <1>2, <2>1, <2>4, CallerThinks
<1>4. CASE PollSweep(c) \/ ManualTranslate(c) \/ TimerFires(c)
  <2>1. PICK new : /\ CallerBecomes(c, new) /\ new.pc \in {"sweep", "dedup"}
                   /\ new.trigger # "manual-retry"
    <3>1. CASE PollSweep(c)
      <4>1. PICK T : CallerBecomes(c, [NoCaller EXCEPT !.pc = "sweep", !.todo = T])
        BY <3>1 DEF PollSweep
      <4>2. /\ [NoCaller EXCEPT !.pc = "sweep", !.todo = T].pc = "sweep"
            /\ [NoCaller EXCEPT !.pc = "sweep", !.todo = T].trigger = "poll"
        BY DEF NoCaller
      <4> QED
        BY <4>1, <4>2
    <3>2. CASE ManualTranslate(c) \/ TimerFires(c)
      <4>1. PICK p, k, t : /\ t \in {"manual", "auto-retry"}
                           /\ CallerBecomes(c, EnqueueCall(p, k, t, {}))
        BY <3>2 DEF ManualTranslate, TimerFires
      <4>2. EnqueueCall(p, k, t, {}).pc = "dedup" /\ EnqueueCall(p, k, t, {}).trigger = t
        BY DEF EnqueueCall
      <4> QED
        BY <4>1, <4>2
    <3> QED
      BY <1>4, <3>1, <3>2
  <2>2. caller'[c].pc \in {"sweep", "dedup"} /\ caller'[c].trigger # "manual-retry"
    BY <2>1, OneEntry
  <2>3. CallerSound(c)'
    BY <2>2 DEF CallerSound
  <2> QED
    BY <1>1, <1>2, <2>1, <2>3, CallerThinks
<1> QED
  BY <1>3, <1>4 DEF CallerBegins

\* enqueue_job hands control back: its caller goes on as a sweep or ends.
LEMMA ReturnsSound ==
  ASSUME TypeOK, NEW c \in Callers, CallerBecomes(c, Returned(c))
  PROVE  CallerSound(c)' /\ caller'[c].pc \in {"idle", "sweep"}
<1>1. caller'[c] = Returned(c)
  BY OneEntry
<1>2. Returned(c).trigger = "poll"
  BY DEF Returned, NoCaller
<1>3. caller'[c].pc \in {"idle", "sweep"} /\ caller'[c].trigger = "poll"
  BY <1>1, <1>2, ReturnedType
<1> QED
  BY <1>3 DEF CallerSound

\* The loop of a sweep, the deduplication and the cap.
LEMMA SerialThinks ==
  ASSUME TypeOK, SerialInv, NEW c \in Callers,
         SweepItem(c) \/ EnqueueDedup(c) \/ EnqueueCap(c)
  PROVE  SerialInv'
<1>1. /\ caller[c].pc \in {"sweep", "dedup", "cap"}
      /\ UNCHANGED <<phase, jobs, queue, task>>
  BY DEF SweepItem, EnqueueDedup, EnqueueCap
<1>2. phase = "up"
  BY <1>1 DEF SerialInv, Quiet
<1>3. caller[c] \in Caller /\ caller[c].trigger # "manual-retry"
  BY DEF TypeOK, SerialInv, CallerSound
<1>4. ASSUME CallerBecomes(c, Returned(c))
      PROVE  SerialInv'
  BY <1>1, <1>2, <1>4, ReturnsSound, CallerThinks
\* A call that goes on with nothing queued that its put could find.
<1>5. ASSUME NEW pc \in {"cap", "insert"}, Found(c) = {},
             CallerBecomes(c, [caller[c] EXCEPT !.pc = pc])
      PROVE  SerialInv'
  <2>1. caller'[c] = [caller[c] EXCEPT !.pc = pc]
    BY <1>5, OneEntry
  <2>2. /\ caller'[c].pc = pc /\ caller'[c].path = caller[c].path
        /\ caller'[c].trigger = caller[c].trigger
    BY <1>3, <2>1 DEF Caller
  <2>3. Found(c)' = {}
    BY <1>1, <1>5, <2>2 DEF Found, RowsOf
  <2>4. CallerSound(c)'
    BY <1>3, <2>2, <2>3 DEF CallerSound
  <2> QED
    BY <1>1, <1>2, <1>5, <2>4, CallerThinks
<1>6. CASE SweepItem(c)
  <2>1. PICK p, k, T : CallerBecomes(c, EnqueueCall(p, k, "poll", T))
    BY <1>6 DEF SweepItem
  <2>2. caller'[c].pc = "dedup" /\ caller'[c].trigger = "poll"
    BY <2>1, OneEntry DEF EnqueueCall
  <2>3. CallerSound(c)'
    BY <2>2 DEF CallerSound
  <2> QED
    BY <1>1, <1>2, <2>1, <2>3, CallerThinks
<1>7. CASE EnqueueDedup(c)
  <2>1. CASE IsDuplicate(caller[c].path)
    BY <1>4, <1>7, <2>1 DEF EnqueueDedup
  <2>2. CASE ~ IsDuplicate(caller[c].path)
    <3>1. PICK next \in {"cap", "insert"} : CallerBecomes(c, [caller[c] EXCEPT !.pc = next])
      BY <1>7, <2>2 DEF EnqueueDedup
    <3>2. Found(c) = {}
      BY <2>2 DEF IsDuplicate, Found, RowsOf, Active
    <3> QED
      BY <1>5, <3>1, <3>2
  <2> QED
    BY <2>1, <2>2
<1>8. CASE EnqueueCap(c)
  <2>1. CASE CapReached(caller[c].path, caller[c].trigger)
    BY <1>4, <1>8, <2>1 DEF EnqueueCap
  <2>2. CASE ~ CapReached(caller[c].path, caller[c].trigger)
    <3>1. caller[c].pc = "cap" /\ CallerBecomes(c, [caller[c] EXCEPT !.pc = "insert"])
      BY <1>8, <2>2 DEF EnqueueCap
    <3>2. Found(c) = {}
      BY <3>1 DEF SerialInv, CallerSound
    <3> QED
      BY <1>5, <3>1, <3>2
  <2> QED
    BY <2>1, <2>2
<1> QED
  BY <1>6, <1>7, <1>8

\* The INSERT: the new row is the only one the put can find.
LEMMA SerialInsert ==
  ASSUME Apart, TypeOK, IdsInserted, SerialInv, NEW c \in Callers, EnqueueInsert(c)
  PROVE  SerialInv'
<1> DEFINE new == NewJob(caller[c].path, caller[c].key, caller[c].trigger)
<1>1. /\ caller[c].pc = "insert" /\ nextId \in JobIds
      /\ \A k \in JobIds : jobs'[k] = IF k = nextId THEN new ELSE jobs[k]
      /\ \A d \in Callers : d # c => caller'[d] = caller[d]
      /\ UNCHANGED <<phase, queue, task>>
  BY OneEntry DEF EnqueueInsert
<1>2. /\ new.path = caller[c].path /\ new.status = "queued"
      /\ new.trigger = caller[c].trigger
  BY DEF NewJob
<1>3. /\ caller[c] \in Caller
      /\ caller'[c] = [caller[c] EXCEPT !.pc = "put"]
  BY OneEntry DEF EnqueueInsert, TypeOK
<1>4. /\ caller'[c].pc = "put" /\ caller'[c].path = caller[c].path
      /\ caller'[c].trigger = caller[c].trigger
  BY <1>3 DEF Caller
<1> HIDE DEF new
<1>5. phase = "up"
  BY <1>1 DEF SerialInv, Quiet
<1>6. jobs[nextId].status = "absent"
  BY <1>1, JobQueueAssumption DEF IdsInserted, TypeOK, JobIds, JobQueueAssumption
<1>7. /\ \A k : InQueue(k)' <=> InQueue(k)
      /\ \A k : Executed(k)' <=> Executed(k)
  BY <1>1 DEF InQueue, Executed
<1>8. Waits(nextId)
  <2>1. ~ InQueue(nextId)
    BY <1>1, <1>6 DEF SerialInv, StatusTells
  <2>2. ~ Executed(nextId)
    <3>1. ASSUME NEW s \in Slots, task[s].id = nextId
          PROVE  FALSE
      BY <1>1, <1>6, <3>1, JobQueueAssumption
         DEF SerialInv, StatusTells, JobIds
    <3> QED
      BY <3>1 DEF Executed
  <2> QED
    BY <2>1, <2>2 DEF Waits
<1>9. DispatchedOnce'
  BY <1>1, <1>7 DEF SerialInv, DispatchedOnce
<1>10. StatusTells'
  <2>1. \A j \in JobIds : InQueue(j) => jobs'[j].status = "queued"
    BY <1>1, <1>2 DEF SerialInv, StatusTells
  <2>2. ASSUME NEW s \in Slots, task[s].pc # "idle"
        PROVE  jobs'[task[s].id] = jobs[task[s].id]
    <3>1. task[s].id \in JobIds
      BY <2>2 DEF TypeOK, Task
    <3> QED
      BY <1>1, <1>8, <3>1 DEF Waits, Executed
  <2> QED
    BY <1>1, <1>7, <2>1, <2>2 DEF SerialInv, StatusTells
<1>11. Found(c)' = {nextId}
  <2>1. Found(c) = {}
    BY <1>1 DEF SerialInv, CallerSound
  <2>2. \A j \in JobIds : j \in Found(c)' <=> j = nextId
    BY <1>1, <1>2, <1>4, <2>1 DEF Found, RowsOf
  <2> QED
    BY <1>1, <2>2 DEF Found, RowsOf
<1>12. CallerSound(c)'
  <2>1. \E j \in JobIds : Found(c)' = {j} /\ ~ InQueue(j)' /\ ~ Executed(j)'
    BY <1>1, <1>7, <1>8, <1>11 DEF Waits
  <2>2. caller[c].trigger # "manual-retry"
    BY DEF SerialInv, CallerSound
  <2> QED
    BY <1>4, <2>1, <2>2 DEF CallerSound, Waits
\* The new row is not one of another caller's: its path or trigger differs.
<1>13. ASSUME NEW d \in Callers, d # c
       PROVE  CallerSound(d)'
  <2>1. caller'[d] = caller[d] /\ CallerSound(d) /\ caller[d] \in Caller
    BY <1>1, <1>13 DEF SerialInv, TypeOK
  <2>2. ASSUME Enqueuing(d)
        PROVE  Found(d)' = Found(d)
    <3>1. caller[c].path # caller[d].path \/ caller[c].trigger # caller[d].trigger
      BY <1>1, <1>13, <2>2 DEF Apart, Enqueuing
    <3>2. \A j \in JobIds : j \in Found(d)' <=> j \in Found(d)
      BY <1>1, <1>2, <1>6, <2>1, <3>1 DEF Found, RowsOf
    <3> QED
      BY <3>2 DEF Found, RowsOf
  <2>3. ASSUME Retrying(d)
        PROVE  jobs'[caller[d].id] = jobs[caller[d].id]
    <3>1. caller[d].id \in JobIds
      BY <2>1, <2>3 DEF TypeOK, Caller, Retrying
    <3>2. jobs[caller[d].id].status # "absent"
      BY <2>1, <2>3 DEF CallerSound, Retrying, Terminal
    <3> QED
      BY <1>1, <1>6, <3>1, <3>2
  <2> QED
    BY <1>7, <2>1, <2>2, <2>3, StaysSound DEF Waits
<1>14. Quiet'
  BY <1>1, <1>5 DEF Quiet
<1>15. NoneStranded'
  <2>1. ASSUME NEW j \in JobIds, jobs'[j].status \in Active
        PROVE  InHand(j)'
    <3>1. CASE j = nextId
      <4>1. BeingPut(j)'
        BY <1>4, <1>11, <3>1 DEF BeingPut
      <4> QED
        BY <4>1 DEF InHand
    <3>2. CASE j # nextId
      <4>1. InHand(j) /\ jobs'[j] = jobs[j]
        BY <1>1, <1>5, <2>1, <3>2 DEF SerialInv, NoneStranded
      <4>2. BeingPut(j) => BeingPut(j)'
        <5>1. ASSUME NEW d \in Callers, Puts(d, j)
              PROVE  BeingPut(j)'
          BY <1>1, <4>1, <5>1, PutStays DEF Puts
        <5> QED
          BY <5>1, PutBy
      <4> QED
        BY <1>7, <4>1, <4>2 DEF InHand
    <3> QED
      BY <3>1, <3>2
  <2> QED
    BY <2>1 DEF NoneStranded
<1> QED
  BY <1>9, <1>10, <1>12, <1>13, <1>14, <1>15 DEF SerialInv

\* The trigger of a row after an UPDATE of its status, and of retry_job.
LEMMA TriggerStays ==
  ASSUME NEW row \in JobRow, NEW st \in JobStatus, NEW n \in Nat
  PROVE  /\ [row EXCEPT !.status = st].trigger = row.trigger
         /\ [row EXCEPT !.status = st, !.attempts = n].trigger = row.trigger
         /\ [row EXCEPT !.status = st, !.attempts = n,
                        !.trigger = "manual-retry"].trigger = "manual-retry"
BY DEF JobRow

\* A put: the id was in nobody's hands and is in the queue's.
LEMMA PutHands ==
  ASSUME TypeOK, SerialInv, NEW c \in Callers, phase = "up",
         UNCHANGED <<phase, jobs, task>>,
         NEW j \in JobIds, Waits(j), jobs[j].status = "queued",
         queue' = Append(queue, j),
         \A k \in JobIds : Puts(c, k) => k = j,
         CallerSound(c)',
         \A d \in Callers : d # c => caller'[d] = caller[d] /\ ~ Puts(d, j)
  PROVE  SerialInv'
<1>1. /\ \A k : InQueue(k)' <=> InQueue(k) \/ k = j
      /\ QueueOnce /\ ~ InQueue(j) => QueueOnce'
  BY PutAdds DEF TypeOK
<1>2. \A k : Executed(k)' <=> Executed(k)
  BY DEF Executed
<1>3. DispatchedOnce'
  <2>1. QueueOnce'
    BY <1>1 DEF SerialInv, DispatchedOnce, QueueOnce, Waits
  <2>2. \A s \in Slots : task[s].id # j
    BY DEF Waits, Executed
  <2>3. ASSUME NEW s \in Slots, task[s].id # 0
        PROVE  ~ InQueue(task[s].id)'
    <3>1. ~ InQueue(task[s].id) /\ task[s].id # j
      BY <2>2, <2>3 DEF SerialInv, DispatchedOnce
    <3> QED
      BY <1>1, <3>1
  <2> QED
    BY <2>1, <2>3 DEF SerialInv, DispatchedOnce, QueueOnce
<1>4. StatusTells'
  BY <1>1 DEF SerialInv, StatusTells
<1>5. ASSUME NEW d \in Callers, d # c
      PROVE  CallerSound(d)'
  <2>1. caller'[d] = caller[d] /\ CallerSound(d) /\ ~ Puts(d, j)
    BY <1>5 DEF SerialInv
  <2>2. Found(d)' = Found(d)
    BY <2>1 DEF Found, RowsOf
  <2>3. \A k \in JobIds : Puts(d, k) /\ Waits(k) => ~ InQueue(k)' /\ ~ Executed(k)'
    BY <1>1, <1>2, <2>1 DEF Waits
  <2> QED
    BY <2>1, <2>2, <2>3, StaysSound
<1>6. Quiet'
  BY DEF Quiet
<1>7. NoneStranded'
  <2>1. ASSUME NEW k \in JobIds, jobs[k].status \in Active
        PROVE  InHand(k)'
    <3>1. InHand(k)
      BY <2>1 DEF SerialInv, NoneStranded
    <3>2. ASSUME NEW d \in Callers, Puts(d, k)
          PROVE  BeingPut(k)' \/ k = j
      BY <3>2, PutStays
    <3> QED
      BY <1>1, <1>2, <3>1, <3>2, PutBy DEF InHand
  <2> QED
    BY <2>1 DEF NoneStranded
<1> QED
  BY <1>3, <1>4, <1>5, <1>6, <1>7 DEF SerialInv

\* The put of enqueue_job: what it finds is the row it has inserted.
LEMMA SerialPut ==
  ASSUME Apart, TypeOK, SerialInv, NEW c \in Callers, EnqueuePut(c)
  PROVE  SerialInv'
<1>1. /\ caller[c].pc = "put" /\ phase = "up"
      /\ UNCHANGED <<phase, jobs, task>>
      /\ CallerBecomes(c, Returned(c))
  BY DEF EnqueuePut, SerialInv, Quiet
<1>2. PICK j \in JobIds : Found(c) = {j} /\ Waits(j)
  BY <1>1 DEF SerialInv, CallerSound
<1>3. queue' = Append(queue, j)
  BY <1>2 DEF EnqueuePut
<1>4. /\ jobs[j].status = "queued" /\ jobs[j].path = caller[c].path
      /\ jobs[j].trigger = caller[c].trigger
  BY <1>2, FoundIs
<1>5. CallerSound(c)' /\ \A d \in Callers : d # c => caller'[d] = caller[d]
  BY <1>1, ReturnsSound, OneEntry
<1>6. \A k \in JobIds : Puts(c, k) => k = j
  BY <1>1, <1>2 DEF Puts
<1>7. ASSUME NEW d \in Callers, d # c
      PROVE  ~ Puts(d, j)
  <2>1. CASE caller[d].pc = "put"
    <3>1. caller[c].path # caller[d].path \/ caller[c].trigger # caller[d].trigger
      BY <1>1, <1>7, <2>1 DEF Apart, Enqueuing
    <3>2. j \notin Found(d)
      BY <1>4, <3>1, FoundIs
    <3> QED
      BY <2>1, <3>2 DEF Puts
  <2>2. CASE caller[d].pc # "put"
    BY <1>4, <2>2 DEF SerialInv, CallerSound, Puts
  <2> QED
    BY <2>1, <2>2
<1> QED
  BY <1>1, <1>2, <1>3, <1>4, <1>5, <1>6, <1>7, PutHands

\* The UPDATE of retry_job: the row was finished, so nothing had it.
LEMMA SerialReset ==
  ASSUME Apart, TypeOK, SerialInv, NEW c \in Callers, RetryReset(c)
  PROVE  SerialInv'
<1> DEFINE i == caller[c].id
           new == [jobs[i] EXCEPT !.status = "queued", !.attempts = 0,
                                  !.trigger = "manual-retry"]
<1>1. /\ caller[c].pc = "retry_reset" /\ i \in JobIds /\ caller[c] \in Caller
      /\ UNCHANGED <<phase, queue, task>>
      /\ \A k \in JobIds : jobs'[k] = IF k = i THEN new ELSE jobs[k]
      /\ caller'[c] = [caller[c] EXCEPT !.pc = "retry_put"]
      /\ \A d \in Callers : d # c => caller'[d] = caller[d]
  BY OneEntry DEF RetryReset, TypeOK, Caller
<1>2. jobs[i] \in JobRow /\ "queued" \in JobStatus
  BY <1>1, Statuses DEF TypeOK
<1>3. new.status = "queued" /\ new.trigger = "manual-retry"
  BY <1>1, <1>2, UpdateFields, TriggerStays
<1>4. /\ caller'[c].pc = "retry_put" /\ caller'[c].id = i
      /\ caller'[c].trigger = caller[c].trigger
  BY <1>1 DEF Caller
<1> HIDE DEF new
<1>5. jobs[i].status \in Terminal /\ phase = "up" /\ caller[c].trigger # "manual-retry"
  BY <1>1 DEF SerialInv, CallerSound, Quiet
<1>6. /\ \A k : InQueue(k)' <=> InQueue(k)
      /\ \A k : Executed(k)' <=> Executed(k)
  BY <1>1 DEF InQueue, Executed
<1>7. ~ InQueue(i)
  BY <1>1, <1>5 DEF SerialInv, StatusTells, Terminal
<1>8. \A s \in Slots : task[s].id # i
  BY <1>1, <1>5, JobQueueAssumption
     DEF SerialInv, StatusTells, Terminal, JobIds, JobQueueAssumption
<1>9. DispatchedOnce'
  BY <1>1, <1>6 DEF SerialInv, DispatchedOnce
<1>10. StatusTells'
  <2>1. ASSUME NEW s \in Slots, task[s].pc # "idle"
        PROVE  jobs'[task[s].id] = jobs[task[s].id]
    BY <1>1, <1>8, <2>1 DEF TypeOK, Task
  <2> QED
    BY <1>1, <1>3, <1>6, <2>1 DEF SerialInv, StatusTells
<1>11. CallerSound(c)'
  BY <1>1, <1>3, <1>4, <1>5, <1>6, <1>7, <1>8 DEF CallerSound, Waits, Executed, InQueue
\* No put of enqueue_job finds the row, and no other retry has it.
<1>12. ASSUME NEW d \in Callers, d # c
       PROVE  CallerSound(d)'
  <2>1. caller'[d] = caller[d] /\ CallerSound(d) /\ caller[d] \in Caller
    BY <1>1, <1>12 DEF SerialInv, TypeOK
  <2>2. Found(d)' = Found(d)
    <3>1. caller[d].trigger # "manual-retry"
      BY <2>1 DEF CallerSound
    <3>2. \A j \in JobIds : j \in Found(d)' <=> j \in Found(d)
      BY <1>1, <1>3, <1>5, <2>1, <3>1 DEF Found, RowsOf, Terminal
    <3> QED
      BY <3>2 DEF Found, RowsOf
  <2>3. ASSUME Retrying(d)
        PROVE  jobs'[caller[d].id] = jobs[caller[d].id]
    <3>1. caller[d].id \in JobIds /\ caller[d].id # i
      BY <1>1, <1>12, <2>1, <2>3 DEF TypeOK, Caller, Apart, Retrying
    <3> QED
      BY <1>1, <3>1
  <2> QED
    BY <1>6, <2>1, <2>2, <2>3, StaysSound DEF Waits
<1>13. Quiet'
  BY <1>1, <1>5 DEF Quiet
<1>14. NoneStranded'
  <2>1. ASSUME NEW j \in JobIds, jobs'[j].status \in Active
        PROVE  InHand(j)'
    <3>1. CASE j = i
      <4>1. BeingPut(j)'
        BY <1>4, <3>1 DEF BeingPut
      <4> QED
        BY <4>1 DEF InHand
    <3>2. CASE j # i
      <4>1. InHand(j) /\ jobs'[j] = jobs[j]
        BY <1>1, <1>5, <2>1, <3>2 DEF SerialInv, NoneStranded
      <4>2. BeingPut(j) => BeingPut(j)'
        <5>1. ASSUME NEW d \in Callers, Puts(d, j)
              PROVE  BeingPut(j)'
          BY <1>1, <4>1, <5>1, PutStays DEF Puts
        <5> QED
          BY <5>1, PutBy
      <4> QED
        BY <1>6, <4>1, <4>2 DEF InHand
    <3> QED
      BY <3>1, <3>2
  <2> QED
    BY <2>1 DEF NoneStranded
<1> QED
  BY <1>9, <1>10, <1>11, <1>12, <1>13, <1>14 DEF SerialInv

\* The put of retry_job.
LEMMA SerialRetryPut ==
  ASSUME Apart, TypeOK, SerialInv, NEW c \in Callers, RetryPut(c)
  PROVE  SerialInv'
<1>1. /\ caller[c].pc = "retry_put" /\ phase = "up"
      /\ UNCHANGED <<phase, jobs, task>>
      /\ queue' = Append(queue, caller[c].id)
      /\ CallerBecomes(c, NoCaller)
  BY DEF RetryPut, SerialInv, Quiet
<1>2. PICK i \in JobIds : i = caller[c].id
  BY <1>1 DEF TypeOK, Caller
<1>3. /\ jobs[i].status = "queued" /\ jobs[i].trigger = "manual-retry"
      /\ Waits(i)
  BY <1>1, <1>2 DEF SerialInv, CallerSound
<1>4. /\ caller'[c] = NoCaller
      /\ \A d \in Callers : d # c => caller'[d] = caller[d]
  BY <1>1, OneEntry
<1>5. CallerSound(c)'
  BY <1>4 DEF CallerSound, NoCaller
<1>6. \A k \in JobIds : Puts(c, k) => k = i
  BY <1>1, <1>2 DEF Puts
<1>7. ASSUME NEW d \in Callers, d # c
      PROVE  ~ Puts(d, i)
  <2>1. CASE caller[d].pc = "put"
    <3>1. caller[d].trigger # "manual-retry"
      BY DEF SerialInv, CallerSound
    <3> QED
      BY <1>3, <2>1, <3>1, FoundIs DEF Puts
  <2>2. CASE caller[d].pc = "retry_put"
    BY <1>1, <1>2, <1>7, <2>2 DEF Apart, Retrying, Puts
  <2> QED
    BY <2>1, <2>2 DEF Puts
<1> QED
  BY <1>1, <1>2, <1>3, <1>4, <1>5, <1>6, <1>7, PutHands

-----------------------------------------------------------------------------
(* The worker's steps. *)

\* The worker takes an id from the queue: the same id, in other hands.
LEMMA SerialDispatch ==
  ASSUME TypeOK, SerialInv, NEW s \in Slots, Dispatch(s)
  PROVE  SerialInv'
<1> DEFINE h == Head(queue)
<1>1. /\ phase = "up" /\ queue # <<>> /\ queue' = Tail(queue)
      /\ UNCHANGED <<phase, jobs, caller>>
      /\ task[s].pc = "idle" /\ task[s].id = 0
      /\ \A t \in Slots : task'[t] = IF t = s THEN [NoTask EXCEPT !.pc = "start", !.id = h]
                                     ELSE task[t]
  BY OneEntry DEF Dispatch, NoTask
<1>2. task'[s].pc = "start" /\ task'[s].id = h
  BY <1>1 DEF NoTask
<1>3. /\ h \in JobIds /\ InQueue(h)
      /\ \A k : InQueue(k)' <=> InQueue(k) /\ k # h
      /\ QueueOnce'
  BY <1>1, TakeRemoves DEF TypeOK, SerialInv, DispatchedOnce, QueueOnce
<1> HIDE DEF h
<1>4. h # 0 /\ h \in Nat
  BY <1>3, JobQueueAssumption DEF JobIds, JobQueueAssumption
<1>5. \A t \in Slots : task[t].id # h
  BY <1>3, <1>4 DEF SerialInv, DispatchedOnce
<1>6. \A k : k # 0 => (Executed(k)' <=> Executed(k) \/ k = h)
  BY <1>1, <1>2, <1>5 DEF Executed
<1>7. DispatchedOnce'
  <2>1. \A t, u \in Slots : task'[t].id = task'[u].id /\ task'[t].id # 0 => t = u
    BY <1>1, <1>2, <1>5 DEF SerialInv, DispatchedOnce
  <2>2. ASSUME NEW t \in Slots, task'[t].id # 0
        PROVE  \A i \in 1..Len(queue') : queue'[i] # task'[t].id
    <3>1. CASE t = s
      BY <1>2, <1>3, <3>1 DEF InQueue
    <3>2. CASE t # s
      <4>1. task'[t] = task[t] /\ ~ InQueue(task[t].id)
        BY <1>1, <2>2, <3>2 DEF SerialInv, DispatchedOnce
      <4>2. \A k : ~ InQueue(k) => ~ InQueue(k)'
        BY <1>3
      <4> QED
        BY <4>1, <4>2 DEF InQueue
    <3> QED
      BY <3>1, <3>2
  <2> QED
    BY <1>3, <2>1, <2>2 DEF DispatchedOnce, QueueOnce, InQueue
<1>8. StatusTells'
  <2>1. jobs[h].status = "queued"
    BY <1>3 DEF SerialInv, StatusTells
  <2> QED
    BY <1>1, <1>2, <1>3, <2>1 DEF SerialInv, StatusTells
<1>9. ASSUME NEW c \in Callers
      PROVE  CallerSound(c)'
  <2>1. ASSUME NEW k \in JobIds, Waits(k)
        PROVE  ~ InQueue(k)' /\ ~ Executed(k)'
    <3>1. k # h /\ k # 0
      BY <1>3, <1>4, <2>1, JobQueueAssumption DEF Waits, JobIds, JobQueueAssumption
    <3> QED
      BY <1>3, <1>6, <2>1, <3>1 DEF Waits
  <2>2. /\ CallerSound(c) /\ Found(c)' = Found(c)
        /\ caller'[c] = caller[c] /\ jobs' = jobs
    BY <1>1 DEF SerialInv, Found, RowsOf
  <2> QED
    BY <2>1, <2>2, StaysSound
<1>10. Quiet'
  BY <1>1 DEF Quiet
<1>11. NoneStranded'
  <2>1. ASSUME NEW j \in JobIds, jobs[j].status \in Active
        PROVE  InHand(j)'
    <3>1. InHand(j)
      BY <1>1, <2>1 DEF SerialInv, NoneStranded
    <3>2. BeingPut(j)' <=> BeingPut(j)
      BY <1>1 DEF BeingPut, Found, RowsOf
    <3>3. j # 0
      BY JobQueueAssumption DEF JobIds, JobQueueAssumption
    <3> QED
      BY <1>3, <1>6, <3>1, <3>2, <3>3 DEF InHand
  <2> QED
    BY <1>1, <2>1 DEF NoneStranded
<1> QED
  BY <1>7, <1>8, <1>9, <1>10, <1>11 DEF SerialInv

\* A task that keeps its id and the status of its row.
LEMMA TaskGoesOn ==
  ASSUME TypeOK, SerialInv, NEW s \in Slots, UNCHANGED <<phase, jobs, queue, caller>>,
         NEW new, \A t \in Slots : task'[t] = IF t = s THEN new ELSE task[t],
         new.id = task[s].id, task[s].pc \notin {"idle", "start"},
         new.pc \notin {"idle", "start"}
  PROVE  SerialInv'
<1>1. \A t \in Slots : task'[t].id = task[t].id
  OBVIOUS
<1>2. /\ \A k : InQueue(k)' <=> InQueue(k)
      /\ \A k : Executed(k)' <=> Executed(k)
  BY <1>1 DEF InQueue, Executed
<1>3. \A c \in Callers : Found(c)' = Found(c)
  BY DEF Found, RowsOf
<1>4. DispatchedOnce'
  BY <1>1 DEF SerialInv, DispatchedOnce, InQueue
<1>5. StatusTells'
  BY <1>1, <1>2 DEF SerialInv, StatusTells
<1>6. \A c \in Callers : CallerSound(c)'
  BY <1>1, <1>3 DEF SerialInv, CallerSound, Waits, InQueue, Executed
<1>7. phase = "up"
  BY DEF SerialInv, Quiet
<1>8. Quiet'
  BY <1>7 DEF Quiet
<1>9. NoneStranded'
  BY <1>2, <1>3 DEF SerialInv, NoneStranded, InHand, BeingPut
<1> QED
  BY <1>4, <1>5, <1>6, <1>8, <1>9 DEF SerialInv

\* process_one_item and its lock touch neither the rows nor who has them.
LEMMA SerialWorks ==
  ASSUME TypeOK, SerialInv, NEW s \in Slots, AcquireLock(s) \/ Translate(s)
  PROVE  SerialInv'
<1>1. /\ task[s] \in Task /\ task[s].pc \in {"lock", "work", "translating"}
      /\ UNCHANGED <<phase, jobs, queue, caller>>
  BY DEF TypeOK, AcquireLock, Translate, TranslateSkip, TranslateBegin, TranslateDone,
         TranslateQuarantine, TranslateError, Leave
<1>2. CASE AcquireLock(s) \/ TranslateBegin(s)
  <2>1. PICK pc \in {"work", "translating"} : TaskBecomes(s, [task[s] EXCEPT !.pc = pc])
    BY <1>2 DEF AcquireLock, TranslateBegin
  <2> DEFINE new == [task[s] EXCEPT !.pc = pc]
  <2>2. new.pc = pc /\ new.id = task[s].id
    BY <1>1 DEF Task
  <2>3. \A t \in Slots : task'[t] = IF t = s THEN new ELSE task[t]
    BY <2>1, OneEntry
  <2> HIDE DEF new
  <2> QED
    BY <1>1, <2>2, <2>3, TaskGoesOn
<1>3. ASSUME NEW r, Leave(s, r)
      PROVE  SerialInv'
  <2> DEFINE new == [task[s] EXCEPT !.pc = "commit", !.result = r]
  <2>1. new.pc = "commit" /\ new.id = task[s].id
    BY <1>1 DEF Task
  <2>2. \A t \in Slots : task'[t] = IF t = s THEN new ELSE task[t]
    BY <1>3, OneEntry DEF Leave
  <2> HIDE DEF new
  <2> QED
    BY <1>1, <2>1, <2>2, TaskGoesOn
<1> QED
  BY <1>2, <1>3 DEF Translate, TranslateSkip, TranslateDone, TranslateQuarantine,
                    TranslateError

\* A task writes its row: as running when it starts, as finished when it ends.
LEMMA TaskWrites ==
  ASSUME TypeOK, SerialInv, NEW s \in Slots, task[s].pc # "idle",
         UNCHANGED <<phase, queue, caller>>,
         NEW row, row.path = jobs[task[s].id].path,
         \A k \in JobIds : jobs'[k] = IF k = task[s].id THEN row ELSE jobs[k],
         NEW new, \A t \in Slots : task'[t] = IF t = s THEN new ELSE task[t],
         \/ row.status = "running" /\ new.id = task[s].id /\ new.pc = "lock"
         \/ row.status \notin Active /\ new.id = 0 /\ new.pc = "idle"
  PROVE  SerialInv'
<1> DEFINE j == task[s].id
<1>1. j \in JobIds /\ j # 0 /\ phase = "up"
  BY JobQueueAssumption
     DEF TypeOK, Task, JobIds, SerialInv, Quiet, JobQueueAssumption
<1>2. jobs[j].status \in Active /\ jobs[j].status \notin Terminal
  BY <1>1 DEF SerialInv, StatusTells, Active, Terminal
<1> HIDE DEF j
<1>3. ~ InQueue(j) /\ \A t \in Slots : t # s => task[t].id # j
  BY <1>1 DEF SerialInv, DispatchedOnce, j
<1>4. \A k : InQueue(k)' <=> InQueue(k)
  BY DEF InQueue
<1>5. \A k : k # 0 /\ k # j => (Executed(k)' <=> Executed(k))
  BY DEF Executed, j
<1>6. DispatchedOnce'
  <2>1. \A t \in Slots : task'[t].id # 0 => task'[t].id = task[t].id
    BY <1>3
  <2> QED
    BY <1>4, <2>1 DEF SerialInv, DispatchedOnce, InQueue
<1>7. StatusTells'
  <2>1. \A k \in JobIds : InQueue(k) => jobs'[k].status = "queued"
    BY <1>3 DEF SerialInv, StatusTells, j
  <2>2. ASSUME NEW t \in Slots, t # s
        PROVE  /\ task'[t] = task[t]
               /\ task[t].pc # "idle" => jobs'[task[t].id] = jobs[task[t].id]
    <3>1. task[t].pc # "idle" => task[t].id \in JobIds
      BY DEF TypeOK, Task
    <3> QED
      BY <1>3, <2>2, <3>1 DEF j
  <2>3. /\ task'[s].pc = "idle" => task'[s].id = 0
        /\ task'[s].pc # "start"
        /\ task'[s].pc # "idle" => jobs'[task'[s].id].status = "running"
    BY <1>1 DEF j, Active
  <2> QED
    BY <1>4, <2>1, <2>2, <2>3 DEF SerialInv, StatusTells
<1>8. \A c \in Callers : CallerSound(c)'
  <2>1. ASSUME NEW k \in JobIds, Waits(k)
        PROVE  k # j /\ ~ InQueue(k)' /\ ~ Executed(k)'
    <3>1. k # 0 /\ k # j
      BY <2>1, JobQueueAssumption
         DEF Waits, Executed, JobIds, JobQueueAssumption, j
    <3> QED
      BY <1>4, <1>5, <2>1, <3>1 DEF Waits
  <2>2. ASSUME NEW c \in Callers
        PROVE  CallerSound(c)'
    <3>1. CallerSound(c) /\ caller[c] \in Caller /\ caller'[c] = caller[c]
      BY DEF SerialInv, TypeOK
    <3>2. ASSUME Enqueuing(c)
          PROVE  Found(c)' = Found(c)
      <4>1. j \notin Found(c)
        BY <2>1, <3>1, <3>2 DEF Enqueuing, CallerSound
      <4>2. \A x \in JobIds : x \in Found(c)' <=> x \in Found(c)
        BY <1>1, <3>1, <4>1 DEF Found, RowsOf, Active, j
      <4> QED
        BY <4>2 DEF Found, RowsOf
    <3>3. ASSUME Retrying(c)
          PROVE  jobs'[caller[c].id] = jobs[caller[c].id]
      <4>1. PICK k \in JobIds : k = caller[c].id
        BY <3>1, <3>3 DEF TypeOK, Caller, Retrying
      <4>2. k # j
        BY <1>2, <2>1, <3>1, <3>3, <4>1 DEF CallerSound, Retrying
      <4> QED
        BY <4>1, <4>2 DEF j
    <3> QED
      BY <2>1, <3>1, <3>2, <3>3, StaysSound
  <2> QED
    BY <2>2
<1>9. Quiet'
  BY <1>1 DEF Quiet
<1>10. NoneStranded'
  <2>1. ASSUME NEW k \in JobIds, jobs'[k].status \in Active
        PROVE  InHand(k)'
    <3>1. CASE k = j
      <4>1. task'[s].id = j
        BY <2>1, <3>1 DEF j
      <4>2. Executed(k)'
        BY <3>1, <4>1 DEF Executed
      <4> QED
        BY <4>2 DEF InHand
    <3>2. CASE k # j
      <4>1. InHand(k) /\ jobs'[k] = jobs[k]
        BY <1>1, <2>1, <3>2 DEF SerialInv, NoneStranded, j
      <4>2. BeingPut(k) => BeingPut(k)'
        BY <4>1 DEF BeingPut, Found, RowsOf
      <4>3. k # 0
        BY JobQueueAssumption DEF JobIds, JobQueueAssumption
      <4> QED
        BY <1>4, <1>5, <3>2, <4>1, <4>2, <4>3 DEF InHand
    <3> QED
      BY <3>1, <3>2
  <2> QED
    BY <2>1 DEF NoneStranded
<1> QED
  BY <1>6, <1>7, <1>8, <1>9, <1>10 DEF SerialInv

\* The start of a task, its end and its unhandled error.
LEMMA SerialRows ==
  ASSUME TypeOK, SerialInv, NEW s \in Slots,
         JobStart(s) \/ JobCommit(s) \/ JobUnhandledError(s)
  PROVE  SerialInv'
<1>1. /\ task[s] \in Task /\ task[s].pc \in {"start", "commit"}
      /\ UNCHANGED <<phase, queue, caller>>
  BY DEF TypeOK, JobStart, JobCommit, JobUnhandledError
<1>2. task[s].id \in JobIds
  BY <1>1 DEF TypeOK, Task
<1>3. jobs[task[s].id] \in JobRow
  BY <1>2 DEF TypeOK
<1>4. NoTask.id = 0 /\ NoTask.pc = "idle"
  BY DEF NoTask
<1>5. CASE JobStart(s)
  <2> DEFINE row == [jobs[task[s].id] EXCEPT !.status = "running", !.attempts = @ + 1]
             new == [task[s] EXCEPT !.pc = "lock"]
  <2>1. jobs[task[s].id].attempts + 1 \in Nat /\ "running" \in JobStatus
    BY <1>3, Statuses DEF JobRow
  <2>2. row.status = "running" /\ row.path = jobs[task[s].id].path
    BY <1>3, <2>1, UpdateFields
  <2>3. new.id = task[s].id /\ new.pc = "lock"
    BY <1>1 DEF Task
  <2>4. /\ \A k \in JobIds : jobs'[k] = IF k = task[s].id THEN row ELSE jobs[k]
        /\ \A t \in Slots : task'[t] = IF t = s THEN new ELSE task[t]
    BY <1>2, <1>5, OneEntry DEF JobStart
  <2> HIDE DEF row, new
  <2> QED
    BY <1>1, <2>2, <2>3, <2>4, TaskWrites
<1>6. CASE JobCommit(s) \/ JobUnhandledError(s)
  <2>1. PICK st \in JobStatus \ Active :
          /\ JobBecomes(task[s].id, [jobs[task[s].id] EXCEPT !.status = st])
          /\ TaskBecomes(s, NoTask)
    <3>1. FinalStatus(task[s].result) \in JobStatus \ Active
      BY <1>1 DEF Task, Outcomes, FinalStatus, JobStatus, Active, Terminal
    <3>2. "failed" \in JobStatus \ Active
      BY DEF JobStatus, Active, Terminal
    <3> QED
      BY <1>6, <3>1, <3>2 DEF JobCommit, JobUnhandledError
  <2> DEFINE row == [jobs[task[s].id] EXCEPT !.status = st]
  <2>2. row.status = st /\ row.path = jobs[task[s].id].path
    BY <1>3, UpdateFields
  <2>3. /\ \A k \in JobIds : jobs'[k] = IF k = task[s].id THEN row ELSE jobs[k]
        /\ \A t \in Slots : task'[t] = IF t = s THEN NoTask ELSE task[t]
    BY <1>2, <2>1, OneEntry
  <2> HIDE DEF row
  <2> QED
    BY <1>1, <1>4, <2>2, <2>3, TaskWrites
<1> QED
  BY <1>5, <1>6

-----------------------------------------------------------------------------
(* The process. *)

\* ids names each member of S, nothing else, and nothing twice.
Lists(ids, S) ==
  /\ \A j \in S : \E i \in 1..Len(ids) : ids[i] = j
  /\ \A i \in 1..Len(ids) : ids[i] \in S
  /\ \A x, y \in 1..Len(ids) : ids[x] = ids[y] => x = y

\* A sequence without repetitions over a finite set, as long as the set has
\* members, leaves none of them out.
LEMMA AllListed ==
  ASSUME NEW S \in SUBSET JobIds, NEW ids \in [1..Cardinality(S) -> S],
         \A x, y \in DOMAIN ids : ids[x] = ids[y] => x = y
  PROVE  /\ ids \in Seq(JobIds) /\ Len(ids) = Cardinality(S)
         /\ Lists(ids, S)
<1> DEFINE n == Cardinality(S)
<1>1. n \in Nat
  BY JobIdsFinite
<1>2. IsFiniteSet(JobIds)
  BY FS_Interval, JobQueueAssumption DEF JobIds, JobQueueAssumption
<1>3. IsFiniteSet(S)
  BY <1>2, FS_Subset
<1>4. IsFiniteSet(1..n) /\ Cardinality(1..n) = n
  BY <1>1, FS_Interval
<1>5. ids \in Injection(1..n, S)
  BY DEF Injection, IsInjective
<1>6. ids \in Surjection(1..n, S)
  BY <1>3, <1>4, <1>5, FS_Injection
<1>7. \A j \in S : \E i \in 1..n : ids[i] = j
  BY <1>6 DEF Surjection
<1>8. ids \in Seq(JobIds) /\ Len(ids) = n
  BY <1>1, QueueOfIds
<1> QED
  BY <1>7, <1>8 DEF Lists

\* ARM 1 puts the id of every unfinished row once.
LEMMA SerialReconcile ==
  ASSUME TypeOK, SerialInv, ReconcileJobs
  PROVE  SerialInv'
<1>1. /\ phase = "down" /\ phase' = "adopting"
      /\ UNCHANGED <<task, caller>>
      /\ \A j \in JobIds : jobs'[j] = IF j \in Stale THEN [jobs[j] EXCEPT !.status = "queued"]
                                      ELSE jobs[j]
  BY DEF ReconcileJobs
<1>2. PICK ids \in [1..Cardinality(Stale) -> Stale] :
        /\ \A x, y \in DOMAIN ids : ids[x] = ids[y] => x = y
        /\ queue' = ids
  BY DEF ReconcileJobs
<1>3. Stale \in SUBSET JobIds
  BY DEF Stale
<1>4. /\ \A j \in Stale : \E i \in 1..Len(queue') : queue'[i] = j
      /\ \A i \in 1..Len(queue') : queue'[i] \in Stale
      /\ \A x, y \in 1..Len(queue') : queue'[x] = queue'[y] => x = y
  <2>1. Lists(ids, Stale)
    BY <1>2, <1>3, AllListed
  <2> QED
    BY <1>2, <2>1 DEF Lists
<1>5. \A k : InQueue(k)' <=> k \in Stale
  BY <1>4 DEF InQueue
<1>6. \A j \in Stale : jobs'[j].status = "queued"
  <2>1. \A j \in Stale : jobs[j] \in JobRow
    BY <1>3 DEF TypeOK
  <2> QED
    BY <1>1, <1>3, <2>1 DEF JobRow
<1>7. /\ \A s \in Slots : task'[s].pc = "idle" /\ task'[s].id = 0
      /\ \A c \in Callers : caller'[c].pc = "idle"
  BY <1>1 DEF SerialInv, Quiet, StatusTells
<1>8. DispatchedOnce'
  BY <1>4, <1>7 DEF DispatchedOnce
<1>9. StatusTells'
  BY <1>3, <1>5, <1>6, <1>7 DEF StatusTells
<1>10. \A c \in Callers : CallerSound(c)'
  <2>1. \A c \in Callers : caller'[c].trigger # "manual-retry"
    BY <1>1 DEF SerialInv, CallerSound
  <2> QED
    BY <1>7, <2>1 DEF CallerSound
<1>11. Quiet'
  BY <1>1, <1>7 DEF Quiet
<1>12. NoneStranded'
  <2>1. ASSUME NEW j \in JobIds, jobs'[j].status \in Active
        PROVE  j \in Stale
    BY <1>1, <2>1 DEF Stale
  <2> QED
    BY <1>5, <2>1 DEF NoneStranded, InHand
<1> QED
  BY <1>8, <1>9, <1>10, <1>11, <1>12 DEF SerialInv

\* ARM 2 inserts and puts one row more.
LEMMA SerialAdopt ==
  ASSUME TypeOK, IdsInserted, SerialInv, NEW p \in Paths, ReconcileLedger(p)
  PROVE  SerialInv'
<1> DEFINE new == NewJob(p, NoSeries, "startup-reconcile")
<1>1. /\ phase = "adopting" /\ nextId \in JobIds /\ queue' = Append(queue, nextId)
      /\ UNCHANGED <<phase, task, caller>>
      /\ \A k \in JobIds : jobs'[k] = IF k = nextId THEN new ELSE jobs[k]
  BY OneEntry DEF ReconcileLedger
<1>2. new.status = "queued"
  BY DEF NewJob
<1> HIDE DEF new
<1>3. jobs[nextId].status = "absent"
  BY <1>1, JobQueueAssumption DEF IdsInserted, TypeOK, JobIds, JobQueueAssumption
<1>4. ~ InQueue(nextId)
  BY <1>1, <1>3 DEF SerialInv, StatusTells
<1>5. \E j : j = nextId
  OBVIOUS
<1>6. PICK j : j = nextId
  BY <1>5
<1>7. /\ \A k : InQueue(k)' <=> InQueue(k) \/ k = j
      /\ QueueOnce'
  BY <1>1, <1>4, <1>6, PutAdds DEF TypeOK, SerialInv, DispatchedOnce, QueueOnce
<1>8. /\ \A s \in Slots : task[s].pc = "idle" /\ task[s].id = 0
      /\ \A c \in Callers : caller[c].pc = "idle"
  BY <1>1 DEF SerialInv, Quiet, StatusTells
<1>9. DispatchedOnce'
  BY <1>1, <1>7, <1>8 DEF DispatchedOnce, QueueOnce
<1>10. StatusTells'
  BY <1>1, <1>2, <1>6, <1>7, <1>8 DEF SerialInv, StatusTells
<1>11. \A c \in Callers : CallerSound(c)'
  <2>1. \A c \in Callers : caller'[c].trigger # "manual-retry"
    BY <1>1 DEF SerialInv, CallerSound
  <2> QED
    BY <1>1, <1>8, <2>1 DEF CallerSound
<1>12. Quiet'
  BY <1>1, <1>8 DEF Quiet
<1>13. NoneStranded'
  <2>1. ASSUME NEW k \in JobIds, jobs'[k].status \in Active, k # j
        PROVE  InQueue(k)
    <3>1. InHand(k)
      BY <1>1, <1>6, <2>1 DEF SerialInv, NoneStranded
    <3>2. ~ Executed(k) /\ ~ BeingPut(k)
      BY <1>8, JobQueueAssumption
         DEF Executed, BeingPut, JobIds, JobQueueAssumption
    <3> QED
      BY <3>1, <3>2 DEF InHand
  <2> QED
    BY <1>7, <2>1 DEF NoneStranded, InHand
<1> QED
  BY <1>9, <1>10, <1>11, <1>12, <1>13 DEF SerialInv

\* The stop, the start of the service and a stutter.
LEMMA SerialProcess ==
  ASSUME TypeOK, SerialInv, Crash \/ Serve \/ UNCHANGED vars
  PROVE  SerialInv'
<1>1. CASE Crash
  <2>1. /\ phase' = "down" /\ queue' = <<>>
        /\ \A s \in Slots : task'[s].pc = "idle" /\ task'[s].id = 0
        /\ \A c \in Callers : caller'[c].pc = "idle" /\ caller'[c].trigger = "poll"
    BY <1>1 DEF Crash, NoTask, NoCaller
  <2>2. \A k : ~ InQueue(k)'
    BY <2>1 DEF InQueue
  <2>3. DispatchedOnce'
    BY <2>1 DEF DispatchedOnce
  <2>4. StatusTells'
    BY <2>1, <2>2 DEF StatusTells
  <2>5. \A c \in Callers : CallerSound(c)'
    BY <2>1 DEF CallerSound
  <2> QED
    BY <2>1, <2>3, <2>4, <2>5 DEF SerialInv, Quiet, NoneStranded
<1>2. CASE Serve \/ UNCHANGED vars
  <2>1. /\ UNCHANGED <<jobs, queue, task, caller>>
        /\ phase' = phase \/ (phase = "adopting" /\ phase' = "up")
    BY <1>2 DEF Serve, vars
  <2>2. /\ \A k : InQueue(k)' <=> InQueue(k)
        /\ \A k : Executed(k)' <=> Executed(k)
        /\ \A c : Found(c)' = Found(c)
        /\ \A k : BeingPut(k)' <=> BeingPut(k)
    BY <2>1 DEF InQueue, Executed, Found, RowsOf, BeingPut
  <2>3. DispatchedOnce' /\ StatusTells'
    BY <2>1, <2>2 DEF SerialInv, DispatchedOnce, StatusTells, InQueue
  <2>4. \A c \in Callers : CallerSound(c)'
    BY <2>1, <2>2 DEF SerialInv, CallerSound, Waits, InQueue, Executed
  <2>5. Quiet'
    BY <2>1 DEF SerialInv, Quiet
  <2>6. NoneStranded'
    BY <2>1, <2>2 DEF SerialInv, NoneStranded, InHand
  <2> QED
    BY <2>3, <2>4, <2>5, <2>6 DEF SerialInv
<1> QED
  BY <1>1, <1>2

-----------------------------------------------------------------------------
(* The theorems. *)

\* The daemon starts with nothing queued and nobody inside.
LEMMA SerialInit == Init => SerialInv
<1> SUFFICES ASSUME Init
             PROVE  SerialInv
  OBVIOUS
<1>1. /\ phase = "down" /\ queue = <<>>
      /\ \A s \in Slots : task[s].pc = "idle" /\ task[s].id = 0
      /\ \A c \in Callers : caller[c].pc = "idle" /\ caller[c].trigger = "poll"
  BY DEF Init, NoTask, NoCaller
<1>2. \A c \in Callers : CallerSound(c)
  BY <1>1 DEF CallerSound
<1> QED
  BY <1>1, <1>2 DEF SerialInv, DispatchedOnce, StatusTells, Quiet, NoneStranded, InQueue

\* Every step of the specification keeps the invariant.
LEMMA SerialStep == IInv /\ Apart /\ SerialInv /\ [Next]_vars => SerialInv'
<1> SUFFICES ASSUME IInv, Apart, SerialInv, [Next]_vars
             PROVE  SerialInv'
  OBVIOUS
<1>1. TypeOK /\ IdsInserted
  BY DEF IInv
<1>2. ASSUME NEW c \in Callers, CallerBegins(c) \/ CallerStep(c)
      PROVE  SerialInv'
  BY <1>1, <1>2, SerialBegins, SerialThinks, SerialInsert, SerialPut, SerialReset,
     SerialRetryPut DEF CallerStep
<1>3. ASSUME NEW s \in Slots, Dispatch(s) \/ AcquireLock(s) \/ TaskStep(s)
      PROVE  SerialInv'
  BY <1>1, <1>3, SerialDispatch, SerialWorks, SerialRows DEF TaskStep
<1>4. ASSUME Startup
      PROVE  SerialInv'
  BY <1>1, <1>4, SerialReconcile, SerialAdopt, SerialProcess DEF Startup
<1> QED
  BY <1>1, <1>2, <1>3, <1>4, SerialProcess DEF Next

\* As long as the callers stay apart the invariant holds.
THEOREM SerialHolds == Spec /\ []Apart => []SerialInv
BY SerialStep, SerialInit, InvariantHolds, PTL DEF Spec

\* NoStrandedJob (D-67): while the service is up every queued or running row
\* is in the queue, in a task, or about to be put.
THEOREM NoJobStranded == Spec /\ []Apart => []NoStrandedJob
<1>1. SerialInv => NoStrandedJob
  BY DEF SerialInv, NoneStranded, NoStrandedJob, InHand
<1> QED
  BY <1>1, SerialHolds, PTL

\* DispatchedOnce: enqueue_job, retry_job and both arms of the start-up never
\* put an id that the queue or a task still has.
THEOREM DispatchedOnceAlways == Spec /\ []Apart => []DispatchedOnce
<1>1. SerialInv => DispatchedOnce
  BY DEF SerialInv
<1> QED
  BY <1>1, SerialHolds, PTL

-----------------------------------------------------------------------------
(* JobQueue implements JobLifecycle. *)

\* The status column, the one variable of JobLifecycle.
Column == [j \in JobIds |-> jobs[j].status]

\* A write of one row moves its status.
LEMMA OneMoves ==
  ASSUME TypeOK, NEW j \in JobIds, NEW new, JobBecomes(j, new)
  PROVE  Column' = [Column EXCEPT ![j] = new.status]
BY DEF TypeOK, JobBecomes, Column

\* An INSERT submits a row.
LEMMA InsertSubmits ==
  ASSUME TypeOK, IdsInserted, nextId \in JobIds, NEW p, NEW k, NEW t,
         JobBecomes(nextId, NewJob(p, k, t))
  PROVE  Lifecycle!Next
<1>1. PICK j \in JobIds : j = nextId
  OBVIOUS
<1>2. jobs[j].status = "absent"
  BY <1>1, JobQueueAssumption DEF IdsInserted, TypeOK, JobIds, JobQueueAssumption
<1>3. NewJob(p, k, t).status = "queued"
  BY DEF NewJob
<1>4. Column' = [Column EXCEPT ![j] = "queued"] /\ Column[j] = "absent"
  BY <1>1, <1>2, <1>3, OneMoves DEF Column
<1>5. Lifecycle!Submit(j)
  BY <1>4 DEF Lifecycle!Submit, Lifecycle!Move, Column
<1> QED
  BY <1>5 DEF Lifecycle!Next

\* Every step of the queue, its callers and its tasks is one of a row's life,
\* or none.
LEMMA StepLives ==
  ASSUME TypeOK, IdsInserted, SerialInv, [Next]_vars
  PROVE  Lifecycle!Next \/ Column' = Column
<1>1. CASE jobs' = jobs
  BY <1>1 DEF Column
<1>2. ASSUME NEW c \in Callers, EnqueueInsert(c)
      PROVE  Lifecycle!Next
  BY <1>2, InsertSubmits DEF EnqueueInsert
<1>3. ASSUME NEW p \in Paths, ReconcileLedger(p)
      PROVE  Lifecycle!Next
  BY <1>3, InsertSubmits DEF ReconcileLedger
<1>4. ASSUME NEW c \in Callers, RetryReset(c)
      PROVE  Lifecycle!Next
  <2>0. PICK j : j = caller[c].id
    OBVIOUS
  <2> DEFINE new == [jobs[j] EXCEPT !.status = "queued", !.attempts = 0,
                                    !.trigger = "manual-retry"]
  <2>1. j \in JobIds /\ jobs[j].status \in Terminal /\ JobBecomes(j, new)
    BY <1>4, <2>0 DEF RetryReset, TypeOK, Caller, SerialInv, CallerSound
  <2>2. new.status = "queued"
    BY <2>1, UpdateFields, Statuses DEF TypeOK
  <2> HIDE DEF new
  <2>3. Lifecycle!Retry(j)
    BY <2>1, <2>2, OneMoves DEF Lifecycle!Retry, Lifecycle!Move, Column, Terminal
  <2> QED
    BY <2>1, <2>3 DEF Lifecycle!Next
<1>5. ASSUME NEW s \in Slots, JobStart(s)
      PROVE  Lifecycle!Next
  <2>0. PICK j : j = task[s].id
    OBVIOUS
  <2> DEFINE new == [jobs[j] EXCEPT !.status = "running", !.attempts = @ + 1]
  <2>1. j \in JobIds /\ jobs[j].status = "queued" /\ JobBecomes(j, new)
    BY <1>5, <2>0 DEF JobStart, TypeOK, Task, SerialInv, StatusTells
  <2>2. new.status = "running"
    <3>1. jobs[j] \in JobRow
      BY <2>1 DEF TypeOK
    <3>2. jobs[j].attempts + 1 \in Nat
      BY <3>1 DEF JobRow
    <3> QED
      BY <3>1, <3>2, UpdateFields, Statuses
  <2> HIDE DEF new
  <2>3. Lifecycle!Start(j)
    BY <2>1, <2>2, OneMoves DEF Lifecycle!Start, Lifecycle!Move, Column
  <2> QED
    BY <2>1, <2>3 DEF Lifecycle!Next
<1>6. ASSUME NEW s \in Slots, JobCommit(s) \/ JobUnhandledError(s)
      PROVE  Lifecycle!Next
  <2>0. PICK j : j = task[s].id
    OBVIOUS
  <2>1. j \in JobIds /\ task[s] \in Task /\ task[s].pc \in {"start", "commit"}
    BY <1>6, <2>0 DEF JobCommit, JobUnhandledError, TypeOK, Task
  <2>2. jobs[j].status = IF task[s].pc = "start" THEN "queued" ELSE "running"
    BY <2>0, <2>1 DEF SerialInv, StatusTells
  <2>3. PICK r \in Lifecycle!Finished :
          /\ JobBecomes(j, [jobs[j] EXCEPT !.status = r])
          /\ task[s].pc = "start" => r = "failed"
    <3>1. FinalStatus(task[s].result) \in Lifecycle!Finished
      BY <2>1 DEF Task, Outcomes, FinalStatus, Lifecycle!Finished
    <3> QED
      BY <1>6, <2>0, <3>1 DEF JobCommit, JobUnhandledError, Lifecycle!Finished
  <2>4. r \in JobStatus
    BY DEF Lifecycle!Finished, JobStatus, Terminal
  <2>5. [jobs[j] EXCEPT !.status = r].status = r
    BY <2>1, <2>4, UpdateFields DEF TypeOK
  <2>6. Column' = [Column EXCEPT ![j] = r] /\ Column[j] = jobs[j].status
    BY <2>1, <2>3, <2>5, OneMoves DEF Column
  <2>7. Lifecycle!Finish(j) \/ Lifecycle!Fail(j)
    BY <2>1, <2>2, <2>3, <2>6
       DEF Lifecycle!Finish, Lifecycle!Fail, Lifecycle!Move, Column
  <2> QED
    BY <2>1, <2>7 DEF Lifecycle!Next
<1>7. CASE ReconcileJobs
  <2>1. \A j \in JobIds :
          jobs'[j].status = IF jobs[j].status = "running" THEN "queued" ELSE jobs[j].status
    <3>1. \A j \in JobIds : jobs[j] \in JobRow
      BY DEF TypeOK
    <3> QED
      BY <1>7, <3>1, UpdateFields, Statuses DEF ReconcileJobs, Stale, Active
  <2>2. Lifecycle!Restart
    BY <2>1 DEF Lifecycle!Restart
  <2> QED
    BY <2>2 DEF Lifecycle!Next
<1>8. CASE Crash \/ Serve \/ UNCHANGED vars
  BY <1>1, <1>8 DEF Crash, Serve, vars
<1>9. ASSUME NEW c \in Callers,
             \/ CallerBegins(c) \/ SweepItem(c) \/ EnqueueDedup(c) \/ EnqueueCap(c)
             \/ EnqueuePut(c) \/ RetryPut(c)
      PROVE  jobs' = jobs
  BY <1>9 DEF CallerBegins, PollSweep, ManualTranslate, TimerFires, RetrySelect,
              SweepItem, EnqueueDedup, EnqueueCap, EnqueuePut, RetryPut
<1>10. ASSUME NEW s \in Slots, Dispatch(s) \/ AcquireLock(s) \/ Translate(s)
       PROVE  jobs' = jobs
  BY <1>10 DEF Dispatch, AcquireLock, Translate, TranslateSkip, TranslateBegin,
               TranslateDone, TranslateQuarantine, TranslateError, Leave
<1> QED
  BY <1>1, <1>2, <1>3, <1>4, <1>5, <1>6, <1>7, <1>8, <1>9, <1>10
     DEF Next, CallerStep, TaskStep, Startup

\* RowsLive: a row that is done is never executed again, a failed one only
\* after a user's retry, and a running one goes back to queued only in a
\* restart (JobQueue implements JobLifecycle).
THEOREM ImplementsLifecycle == Spec /\ []Apart => RowsLive
<1>1. Init => Lifecycle!Init
  BY DEF Init, Lifecycle!Init, NoJob
<1>2. IInv /\ SerialInv /\ [Next]_vars => [Lifecycle!Next]_Column
  BY StepLives DEF IInv
<1>3. IInv /\ SerialInv /\ [Next]_vars => [Lifecycle!Next]_[j \in JobIds |-> jobs[j].status]
  BY <1>2 DEF Column
<1> QED
  BY <1>1, <1>3, InvariantHolds, SerialHolds, PTL DEF Spec, RowsLive, Lifecycle!Spec
=============================================================================
