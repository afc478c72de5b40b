----------------------------- MODULE JobLifecycle -----------------------------
(***************************************************************************)
(* What the job table promises its readers (the queue page, the badge, a   *)
(* user's retry): the life of a Job row, without the queue, the tasks and  *)
(* the coroutines that JobQueue implements it with.                        *)
(***************************************************************************)
CONSTANTS Jobs

VARIABLE status   \* the status column of each row, "absent" before its INSERT

Finished == {"done", "failed", "quarantined"}

Init == status = [j \in Jobs |-> "absent"]

Move(j, from, to) == status[j] \in from /\ status' = [status EXCEPT ![j] = to]

\* A row is inserted for a path that some caller wants translated.
Submit(j) == Move(j, {"absent"}, "queued")

Start(j) == Move(j, {"queued"}, "running")

\* A job ends with its result, or fails before it could start.
Finish(j) == \E r \in Finished : Move(j, {"running"}, r)
Fail(j)   == Move(j, {"queued"}, "failed")

\* A user retries what did not end done.
Retry(j) == Move(j, {"failed", "quarantined"}, "queued")

\* A restart queues what was running, all of it at once.
Restart == status' = [j \in Jobs |-> IF status[j] = "running" THEN "queued" ELSE status[j]]

Next == Restart \/ \E j \in Jobs : Submit(j) \/ Start(j) \/ Finish(j) \/ Fail(j) \/ Retry(j)

Spec == Init /\ [][Next]_status
=============================================================================
