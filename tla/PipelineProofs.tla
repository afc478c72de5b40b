----------------------------- MODULE PipelineProofs -----------------------------
(***************************************************************************)
(* For any documents, settings, limits and model answers: no slot of the   *)
(* semaphore is lost; a run of translate_file does what Translation        *)
(* promises, above all that what it publishes has passed the gate; what is *)
(* in brackets stays so; established terms hold; every line has the text   *)
(* and every cue the pronoun hint that were made for it.                   *)
(***************************************************************************)
EXTENDS Pipeline, FiniteSetTheorems, SequenceTheorems, WellFoundedInduction, TLAPS

-----------------------------------------------------------------------------
(* The semaphore. *)

\* A record that has the fields which calls set.
IsTask(x) == /\ x = [f \in DOMAIN x |-> x[f]]
             /\ {"pc", "tier", "tries", "answer"} \subseteq DOMAIN x

\* Tasks are there only in the stages that call a model, one in a repair.
TasksInv ==
  /\ \A t \in DOMAIN tasks : IsTask(tasks[t])
  /\ stage \notin CallStages => DOMAIN tasks = {}
  /\ stage = "repair" => DOMAIN tasks = {1}

SlotsInv ==
  /\ slots \in Nat
  /\ IsFiniteSet(Holding)
  /\ slots + Cardinality(Holding) = Limit

CallInv == TasksInv /\ SlotsInv

\* One task changes: the others keep what they hold.
LEMMA TaskReplaced ==
  ASSUME NEW t \in DOMAIN tasks, NEW new, IsTask(new),
         \A x \in DOMAIN tasks : IsTask(tasks[x]),
         tasks' = [tasks EXCEPT ![t] = new]
  PROVE  /\ DOMAIN tasks' = DOMAIN tasks
         /\ \A x \in DOMAIN tasks' : IsTask(tasks'[x])
         /\ Holding' = IF new.pc = "call" THEN Holding \union {t} ELSE Holding \ {t}
<1>1. DOMAIN tasks' = DOMAIN tasks
  OBVIOUS
<1>2. \A x \in DOMAIN tasks : tasks'[x] = IF x = t THEN new ELSE tasks[x]
  OBVIOUS
<1>3. \A x \in DOMAIN tasks' : IsTask(tasks'[x])
  BY <1>1, <1>2
<1> QED BY <1>1, <1>2, <1>3 DEF Holding

\* A task that waited takes a slot.
LEMMA SlotTaken ==
  ASSUME SlotsInv, NEW t, t \notin Holding, Holding' = Holding \union {t},
         slots > 0, slots' = slots - 1
  PROVE  SlotsInv'
<1>1. IsFiniteSet(Holding') /\ Cardinality(Holding') = Cardinality(Holding) + 1
  BY FS_AddElement DEF SlotsInv
<1>2. Cardinality(Holding) \in Nat /\ Limit \in Nat
  BY FS_CardinalityType, PipelineAssumption DEF SlotsInv
<1> QED BY <1>1, <1>2 DEF SlotsInv

\* A task that holds a slot gives it back.
LEMMA SlotGiven ==
  ASSUME SlotsInv, NEW t \in Holding, Holding' = Holding \ {t}, slots' = slots + 1
  PROVE  SlotsInv'
<1>1. IsFiniteSet(Holding') /\ Cardinality(Holding') = Cardinality(Holding) - 1
  BY FS_RemoveElement DEF SlotsInv
<1>2. Cardinality(Holding) \in Nat /\ Limit \in Nat
  BY FS_CardinalityType, PipelineAssumption DEF SlotsInv
<1> QED BY <1>1, <1>2 DEF SlotsInv

\* All tasks are replaced: what they hold comes back at once.
LEMMA SlotsCleared ==
  ASSUME SlotsInv, Holding' = {}, slots' = slots + Cardinality(Holding)
  PROVE  SlotsInv'
<1>1. Cardinality(Holding) \in Nat /\ Limit \in Nat
  BY FS_CardinalityType, PipelineAssumption DEF SlotsInv
<1>2. IsFiniteSet({}) /\ Cardinality({}) = 0
  BY FS_EmptySet
<1> QED BY <1>1, <1>2 DEF SlotsInv

\* Nobody holds a slot before or after.
LEMMA SlotsUntouched ==
  ASSUME SlotsInv, Holding = {}, Holding' = {}, slots' = slots
  PROVE  SlotsInv'
BY DEF SlotsInv

\* Nothing is held by tasks that have all answered, or by new ones.
LEMMA NewTasks ==
  ASSUME NEW cues, NEW hints, tasks' = [b \in DOMAIN cues |-> Asks(cues[b], hints[b])]
  PROVE  /\ DOMAIN tasks' = DOMAIN cues
         /\ Holding' = {}
         /\ \A x \in DOMAIN tasks' : IsTask(tasks'[x])
BY DEF Asks, Holding, IsTask

\* Without tasks nothing is held.
LEMMA NoTasks ==
  ASSUME tasks' = <<>>
  PROVE  DOMAIN tasks' = {} /\ Holding' = {}
BY DEF Holding

\* A call that ends gives its slot back, whatever its answer.
LEMMA CallEnds ==
  ASSUME CallInv, NEW t \in DOMAIN tasks, tasks[t].pc = "call", stage' = stage,
         NEW pc \in {"ok", "bad", "raised", "wait"}, NEW tries, NEW answer,
         tasks' = [tasks EXCEPT ![t] = [@ EXCEPT !.pc = pc, !.tries = tries, !.answer = answer]],
         slots' = slots + 1
  PROVE  CallInv'
<1> DEFINE new == [tasks[t] EXCEPT !.pc = pc, !.tries = tries, !.answer = answer]
<1>1. IsTask(tasks[t])
  BY DEF CallInv, TasksInv
<1>2. IsTask(new) /\ new.pc = pc
  BY <1>1 DEF IsTask
<1>3. tasks' = [tasks EXCEPT ![t] = new]
  OBVIOUS
<1> HIDE DEF new
<1>4. /\ DOMAIN tasks' = DOMAIN tasks
      /\ \A x \in DOMAIN tasks' : IsTask(tasks'[x])
      /\ Holding' = Holding \ {t}
  BY <1>2, <1>3, TaskReplaced DEF CallInv, TasksInv
<1>5. t \in Holding
  BY DEF Holding
<1>6. SlotsInv'
  BY <1>4, <1>5, SlotGiven DEF CallInv
<1>7. TasksInv'
  BY <1>4 DEF CallInv, TasksInv
<1> QED BY <1>6, <1>7 DEF CallInv

\* Acquiring, falling back, and every answer.
LEMMA AcquireKeeps ==
  ASSUME CallInv, NEW t \in DOMAIN tasks, Acquire(t)
  PROVE  CallInv'
<1> DEFINE new == [tasks[t] EXCEPT !.pc = "call", !.tier = 1]
<1>1. IsTask(new) /\ new.pc = "call"
  BY DEF CallInv, TasksInv, IsTask
<1>2. tasks' = [tasks EXCEPT ![t] = new]
  BY DEF Acquire
<1> HIDE DEF new
<1>3. /\ DOMAIN tasks' = DOMAIN tasks
      /\ \A x \in DOMAIN tasks' : IsTask(tasks'[x])
      /\ Holding' = Holding \union {t}
  BY <1>1, <1>2, TaskReplaced DEF CallInv, TasksInv
<1>4. t \notin Holding /\ slots > 0 /\ slots' = slots - 1 /\ stage' = stage
  BY DEF Acquire, Holding
<1>5. SlotsInv'
  BY <1>3, <1>4, SlotTaken DEF CallInv
<1>6. TasksInv'
  BY <1>3, <1>4 DEF CallInv, TasksInv
<1> QED BY <1>5, <1>6 DEF CallInv

\* The answers and errors that end a call keep the account of slots.
LEMMA EndsKeeps ==
  ASSUME CallInv, NEW t \in DOMAIN tasks, tasks[t].pc = "call", stage' = stage,
         NEW pc \in {"ok", "bad", "raised"}, NEW answer, Ends(t, pc, answer)
  PROVE  CallInv'
<1>1. IsTask(tasks[t])
  BY DEF CallInv, TasksInv
<1>2. [tasks[t] EXCEPT !.pc = pc, !.answer = answer]
        = [tasks[t] EXCEPT !.pc = pc, !.tries = tasks[t].tries, !.answer = answer]
  BY <1>1 DEF IsTask
<1>3. tasks' = [tasks EXCEPT ![t] = [tasks[t] EXCEPT !.pc = pc, !.answer = answer]]
  BY DEF Ends
<1>4. slots' = slots + 1
  BY DEF Ends, Release
<1> QED BY <1>2, <1>3, <1>4, CallEnds

\* An error of a call: it falls back to the next tier and holds on, or it ends.
LEMMA CallFailsKeeps ==
  ASSUME CallInv, NEW t \in DOMAIN tasks, CallFails(t)
  PROVE  CallInv'
<1>1. tasks[t].pc = "call" /\ stage' = stage
  BY DEF CallFails
<1>2. CASE tasks' = [tasks EXCEPT ![t].tier = @ + 1] /\ UNCHANGED slots
  <2> DEFINE new == [tasks[t] EXCEPT !.tier = tasks[t].tier + 1]
  <2>1. IsTask(new) /\ new.pc = "call"
    BY <1>1 DEF CallInv, TasksInv, IsTask
  <2>2. tasks' = [tasks EXCEPT ![t] = new]
    BY <1>2
  <2> HIDE DEF new
  <2>3. /\ DOMAIN tasks' = DOMAIN tasks
        /\ \A x \in DOMAIN tasks' : IsTask(tasks'[x])
        /\ Holding' = Holding \union {t}
    BY <2>1, <2>2, TaskReplaced DEF CallInv, TasksInv
  <2>4. Holding' = Holding
    BY <1>1, <2>3 DEF Holding
  <2> QED BY <1>1, <1>2, <2>3, <2>4 DEF CallInv, TasksInv, SlotsInv
<1>3. CASE Ends(t, "ok", Kept)
  BY <1>1, <1>3, EndsKeeps
<1>4. CASE Ends(t, "raised", <<>>)
  BY <1>1, <1>4, EndsKeeps
<1> QED BY <1>2, <1>3, <1>4 DEF CallFails

\* An answer, also one of Pass 3 that is sent back to be corrected.
LEMMA AnsweredKeeps ==
  ASSUME CallInv, NEW t \in DOMAIN tasks, Answered(t)
  PROVE  CallInv'
<1>1. tasks[t].pc = "call" /\ stage' = stage
  BY DEF Answered, AnalyzeAnswered, AttributeAnswered, TranslateAnswered, ReviewAnswered
<1>2. ASSUME NEW pc \in {"ok", "bad"}, NEW answer, Ends(t, pc, answer)
      PROVE  CallInv'
  BY <1>1, <1>2, EndsKeeps
<1>3. CASE AnalyzeAnswered(t)
  BY <1>2, <1>3 DEF AnalyzeAnswered
<1>4. CASE AttributeAnswered(t)
  BY <1>2, <1>4 DEF AttributeAnswered
<1>5. CASE ReviewAnswered(t)
  BY <1>2, <1>5 DEF ReviewAnswered
<1>6. CASE TranslateAnswered(t)
  <2> DEFINE pc == IF tasks[t].tries + 1 = settings.attempts THEN "bad" ELSE "wait"
  <2>1. CASE /\ tasks' = [tasks EXCEPT ![t].tries = @ + 1, ![t].pc = pc]
             /\ slots' = Release("bad")
    <3>1. IsTask(tasks[t])
      BY DEF CallInv, TasksInv
    <3>2. [tasks[t] EXCEPT !.tries = tasks[t].tries + 1, !.pc = pc]
            = [tasks[t] EXCEPT !.pc = pc, !.tries = tasks[t].tries + 1,
                               !.answer = tasks[t].answer]
      BY <3>1 DEF IsTask
    <3>3. tasks' = [tasks EXCEPT ![t] = [tasks[t] EXCEPT !.tries = tasks[t].tries + 1,
                                                         !.pc = pc]]
      BY <2>1
    <3>4. pc \in {"ok", "bad", "raised", "wait"} /\ slots' = slots + 1
      BY <2>1 DEF Release
    <3> HIDE DEF pc
    <3>5. ASSUME NEW tries, NEW answer,
                 tasks' = [tasks EXCEPT ![t] = [tasks[t] EXCEPT !.pc = pc, !.tries = tries,
                                                               !.answer = answer]]
          PROVE  CallInv'
      BY <1>1, <3>4, <3>5, CallEnds
    <3>6. tasks' = [tasks EXCEPT ![t] = [tasks[t] EXCEPT !.pc = pc,
                                           !.tries = tasks[t].tries + 1,
                                           !.answer = tasks[t].answer]]
      BY <3>2, <3>3
    <3> HIDE DEF CallInv
    <3> QED BY <3>5, <3>6
  <2>2. \/ tasks' = [tasks EXCEPT ![t].tries = @ + 1, ![t].pc = pc] /\ slots' = Release("bad")
        \/ \E answer : Ends(t, "ok", answer)
    BY <1>6 DEF TranslateAnswered
  <2> QED BY <1>2, <2>1, <2>2
<1> QED BY <1>3, <1>4, <1>5, <1>6 DEF Answered

\* The stages: whoever leaves one that calls a model has its slots back.
LEMMA NobodyHolds ==
  ASSUME TasksInv, \/ stage \notin CallStages \/ AllOk
                   \/ \A t \in DOMAIN tasks : tasks[t].pc \in {"ok", "bad"}
                   \/ stage = "repair" /\ tasks[1].pc = "bad"
  PROVE  Holding = {}
BY DEF TasksInv, Holding, AllOk

\* A stage begins whose calls are all waiting.
LEMMA CallsKeeps ==
  ASSUME CallInv, Holding = {}, UNCHANGED slots, NEW next \in Stages \ {"repair"},
         next \in CallStages, NEW cues, NEW hints, Calls(next, cues, hints)
  PROVE  CallInv'
<1>1. /\ Holding' = {}
      /\ \A x \in DOMAIN tasks' : IsTask(tasks'[x])
  BY NewTasks DEF Calls
<1>2. stage' = next
  BY DEF Calls, Goto
<1> QED BY <1>1, <1>2, SlotsUntouched DEF CallInv, TasksInv

\* So does a repair, which is a single call.
LEMMA RepairKeeps ==
  ASSUME CallInv, Holding = {}, UNCHANGED slots, NEW cues, NEW hints,
         Calls("repair", <<cues>>, <<hints>>)
  PROVE  CallInv'
<1>1. /\ DOMAIN tasks' = {1} /\ Holding' = {}
      /\ \A x \in DOMAIN tasks' : IsTask(tasks'[x])
  BY NewTasks DEF Calls
<1>2. stage' = "repair"
  BY DEF Calls, Goto
<1> QED BY <1>1, <1>2, SlotsUntouched DEF CallInv, TasksInv, CallStages

\* A stage ends and its calls with it: nobody held a slot, or it comes back.
LEMMA LeavesCalls ==
  ASSUME CallInv, tasks' = <<>>, stage' \notin CallStages,
         \/ Holding = {} /\ UNCHANGED slots
         \/ slots' = slots + Cardinality(Holding)
  PROVE  CallInv'
<1>1. SlotsInv'
  BY NoTasks, SlotsCleared, SlotsUntouched DEF CallInv
<1>2. TasksInv'
  BY NoTasks DEF TasksInv, CallStages
<1> QED BY <1>1, <1>2 DEF CallInv

\* A step that concerns neither calls nor slots.
LEMMA QuietStep ==
  ASSUME CallInv, UNCHANGED <<tasks, slots>>,
         \/ stage' = stage
         \/ stage \notin CallStages /\ stage' \notin CallStages
  PROVE  CallInv'
BY DEF CallInv, TasksInv, SlotsInv, Holding, CallStages

\* Every stage of translate_file keeps the account of slots.
LEMMA StepKeepsCalls ==
  ASSUME CallInv, Step
  PROVE  CallInv'
<1> USE DEF passes, result, disk, history, pronouns
<1>1. CASE Claim
  BY <1>1, QuietStep DEF Claim, Goto, CallStages
<1>2. CASE Open
  <2>1. Holding = {}
    BY <1>2, NobodyHolds DEF Open, CallStages, CallInv
  <2> QED BY <1>2, <2>1, CallsKeeps DEF Open, Stages, CallStages
<1>3. CASE OpenMechanical
  <2>1. Holding = {}
    BY <1>3, NobodyHolds DEF OpenMechanical, CallStages, CallInv
  <2> QED BY <1>3, <2>1, CallsKeeps DEF OpenMechanical, Stages, CallStages
<1>4. CASE Analyzed
  <2>1. Holding = {}
    BY <1>4, NobodyHolds DEF Analyzed, CallInv
  <2> QED BY <1>4, <2>1, LeavesCalls DEF Analyzed, Goto, Quarantines, Stops, CallStages
<1>5. CASE Merge
  BY <1>5, QuietStep DEF Merge, Goto, CallStages
<1>6. CASE Reload
  <2>1. Holding = {} /\ stage = "reload"
    BY <1>6, NobodyHolds DEF Reload, CallStages, CallInv
  <2>2. \/ Goto("reconcile") /\ UNCHANGED <<tasks, slots>>
        \/ /\ Calls("attribute", Batches(source, settings.attrCues),
                      NoHints(Batches(source, settings.attrCues)))
           /\ UNCHANGED slots
    BY <1>6 DEF Reload
  <2>3. CASE Goto("reconcile") /\ UNCHANGED <<tasks, slots>>
    BY <2>1, <2>3, QuietStep DEF Goto, CallStages
  <2> QED BY <2>1, <2>2, <2>3, CallsKeeps DEF Stages, CallStages
<1>7. CASE AttributionsDone
  <2>1. Holding = {}
    BY <1>7, NobodyHolds DEF AttributionsDone, CallInv
  <2> QED BY <1>7, <2>1, LeavesCalls DEF AttributionsDone, Goto, CallStages
<1>8. CASE Reconcile
  BY <1>8, QuietStep DEF Reconcile, Goto, CallStages
<1>9. CASE DispatchTranslation
  <2>1. Holding = {}
    BY <1>9, NobodyHolds DEF DispatchTranslation, CallStages, CallInv
  <2> QED BY <1>9, <2>1, CallsKeeps DEF DispatchTranslation, Stages, CallStages
<1>10. CASE TranslationsDone
  <2>1. Holding = {}
    BY <1>10, NobodyHolds DEF TranslationsDone, CallInv
  <2>2. \/ Goto("gate") /\ tasks' = <<>> /\ UNCHANGED slots
        \/ /\ Calls("review", Batches(source, settings.reviewCues),
                      NoHints(Batches(source, settings.reviewCues)))
           /\ UNCHANGED slots
    BY <1>10 DEF TranslationsDone
  <2>3. CASE Goto("gate") /\ tasks' = <<>> /\ UNCHANGED slots
    BY <2>1, <2>3, LeavesCalls DEF Goto, CallStages
  <2> QED BY <2>1, <2>2, <2>3, CallsKeeps DEF Stages, CallStages
<1>11. CASE ReviewDone
  <2>1. Holding = {}
    BY <1>11, NobodyHolds DEF ReviewDone, CallInv
  <2> QED BY <1>11, <2>1, LeavesCalls DEF ReviewDone, Goto, CallStages
<1>12. CASE GroupFails
  BY <1>12, LeavesCalls DEF GroupFails, Quarantines, Stops, CallStages
<1>13. CASE GatePasses
  BY <1>13, QuietStep DEF GatePasses, Goto, CallStages
<1>14. CASE GateRepairs
  <2>1. Holding = {}
    BY <1>14, NobodyHolds DEF GateRepairs, CallStages, CallInv
  <2> QED BY <1>14, <2>1, RepairKeeps DEF GateRepairs
<1>15. CASE GateQuarantines
  <2>1. Holding = {}
    BY <1>15, NobodyHolds DEF GateQuarantines, CallStages, CallInv
  <2> QED BY <1>15, <2>1, LeavesCalls DEF GateQuarantines, Quarantines, Stops, CallStages
<1>16. CASE RepairDone
  <2>1. Holding = {}
    BY <1>16, NobodyHolds DEF RepairDone, CallInv
  <2> QED BY <1>16, <2>1, LeavesCalls DEF RepairDone, Goto, CallStages
<1>17. CASE RepairMissed
  <2>1. Holding = {}
    BY <1>17, NobodyHolds DEF RepairMissed, CallInv
  <2> QED BY <1>17, <2>1, LeavesCalls DEF RepairMissed, Quarantines, Stops, CallStages
<1>18. CASE Write
  BY <1>18, QuietStep DEF Write, Goto, CallStages
<1>19. CASE Finish
  <2>1. Holding = {}
    BY <1>19, NobodyHolds DEF Finish, CallStages, CallInv
  <2> QED BY <1>19, <2>1, LeavesCalls DEF Finish, Stops, CallStages
<1> QED BY <1>1, <1>2, <1>3, <1>4, <1>5, <1>6, <1>7, <1>8, <1>9, <1>10, <1>11, <1>12,
           <1>13, <1>14, <1>15, <1>16, <1>17, <1>18, <1>19 DEF Step

\* The faults: an exception or a cancellation gives back what was held.
LEMMA FaultKeepsCalls ==
  ASSUME CallInv, Fault
  PROVE  CallInv'
<1> USE DEF passes, result, disk, history, pronouns
<1>1. CASE \E t \in DOMAIN tasks : CallFails(t)
  BY <1>1, CallFailsKeeps
<1>2. CASE Unreadable
  <2>1. Holding = {}
    BY <1>2, NobodyHolds DEF Unreadable, CallStages, CallInv
  <2> QED BY <1>2, <2>1, LeavesCalls DEF Unreadable, Quarantines, Stops, CallStages
<1>3. CASE MergeFails
  <2>1. Holding = {}
    BY <1>3, NobodyHolds DEF MergeFails, CallStages, CallInv
  <2> QED BY <1>3, <2>1, LeavesCalls DEF MergeFails, Quarantines, Stops, CallStages
<1>4. CASE ReconcileFails
  <2>1. Holding = {}
    BY <1>4, NobodyHolds DEF ReconcileFails, CallStages, CallInv
  <2> QED BY <1>4, <2>1, LeavesCalls DEF ReconcileFails, Stops, CallStages
<1>5. CASE Breaks
  BY <1>5, LeavesCalls DEF Breaks, Stops, CallStages
<1>6. CASE MergeUnloaded
  BY <1>6, QuietStep DEF MergeUnloaded, Goto, CallStages
<1> QED BY <1>1, <1>2, <1>3, <1>4, <1>5, <1>6 DEF Fault

\* Every step keeps it,
LEMMA NextKeepsCalls ==
  ASSUME CallInv, [Next]_vars
  PROVE  CallInv'
<1>1. CASE Call
  BY <1>1, AcquireKeeps, AnsweredKeeps DEF Call
<1>2. CASE \E p \in Pairs : UserEdits(p)
  BY <1>2, QuietStep DEF UserEdits, passes
<1>3. CASE UNCHANGED vars
  BY <1>3, QuietStep DEF vars
<1> QED BY <1>1, <1>2, <1>3, StepKeepsCalls, FaultKeepsCalls DEF Next

\* and it is right at the beginning.
LEMMA InitCalls == Init => CallInv
<1> SUFFICES ASSUME Init PROVE CallInv
  OBVIOUS
<1>1. tasks = <<>> /\ slots = Limit /\ stage = "claim"
  BY DEF Init
<1>2. Holding = {} /\ DOMAIN tasks = {}
  BY <1>1 DEF Holding
<1>3. IsFiniteSet({}) /\ Cardinality({}) = 0
  BY FS_EmptySet
<1> QED BY <1>1, <1>2, <1>3, PipelineAssumption DEF CallInv, TasksInv, SlotsInv, CallStages

\* A slot of the semaphore is free or held by a call under way, whatever the
\* models answer, whichever call fails and whenever the run is cancelled.
THEOREM SlotsAreAccounted == Spec => []SlotsAccounted
<1>1. CallInv => SlotsAccounted
  BY DEF CallInv, SlotsInv, SlotsAccounted
<1> QED BY <1>1, InitCalls, NextKeepsCalls, PTL DEF Spec

-----------------------------------------------------------------------------
(* What a run promises. *)

\* How far a run is tells what is on disk, and what it is about to write has
\* passed the gate.
RunInv ==
  /\ outcome = "none" <=> stage # "end"
  /\ stage = "claim" => row = "none"
  /\ stage \notin {"claim", "end"} => row = "in_progress"
  /\ stage \notin {"finish", "end"} => sidecar = <<>>
  /\ stage = "write" => Verdict = Passed
  /\ stage = "finish" => sidecar = <<lines>> /\ Verdict = Passed

\* The sidecar as Translation sees it.
Shown == IF sidecar = <<>> THEN "none"
         ELSE IF Gate(source, sidecar[1]) = Passed THEN "passed" ELSE "unchecked"

Promised == RunInv' /\ [T!Next]_<<row, Shown, outcome>>

\* What Translation does not see: a step within a stage.
LEMMA WithinStage ==
  ASSUME RunInv, UNCHANGED <<source, stage, lines, row, sidecar, outcome>>
  PROVE  Promised
BY DEF Promised, RunInv, Shown, Verdict

\* A step to another stage between the claim and the write.
LEMMA BetweenStages ==
  ASSUME RunInv, stage \notin {"claim", "write", "finish", "end"},
         stage' \notin {"claim", "write", "finish", "end"},
         UNCHANGED <<source, row, sidecar, outcome>>
  PROVE  Promised
BY DEF Promised, RunInv, Shown

\* An end that gives the file up, with nothing published.
LEMMA GivesUp ==
  ASSUME RunInv, stage \notin {"claim", "finish", "end"},
         NEW how \in {"quarantined", "failed"}, Quarantines(how),
         UNCHANGED <<source, sidecar>>
  PROVE  Promised
<1>1. row = "in_progress" /\ Shown = "none" /\ outcome = "none"
  BY DEF RunInv, Shown
<1>2. row' = "quarantined" /\ stage' = "end" /\ outcome' = how /\ Shown' = Shown
  BY DEF Quarantines, Stops, Shown
<1>3. T!GiveUp
  BY <1>1, <1>2 DEF T!GiveUp, Shown
<1>4. RunInv'
  BY <1>2 DEF RunInv
<1> QED BY <1>3, <1>4 DEF Promised, T!Next

\* An end without the record of one.
LEMMA EndsFailed ==
  ASSUME RunInv, stage # "end", Stops("failed"), UNCHANGED <<source, row, sidecar>>
  PROVE  Promised
<1>1. outcome = "none" /\ outcome' = "failed" /\ stage' = "end" /\ UNCHANGED <<row, Shown>>
  BY DEF RunInv, Stops, Shown
<1>2. T!Fail
  BY <1>1 DEF T!Fail, Shown
<1>3. RunInv'
  BY <1>1 DEF RunInv
<1> QED BY <1>2, <1>3 DEF Promised, T!Next

\* Every stage is a step of Translation or none that it sees.
LEMMA StepPromised ==
  ASSUME RunInv, Step
  PROVE  Promised
<1> USE DEF passes, result, disk, history, pronouns
<1>1. CASE Claim
  <2>1. row = "none" /\ outcome = "none" /\ row' = "in_progress" /\ stage' = "open"
        /\ UNCHANGED <<Shown, outcome, sidecar>>
    BY <1>1 DEF Claim, Goto, RunInv, Shown
  <2>2. T!Claim
    BY <2>1 DEF T!Claim, Shown
  <2>3. RunInv'
    BY <1>1, <2>1 DEF RunInv, Claim
  <2> QED BY <2>2, <2>3 DEF Promised, T!Next
<1>2. CASE Open
  BY <1>2, BetweenStages DEF Open, Calls, Goto
<1>3. CASE OpenMechanical
  BY <1>3, BetweenStages DEF OpenMechanical, Calls, Goto
<1>4. CASE Analyzed
  BY <1>4, BetweenStages, GivesUp DEF Analyzed, Goto
<1>5. CASE Merge
  BY <1>5, BetweenStages DEF Merge, Goto
<1>6. CASE Reload
  BY <1>6, BetweenStages DEF Reload, Calls, Goto
<1>7. CASE AttributionsDone
  BY <1>7, BetweenStages DEF AttributionsDone, Goto
<1>8. CASE Reconcile
  BY <1>8, BetweenStages DEF Reconcile, Goto
<1>9. CASE DispatchTranslation
  BY <1>9, BetweenStages DEF DispatchTranslation, Calls, Goto
<1>10. CASE TranslationsDone
  BY <1>10, BetweenStages DEF TranslationsDone, Calls, Goto
<1>11. CASE ReviewDone
  BY <1>11, BetweenStages DEF ReviewDone, Goto
<1>12. CASE GroupFails
  BY <1>12, GivesUp, EndsFailed DEF GroupFails
<1>13. CASE GatePasses
  <2>1. /\ stage = "gate" /\ Verdict = Passed /\ stage' = "write"
        /\ UNCHANGED <<source, lines, row, sidecar, outcome>>
    BY <1>13 DEF GatePasses, Goto
  <2>2. RunInv'
    BY <2>1 DEF RunInv, Verdict
  <2>3. UNCHANGED <<row, Shown, outcome>>
    BY <2>1 DEF Shown
  <2> QED BY <2>2, <2>3 DEF Promised
<1>14. CASE GateRepairs
  BY <1>14, BetweenStages DEF GateRepairs, Calls, Goto
<1>15. CASE GateQuarantines
  BY <1>15, GivesUp DEF GateQuarantines
<1>16. CASE RepairDone
  BY <1>16, BetweenStages DEF RepairDone, Goto
<1>17. CASE RepairMissed
  BY <1>17, GivesUp DEF RepairMissed
<1>18. CASE Write
  <2>1. /\ stage = "write" /\ stage' = "finish" /\ sidecar' = <<lines>>
        /\ UNCHANGED <<source, lines, row, outcome>>
    BY <1>18 DEF Write, Goto
  <2>2. row = "in_progress" /\ sidecar = <<>> /\ outcome = "none" /\ Verdict = Passed
    BY <2>1 DEF RunInv
  <2>3. Verdict' = Passed
    BY <2>1, <2>2 DEF Verdict
  <2>4. Shown = "none" /\ Shown' = "passed"
    BY <2>1, <2>2 DEF Shown, Verdict
  <2>5. T!Publish
    BY <2>1, <2>2, <2>4 DEF T!Publish, Shown
  <2>6. RunInv'
    BY <2>1, <2>2, <2>3 DEF RunInv
  <2> QED BY <2>5, <2>6 DEF Promised, T!Next
<1>19. CASE Finish
  <2>1. /\ stage = "finish" /\ stage' = "end" /\ row' = "done" /\ outcome' = "done"
        /\ UNCHANGED <<source, lines, sidecar>>
    BY <1>19 DEF Finish, Stops
  <2>2. outcome = "none" /\ sidecar = <<lines>> /\ Verdict = Passed
    BY <2>1 DEF RunInv
  <2>3. Shown = "passed" /\ Shown' = Shown
    BY <2>1, <2>2 DEF Shown, Verdict
  <2>4. T!Complete
    BY <2>1, <2>2, <2>3 DEF T!Complete, Shown
  <2>5. RunInv'
    BY <2>1 DEF RunInv
  <2> QED BY <2>4, <2>5 DEF Promised, T!Next
<1> QED BY <1>1, <1>2, <1>3, <1>4, <1>5, <1>6, <1>7, <1>8, <1>9, <1>10, <1>11, <1>12,
           <1>13, <1>14, <1>15, <1>16, <1>17, <1>18, <1>19 DEF Step

\* So is every call, fault and edit.
LEMMA NextPromised ==
  ASSUME RunInv, [Next]_vars
  PROVE  Promised
<1> USE DEF passes, result, disk, history, pronouns
<1>1. CASE Call
  BY <1>1, WithinStage DEF Call, Acquire, Answered, AnalyzeAnswered, AttributeAnswered,
     TranslateAnswered, ReviewAnswered
<1>2. CASE \E t \in DOMAIN tasks : CallFails(t)
  BY <1>2, WithinStage DEF CallFails
<1>3. CASE Unreadable
  BY <1>3, GivesUp DEF Unreadable
<1>4. CASE MergeFails
  BY <1>4, GivesUp DEF MergeFails
<1>5. CASE ReconcileFails
  BY <1>5, EndsFailed DEF ReconcileFails
<1>6. CASE Breaks
  BY <1>6, EndsFailed DEF Breaks
<1>7. CASE \E p \in Pairs : UserEdits(p)
  BY <1>7, WithinStage DEF UserEdits
<1>8. CASE UNCHANGED vars
  BY <1>8, WithinStage DEF vars
<1>9. CASE MergeUnloaded
  BY <1>9, BetweenStages DEF MergeUnloaded, Goto
<1> QED BY <1>1, <1>2, <1>3, <1>4, <1>5, <1>6, <1>7, <1>8, <1>9, StepPromised
        DEF Next, Fault

\* Whatever the models answer and whatever fails, a run publishes only what the
\* gate has passed in the very form that is written, records done only after
\* that, and leaves nothing behind that it gave up.
THEOREM ImplementsTranslation == Spec => Implements
<1>1. Init => RunInv /\ T!Init
  BY DEF Init, RunInv, T!Init
<1>2. RunInv /\ [Next]_vars => RunInv' /\ [T!Next]_<<row, Shown, outcome>>
  BY NextPromised DEF Promised
<1>3. Spec => T!Init /\ [][T!Next]_<<row, Shown, outcome>>
  BY <1>1, <1>2, PTL DEF Spec
<1> QED BY <1>3 DEF Implements, T!Spec, Shown

-----------------------------------------------------------------------------
(* Brackets. *)

IsLine(x) == x = [f \in DOMAIN x |-> x[f]] /\ "wrapped" \in DOMAIN x

\* A line for every cue of the source.
Lined(doc) == DOMAIN doc = DOMAIN source /\ \A i \in DOMAIN doc : IsLine(doc[i])

InBrackets(doc) ==
  \A i \in DOMAIN source : source[i].enclosed /\ ~ source[i].raw => doc[i].wrapped

\* From the assembly on there is a line for every cue; the brackets are there at
\* the gate, and stay until the write.
BracketInv ==
  /\ stage \in {"review", "gate", "repair", "write", "finish"} => Lined(lines)
  /\ stage \in {"gate", "repair", "write", "finish"} => InBrackets(lines)
  /\ \A doc \in Range(sidecar) : InBrackets(doc)

\* The envelopes are put back whatever the texts are.
LEMMA EnvelopesRestored ==
  ASSUME NEW doc, Lined(doc)
  PROVE  Lined(Enveloped(source, doc)) /\ InBrackets(Enveloped(source, doc))
<1> DEFINE new == Enveloped(source, doc)
<1>1. DOMAIN new = DOMAIN source
  BY DEF Enveloped, Lined
<1>2. ASSUME NEW i \in DOMAIN source
      PROVE  /\ IsLine(new[i])
             /\ source[i].enclosed /\ ~ source[i].raw => new[i].wrapped
  <2>1. new[i] = [doc[i] EXCEPT !.wrapped = @ \/ (source[i].enclosed /\ ~ source[i].raw)]
    BY DEF Enveloped, Lined
  <2>2. IsLine(doc[i])
    BY DEF Lined
  <2>3. IsLine(new[i])
    BY <2>1, <2>2 DEF IsLine
  <2>4. new[i].wrapped = (doc[i].wrapped \/ (source[i].enclosed /\ ~ source[i].raw))
    BY <2>1, <2>2 DEF IsLine
  <2> QED BY <2>3, <2>4
<1> QED BY <1>1, <1>2 DEF Lined, InBrackets

\* The assembly makes a line for every cue.
LEMMA AssembledLines ==
  ASSUME NEW results
  PROVE  Lined(Assembled(source, results))
BY DEF Assembled, Lined, IsLine, At, RawLine

\* So does the splice of the review,
LEMMA SplicedLines ==
  ASSUME Lined(lines), NEW batches, NEW results
  PROVE  Lined(Spliced(source, lines, batches, results))
BY DEF Spliced, Lined, IsLine, At

\* and that of a repair.
LEMMA RepairedLines ==
  ASSUME Lined(lines), NEW batch, NEW texts
  PROVE  Lined(Repaired(lines, batch, texts))
BY DEF Repaired, Lined, IsLine, At

\* A step that leaves the document alone, and does not skip the stage that
\* restores the envelopes.
LEMMA SameDocument ==
  ASSUME BracketInv, UNCHANGED <<source, lines, sidecar>>,
         \/ stage' = stage
         \/ stage' \notin {"review", "gate", "repair", "write", "finish"}
         \/ stage \in {"gate", "repair", "write"} /\ stage' # "review"
  PROVE  BracketInv'
BY DEF BracketInv, Lined, InBrackets

\* A step that makes a new document and restores the envelopes.
LEMMA NewDocument ==
  ASSUME BracketInv, UNCHANGED <<source, sidecar>>, stage' = "gate",
         NEW doc, Lined(doc), lines' = Enveloped(source, doc)
  PROVE  BracketInv'
<1>1. Lined(lines') /\ InBrackets(lines')
  BY EnvelopesRestored
<1> QED BY <1>1 DEF BracketInv, Lined, InBrackets

\* Every stage keeps the brackets,
LEMMA StepKeepsBrackets ==
  ASSUME BracketInv, Step
  PROVE  BracketInv'
<1> USE DEF passes, result, disk, history, pronouns
<1>1. CASE Claim
  BY <1>1, SameDocument DEF Claim, Goto
<1>2. CASE Open
  BY <1>2, SameDocument DEF Open, Calls, Goto
<1>3. CASE OpenMechanical
  BY <1>3, SameDocument DEF OpenMechanical, Calls, Goto
<1>4. CASE Analyzed
  BY <1>4, SameDocument DEF Analyzed, Goto, Quarantines, Stops
<1>5. CASE Merge
  BY <1>5, SameDocument DEF Merge, Goto
<1>6. CASE Reload
  BY <1>6, SameDocument DEF Reload, Calls, Goto
<1>7. CASE AttributionsDone
  BY <1>7, SameDocument DEF AttributionsDone, Goto
<1>8. CASE Reconcile
  BY <1>8, SameDocument DEF Reconcile, Goto
<1>9. CASE DispatchTranslation
  BY <1>9, SameDocument DEF DispatchTranslation, Calls, Goto
<1>10. CASE TranslationsDone
  <2> DEFINE doc == Assembled(source, Results)
  <2>1. Lined(doc)
    BY AssembledLines
  <2>2. UNCHANGED <<source, sidecar>>
        /\ \/ stage' = "review" /\ lines' = doc
           \/ stage' = "gate" /\ lines' = Enveloped(source, doc)
    BY <1>10 DEF TranslationsDone, Calls, Goto
  <2> HIDE DEF doc
  <2>3. CASE stage' = "review" /\ lines' = doc
    BY <2>1, <2>2, <2>3 DEF BracketInv, Lined, InBrackets
  <2> QED BY <2>1, <2>2, <2>3, NewDocument
<1>11. CASE ReviewDone
  <2>1. Lined(lines) /\ UNCHANGED <<source, sidecar>> /\ stage' = "gate"
    BY <1>11 DEF ReviewDone, Goto, BracketInv
  <2> DEFINE batches == [t \in DOMAIN tasks |-> tasks[t].cues]
             doc     == Spliced(source, lines, batches, Results)
  <2>2. lines' = Enveloped(source, doc)
    BY <1>11 DEF ReviewDone
  <2> HIDE DEF batches
  <2>3. Lined(doc)
    BY <2>1, SplicedLines
  <2> HIDE DEF doc
  <2> QED BY <2>1, <2>2, <2>3, NewDocument
<1>12. CASE GroupFails
  BY <1>12, SameDocument DEF GroupFails, Quarantines, Stops
<1>13. CASE GatePasses
  BY <1>13, SameDocument DEF GatePasses, Goto
<1>14. CASE GateRepairs
  BY <1>14, SameDocument DEF GateRepairs, Calls, Goto
<1>15. CASE GateQuarantines
  BY <1>15, SameDocument DEF GateQuarantines, Quarantines, Stops
<1>16. CASE RepairDone
  <2>1. Lined(lines) /\ UNCHANGED <<source, sidecar>> /\ stage' = "gate"
    BY <1>16 DEF RepairDone, Goto, BracketInv
  <2> DEFINE doc == Repaired(lines, tasks[1].cues, tasks[1].answer)
  <2>2. lines' = Enveloped(source, doc)
    BY <1>16 DEF RepairDone, AfterRepair
  <2>3. Lined(doc)
    BY <2>1, RepairedLines
  <2> HIDE DEF doc
  <2> QED BY <2>1, <2>2, <2>3, NewDocument
<1>17. CASE RepairMissed
  BY <1>17, SameDocument DEF RepairMissed, Quarantines, Stops
<1>18. CASE Write
  <2>1. Lined(lines) /\ InBrackets(lines)
    BY <1>18 DEF Write, BracketInv
  <2>2. sidecar' = <<lines>> /\ UNCHANGED <<source, lines>> /\ stage' = "finish"
    BY <1>18 DEF Write, Goto
  <2>3. Range(sidecar') = {lines}
    BY <2>2 DEF Range
  <2> QED BY <2>1, <2>2, <2>3 DEF BracketInv, Lined, InBrackets
<1>19. CASE Finish
  BY <1>19, SameDocument DEF Finish, Stops
<1> QED BY <1>1, <1>2, <1>3, <1>4, <1>5, <1>6, <1>7, <1>8, <1>9, <1>10, <1>11, <1>12,
           <1>13, <1>14, <1>15, <1>16, <1>17, <1>18, <1>19 DEF Step

\* and so does everything else.
LEMMA NextKeepsBrackets ==
  ASSUME BracketInv, [Next]_vars
  PROVE  BracketInv'
<1> USE DEF passes, result, disk, history, pronouns
<1>1. CASE Call
  BY <1>1, SameDocument DEF Call, Acquire, Answered, AnalyzeAnswered, AttributeAnswered,
     TranslateAnswered, ReviewAnswered
<1>2. CASE \E t \in DOMAIN tasks : CallFails(t)
  BY <1>2, SameDocument DEF CallFails
<1>3. CASE Unreadable
  BY <1>3, SameDocument DEF Unreadable, Quarantines, Stops
<1>4. CASE MergeFails
  BY <1>4, SameDocument DEF MergeFails, Quarantines, Stops
<1>5. CASE ReconcileFails
  BY <1>5, SameDocument DEF ReconcileFails, Stops
<1>6. CASE Breaks
  BY <1>6, SameDocument DEF Breaks, Stops
<1>7. CASE \E p \in Pairs : UserEdits(p)
  BY <1>7, SameDocument DEF UserEdits
<1>8. CASE UNCHANGED vars
  BY <1>8, SameDocument DEF vars
<1>9. CASE MergeUnloaded
  BY <1>9, SameDocument DEF MergeUnloaded, Goto
<1> QED BY <1>1, <1>2, <1>3, <1>4, <1>5, <1>6, <1>7, <1>8, <1>9, StepKeepsBrackets
           DEF Next, Fault

\* What the source has in brackets the sidecar has in brackets, whatever the
\* review and the repairs made of it (step 8.6, and again after each of them).
THEOREM EnvelopesAreKept == Spec => []EnvelopesKept
<1>1. Init => BracketInv
  BY DEF Init, BracketInv, Range
<1>2. BracketInv => EnvelopesKept
  BY DEF BracketInv, InBrackets, EnvelopesKept
<1> QED BY <1>1, <1>2, NextKeepsBrackets, PTL DEF Spec

-----------------------------------------------------------------------------
(* Established terms. *)

\* A pair that is established and not locked in the map which is resolved keeps
\* its terms, unless an event of the episode brings others.
LEMMA ResolutionOfEstablished ==
  ASSUME NEW m, NEW events, NEW dated, NEW attr, NEW threshold, NEW p \in Pairs,
         Established(m[p]),
         \A e \in Transitions(events, p) : e.terms = NoTerms
  PROVE  Reconciled(m, events, dated, attr, threshold)[p].terms = m[p].terms
<1> DEFINE direct == Directly(m, events, dated, attr, threshold)
           sure   == Sure(attr, threshold)
           here   == IF dated THEN Transitions(events, p) ELSE {}
<1>1. p \in Processed(m, attr)
  BY DEF Processed, Established
<1>2. direct[p] = Resolved1(m, events, dated, sure, p) /\ p \in DOMAIN direct
  BY <1>1 DEF Directly
<1>3. Resolved1(m, events, dated, sure, p).terms = m[p].terms
  <2>1. ASSUME here # {}
        PROVE  Derived(CHOOSE e \in here : TRUE, m[p], p \in sure) = m[p].terms
    <3>1. (CHOOSE e \in here : TRUE) \in Transitions(events, p)
      BY <2>1
    <3> QED BY <3>1 DEF Derived
  <2> HIDE DEF sure
  <2> QED BY <2>1 DEF Resolved1, Resolution
<1> HIDE DEF direct
<1>4. Completed(direct)[p] = direct[p]
  BY <1>2 DEF Completed
<1> QED BY <1>2, <1>3, <1>4 DEF Reconciled, direct

\* What a write-back may do, however far it gets.
Holds(p) ==
  /\ Established(map[p]) /\ map'[p].terms # map[p].terms
  /\ used'.edits = used.edits
  => /\ ~ map[p].locked
     /\ \/ stage = "merge" /\ used'.faults > used.faults
        \/ stage # "merge" /\ \/ \E e \in Transitions(bible.events, p) : e.terms # NoTerms
                              \/ map[p] # bible.map[p]

\* The write-back, of any part of what was resolved.
LEMMA WriteBackHolds ==
  ASSUME stage = "reconcile", NEW written, map' = Upserted(map, MyResolved, written), NEW p \in Pairs
  PROVE  Holds(p)
<1> SUFFICES ASSUME Established(map[p]), map'[p].terms # map[p].terms,
                    \A e \in Transitions(bible.events, p) : e.terms = NoTerms,
                    map[p] = bible.map[p]
             PROVE  FALSE
  <2>1. map'[p].terms # map[p].terms => ~ map[p].locked
    BY DEF Upserted
  <2> QED BY <2>1 DEF Holds
<1>1. MyResolved[p].terms = map[p].terms
  BY ResolutionOfEstablished DEF MyResolved
<1> QED BY <1>1 DEF Upserted

\* The bounds are counted, so that an edit is seen as one.
UsedOK == used \in [DOMAIN Bounds -> Nat]

\* A bound that is used stays a number.
LEMMA UsesCounted ==
  ASSUME UsedOK, NEW b \in DOMAIN Bounds, Uses(b)
  PROVE  UsedOK'
BY DEF UsedOK, Uses, Bounds

\* So do all.
LEMMA NextCounted ==
  ASSUME UsedOK, [Next]_vars
  PROVE  UsedOK'
<1>1. {"faults", "edits"} \subseteq DOMAIN Bounds
  BY DEF Bounds
<1>2. CASE UNCHANGED used
  BY <1>2 DEF UsedOK
<1>3. CASE Uses("faults") \/ Uses("edits")
  BY <1>1, <1>3, UsesCounted
<1>4. UNCHANGED used \/ Uses("faults") \/ Uses("edits")
  <2>1. CASE Step
    BY <2>1 DEF Step, Claim, Open, OpenMechanical, Analyzed, Merge, Reload,
       AttributionsDone, Reconcile, DispatchTranslation, TranslationsDone, ReviewDone,
       GroupFails, GatePasses, GateRepairs, GateQuarantines, RepairDone, RepairMissed,
       Write, Finish
  <2>2. CASE Call
    BY <2>2 DEF Call, Acquire, Answered, AnalyzeAnswered, AttributeAnswered,
       TranslateAnswered, ReviewAnswered
  <2>3. CASE Fault
    BY <2>3 DEF Fault, CallFails, Unreadable, MergeUnloaded, MergeFails,
       ReconcileFails, Breaks
  <2>4. CASE \E p \in Pairs : UserEdits(p)
    BY <2>4 DEF UserEdits
  <2>5. CASE UNCHANGED vars
    BY <2>5 DEF vars
  <2> QED BY <2>1, <2>2, <2>3, <2>4, <2>5 DEF Next
<1> QED BY <1>2, <1>3, <1>4

\* Nothing else of the run touches what is established.
LEMMA NextHolds ==
  ASSUME UsedOK, [Next]_vars, NEW p \in Pairs
  PROVE  Holds(p)
<1> USE DEF passes, result, disk, history, pronouns
<1>1. CASE UNCHANGED map
  BY <1>1 DEF Holds
<1>2. CASE Merge
  BY <1>2 DEF Merge, Enters, Holds, Established
<1>7. CASE MergeUnloaded
  <2>1. used["faults"] \in Nat /\ used' = [used EXCEPT !["faults"] = used["faults"] + 1]
        /\ "faults" \in DOMAIN used /\ stage = "merge"
    BY <1>7 DEF MergeUnloaded, Uses, UsedOK, Bounds
  <2>2. used'.faults > used.faults
    BY <2>1
  <2>3. map[p].locked => map'[p] = map[p]
    BY <1>7 DEF MergeUnloaded, Enters
  <2> QED BY <2>1, <2>2, <2>3 DEF Holds
<1>3. CASE Reconcile
  BY <1>3, WriteBackHolds DEF Reconcile
<1>4. CASE ReconcileFails
  BY <1>4, WriteBackHolds DEF ReconcileFails
<1>5. CASE \E q \in Pairs : UserEdits(q)
  <2>1. used["edits"] \in Nat /\ used' = [used EXCEPT !["edits"] = used["edits"] + 1]
        /\ "edits" \in DOMAIN used
    BY <1>5 DEF UserEdits, Uses, UsedOK, Bounds
  <2>2. used'.edits # used.edits
    BY <2>1
  <2> QED BY <2>2 DEF Holds
<1>6. UNCHANGED map \/ Merge \/ MergeUnloaded \/ Reconcile \/ ReconcileFails
      \/ \E q \in Pairs : UserEdits(q)
  <2>1. CASE Step
    BY <2>1 DEF Step, Claim, Open, OpenMechanical, Analyzed, Reload,
       AttributionsDone, DispatchTranslation, TranslationsDone, ReviewDone,
       GroupFails, GatePasses, GateRepairs, GateQuarantines, RepairDone, RepairMissed,
       Write, Finish
  <2>2. CASE Call
    BY <2>2 DEF Call, Acquire, Answered, AnalyzeAnswered, AttributeAnswered,
       TranslateAnswered, ReviewAnswered
  <2>3. CASE Fault
    BY <2>3 DEF Fault, CallFails, Unreadable, MergeFails, Breaks
  <2>4. CASE UNCHANGED vars
    BY <2>4 DEF vars
  <2> QED BY <2>1, <2>2, <2>3, <2>4 DEF Next
<1> QED BY <1>1, <1>2, <1>3, <1>4, <1>5, <1>6, <1>7

\* A run overwrites established terms only of a pair that nobody has locked, and
\* only for an event of the episode, where a user has edited them since it loaded
\* the Bible, or where the merge could not load it: for any Address Map, answers of
\* the models, attributions and events (D-34, D-54).
THEOREM EstablishedTermsHoldAlways == Spec => EstablishedTermsHold
<1>1. Init => UsedOK
  BY PipelineAssumption DEF Init, UsedOK, Bounds
<1>2. UsedOK /\ [Next]_vars => UsedOK' /\ \A p \in Pairs : Holds(p)
  BY NextCounted, NextHolds
<1> QED BY <1>1, <1>2, PTL DEF Spec, EstablishedTermsHold, Holds

-----------------------------------------------------------------------------
(* Numbers in ascending order. *)

\* Induction is by the least counterexample: a set of numbers has a least one.
LEMMA HasLeast ==
  ASSUME NEW S \in SUBSET Nat, S # {}
  PROVE  \E m \in S : \A y \in S : m <= y
<1>1. PICK x \in S : \A y \in S : ~ (<<y, x>> \in OpToRel(<, Nat))
  BY WFMin, NatLessThanWellFounded, Zenon
<1>2. \A y \in S : ~ (y < x)
  BY <1>1 DEF OpToRel
<1>3. x \in S /\ \A y \in S : x <= y
  BY <1>2
<1> QED BY <1>3

\* The elements of S up to x; their number is the place of x in S.
UpTo(S, x) == {y \in S : y <= x}

\* Of two elements the lower has the lower place.
LEMMA PlacesOrdered ==
  ASSUME NEW S \in SUBSET Nat, IsFiniteSet(S), NEW x \in S, NEW y \in S, x < y
  PROVE  Cardinality(UpTo(S, x)) < Cardinality(UpTo(S, y))
<1>0. x \in Nat /\ y \in Nat /\ \A z \in S : z \in Nat
  OBVIOUS
<1>1. IsFiniteSet(UpTo(S, y)) /\ IsFiniteSet(UpTo(S, x))
  BY FS_Subset DEF UpTo
<1>2. UpTo(S, x) \subseteq UpTo(S, y) /\ UpTo(S, x) # UpTo(S, y)
  <2>1. y \in UpTo(S, y) /\ y \notin UpTo(S, x)
    BY <1>0 DEF UpTo
  <2>2. ASSUME NEW z \in UpTo(S, x) PROVE z \in UpTo(S, y)
    <3>1. z \in S /\ z \in Nat /\ z <= x
      BY <1>0 DEF UpTo
    <3> QED BY <1>0, <3>1 DEF UpTo
  <2> QED BY <2>1, <2>2
<1>3. Cardinality(UpTo(S, x)) <= Cardinality(UpTo(S, y))
  BY <1>1, <1>2, FS_Subset
<1>4. Cardinality(UpTo(S, x)) # Cardinality(UpTo(S, y))
  BY <1>1, <1>2, FS_Subset
<1>5. Cardinality(UpTo(S, x)) \in Nat /\ Cardinality(UpTo(S, y)) \in Nat
  BY <1>1, FS_CardinalityType
<1> QED BY <1>3, <1>4, <1>5

\* Every element has its place.
LEMMA PlaceIs ==
  ASSUME NEW S \in SUBSET Nat, IsFiniteSet(S), NEW x \in S
  PROVE  Cardinality(UpTo(S, x)) \in 1..Cardinality(S)
<1>1. IsFiniteSet(UpTo(S, x)) /\ Cardinality(UpTo(S, x)) <= Cardinality(S)
  BY FS_Subset DEF UpTo
<1>2. UpTo(S, x) # {}
  BY DEF UpTo
<1> QED BY <1>1, <1>2, FS_CardinalityType, FS_EmptySet

\* Every place up to the number of elements is taken.
LEMMA PlacesTaken ==
  ASSUME NEW S \in SUBSET Nat, IsFiniteSet(S), NEW n \in 1..Cardinality(S)
  PROVE  \E x \in S : Cardinality(UpTo(S, x)) = n
<1> DEFINE Bad == {k \in 1..Cardinality(S) : \A x \in S : Cardinality(UpTo(S, x)) # k}
<1>0. Cardinality(S) \in Nat
  BY FS_CardinalityType
<1>1. SUFFICES ASSUME Bad # {} PROVE FALSE
  OBVIOUS
<1>2. PICK k \in Bad : \A j \in Bad : k <= j
  <2>1. Bad \in SUBSET Nat
    BY <1>0
  <2> HIDE DEF Bad
  <2> QED BY <1>1, <2>1, HasLeast
<1>3. k \in 1..Cardinality(S) /\ k \in Nat
  BY <1>0, <1>2
<1>4. PICK D \in SUBSET S : /\ IsFiniteSet(D) /\ Cardinality(D) = k - 1
                            /\ \A y \in S : \A z \in D : y <= z => y \in D
  <2>1. CASE k = 1
    BY <2>1, FS_EmptySet
  <2>2. CASE k # 1
    <3>1. k - 1 \notin Bad /\ k - 1 \in 1..Cardinality(S)
      BY <1>0, <1>2, <1>3, <2>2
    <3>2. PICK x \in S : Cardinality(UpTo(S, x)) = k - 1
      BY <3>1
    <3>3. IsFiniteSet(UpTo(S, x)) /\ UpTo(S, x) \in SUBSET S
      BY FS_Subset DEF UpTo
    <3>4. \A y \in S : \A z \in UpTo(S, x) : y <= z => y \in UpTo(S, x)
      BY DEF UpTo
    <3> QED BY <3>2, <3>3, <3>4
  <2> QED BY <2>1, <2>2
<1>5. S \ D # {}
  <2>1. CASE S = D
    BY <1>0, <1>3, <1>4, <2>1
  <2> QED BY <2>1
<1>6. PICK m \in S \ D : \A y \in S \ D : m <= y
  <2>1. S \ D \in SUBSET Nat
    OBVIOUS
  <2> QED BY <1>5, <2>1, HasLeast
<1>7. UpTo(S, m) = D \union {m}
  <2>1. \A y \in D : y <= m
    BY <1>4, <1>6
  <2>2. \A y \in S : y <= m => y \in D \union {m}
    BY <1>6
  <2> QED BY <1>6, <2>1, <2>2 DEF UpTo
<1>8. Cardinality(UpTo(S, m)) = k
  BY <1>3, <1>4, <1>6, <1>7, FS_AddElement
<1> QED BY <1>2, <1>6, <1>8

\* The k-th element is there, at the k-th place; an element is where its place is.
LEMMA NthIs ==
  ASSUME NEW S \in SUBSET Nat, IsFiniteSet(S), NEW k \in 1..Cardinality(S)
  PROVE  /\ Nth(S, k) \in S /\ Nth(S, k) \in Nat
         /\ Cardinality(UpTo(S, Nth(S, k))) = k
<1>1. \E x \in S : Cardinality({y \in S : y <= x}) = k
  BY PlacesTaken DEF UpTo
<1> QED BY <1>1 DEF Nth, UpTo

\* No two elements have one place.
LEMMA NthOf ==
  ASSUME NEW S \in SUBSET Nat, IsFiniteSet(S), NEW x \in S
  PROVE  /\ Cardinality(UpTo(S, x)) \in 1..Cardinality(S)
         /\ Nth(S, Cardinality(UpTo(S, x))) = x
<1> DEFINE k == Cardinality(UpTo(S, x))
           y == Nth(S, k)
<1>1. k \in 1..Cardinality(S)
  BY PlaceIs
<1>2. y \in S /\ Cardinality(UpTo(S, y)) = k
  BY <1>1, NthIs
<1>3. k \in Nat /\ x \in Nat /\ y \in Nat
  <2>1. Cardinality(S) \in Nat
    BY FS_CardinalityType
  <2> HIDE DEF k, y
  <2> QED BY <1>1, <1>2, <2>1
<1>4. ~ (x < y) /\ ~ (y < x)
  BY <1>2, <1>3, PlacesOrdered
<1> QED BY <1>1, <1>3, <1>4

\* Ascending is ascending.
LEMMA NthOrdered ==
  ASSUME NEW S \in SUBSET Nat, IsFiniteSet(S),
         NEW j \in 1..Cardinality(S), NEW k \in 1..Cardinality(S), j < k
  PROVE  Nth(S, j) < Nth(S, k)
<1> DEFINE x == Nth(S, j)
           y == Nth(S, k)
<1>1. /\ x \in S /\ x \in Nat /\ Cardinality(UpTo(S, x)) = j
      /\ y \in S /\ y \in Nat /\ Cardinality(UpTo(S, y)) = k
  BY NthIs
<1>2. j \in Nat /\ k \in Nat
  BY FS_CardinalityType
<1> HIDE DEF x, y
<1>3. CASE y < x
  BY <1>1, <1>2, <1>3, PlacesOrdered
<1>4. CASE x = y
  BY <1>1, <1>2, <1>4
<1> QED BY <1>1, <1>3, <1>4 DEF x, y

-----------------------------------------------------------------------------
(* Flattening: what a batch says lands where its cues are. *)

\* f[i] is the concatenation of the first i sequences.
Concats(seqs, f, n) ==
  f = [i \in 1..n |-> IF i = 1 THEN seqs[i] ELSE f[i - 1] \o seqs[i]]

\* There is one: FlattenSeq recurs along it.
LEMMA ConcatsExist ==
  ASSUME NEW seqs, NEW n \in Nat
  PROVE  \E f : Concats(seqs, f, n)
<1> DEFINE Bad == {k \in Nat : ~ \E f : Concats(seqs, f, k)}
<1>1. SUFFICES ASSUME Bad # {} PROVE FALSE
  OBVIOUS
<1>2. PICK k \in Bad : \A j \in Bad : k <= j
  <2>1. Bad \in SUBSET Nat
    OBVIOUS
  <2> HIDE DEF Bad
  <2> QED BY <1>1, <2>1, HasLeast
<1>3. CASE k = 0
  <2> DEFINE f == [i \in 1..0 |-> seqs[i]]
  <2>1. Concats(seqs, f, 0)
    BY DEF Concats
  <2> QED BY <1>2, <1>3, <2>1
<1>4. CASE k # 0
  <2>1. k \in Nat /\ k - 1 \in Nat /\ k - 1 \notin Bad
    BY <1>2, <1>4
  <2>2. PICK g : Concats(seqs, g, k - 1)
    BY <2>1
  <2> DEFINE f == [i \in 1..k |-> IF i < k THEN g[i]
                                  ELSE IF i = 1 THEN seqs[i] ELSE g[i - 1] \o seqs[i]]
  <2>3. ASSUME NEW i \in 1..k
        PROVE  f[i] = IF i = 1 THEN seqs[i] ELSE f[i - 1] \o seqs[i]
    <3>1. i # 1 => i - 1 \in 1..k /\ i - 1 < k
      BY <2>1
    <3>2. i # 1 => f[i - 1] = g[i - 1]
      BY <3>1
    <3>3. CASE i < k
      <4>1. i \in 1..(k - 1)
        BY <2>1, <3>3
      <4>2. g[i] = IF i = 1 THEN seqs[i] ELSE g[i - 1] \o seqs[i]
        BY <2>2, <4>1 DEF Concats
      <4>3. f[i] = g[i]
        BY <3>3
      <4> HIDE DEF f
      <4> QED BY <3>2, <4>2, <4>3
    <3>4. CASE ~ (i < k)
      <4>1. f[i] = IF i = 1 THEN seqs[i] ELSE g[i - 1] \o seqs[i]
        BY <3>4
      <4> HIDE DEF f
      <4> QED BY <3>2, <4>1
    <3> QED BY <3>3, <3>4
  <2>4. f = [i \in 1..k |-> f[i]]
    OBVIOUS
  <2> HIDE DEF f
  <2>5. Concats(seqs, f, k)
    BY <2>3, <2>4 DEF Concats
  <2> QED BY <1>2, <2>5
<1> QED BY <1>3, <1>4

\* FlattenSeq is the last of these.
LEMMA FlattenIs ==
  ASSUME NEW seqs, Len(seqs) \in Nat, Len(seqs) # 0
  PROVE  \E f : Concats(seqs, f, Len(seqs)) /\ FlattenSeq(seqs) = f[Len(seqs)]
<1> DEFINE h == CHOOSE f : f = [i \in 1..Len(seqs) |->
                                  IF i = 1 THEN seqs[i] ELSE f[i - 1] \o seqs[i]]
<1>1. FlattenSeq(seqs) = h[Len(seqs)]
  BY DEF FlattenSeq
<1>2. \E f : Concats(seqs, f, Len(seqs))
  BY ConcatsExist
<1>3. Concats(seqs, h, Len(seqs))
  BY <1>2 DEF Concats
<1> QED BY <1>1, <1>3

\* One more sequence.
LEMMA ConcatsStep ==
  ASSUME NEW seqs, NEW n \in Nat, NEW f, Concats(seqs, f, n), NEW m \in 1..n
  PROVE  f[m] = IF m = 1 THEN seqs[m] ELSE f[m - 1] \o seqs[m]
BY DEF Concats

\* Two sequences of the same length of which every place is one place of s and t.
Alike(n, s, t, x, y) ==
  /\ Len(x) = Len(y)
  /\ \A q \in 1..Len(x) : \E b \in 1..n : \E k \in 1..Len(s[b]) :
       x[q] = s[b][k] /\ y[q] = t[b][k]

\* Appending one of s and one of t keeps them alike.
LEMMA AlikeAppended ==
  ASSUME NEW X, NEW Y, NEW n \in Nat,
         NEW s \in [1..n -> Seq(X)], NEW t \in [1..n -> Seq(Y)],
         NEW m \in 1..n, Len(s[m]) = Len(t[m]),
         NEW x \in Seq(X), NEW y \in Seq(Y), Alike(n, s, t, x, y)
  PROVE  Alike(n, s, t, x \o s[m], y \o t[m])
<1> DEFINE xs == x \o s[m]
           yt == y \o t[m]
<1>1. s[m] \in Seq(X) /\ t[m] \in Seq(Y) /\ Len(x) = Len(y)
  BY DEF Alike
<1>2. /\ Len(xs) = Len(x) + Len(s[m])
      /\ \A i \in 1..Len(x) + Len(s[m]) : xs[i] = IF i <= Len(x) THEN x[i] ELSE s[m][i - Len(x)]
  BY <1>1, ConcatProperties
<1>3. /\ Len(yt) = Len(y) + Len(t[m])
      /\ \A i \in 1..Len(y) + Len(t[m]) : yt[i] = IF i <= Len(y) THEN y[i] ELSE t[m][i - Len(y)]
  BY <1>1, ConcatProperties
<1>4. Len(x) \in Nat /\ Len(s[m]) \in Nat
  BY <1>1
<1> HIDE DEF xs, yt
<1>5. ASSUME NEW q \in 1..Len(xs)
      PROVE  \E b \in 1..n : \E k \in 1..Len(s[b]) : xs[q] = s[b][k] /\ yt[q] = t[b][k]
  <2>1. CASE q <= Len(x)
    <3>1. q \in 1..Len(x) /\ xs[q] = x[q] /\ yt[q] = y[q]
      BY <1>1, <1>2, <1>3, <1>4, <2>1
    <3> QED BY <3>1 DEF Alike
  <2>2. CASE ~ (q <= Len(x))
    <3>1. q - Len(x) \in 1..Len(s[m])
      BY <1>2, <1>4, <2>2
    <3>2. xs[q] = s[m][q - Len(x)] /\ yt[q] = t[m][q - Len(x)]
      BY <1>1, <1>2, <1>3, <2>2
    <3> QED BY <3>1, <3>2
  <2> QED BY <2>1, <2>2
<1>6. Len(xs) = Len(yt)
  BY <1>1, <1>2, <1>3
<1> QED BY <1>5, <1>6 DEF Alike, xs, yt

\* Sequences of the same lengths come together in the same way: what is at one
\* place of both flattened ones was at one place of one batch.
LEMMA FlattenAlike ==
  ASSUME NEW X, NEW Y, NEW n \in Nat \ {0},
         NEW s \in [1..n -> Seq(X)], NEW t \in [1..n -> Seq(Y)],
         \A b \in 1..n : Len(s[b]) = Len(t[b])
  PROVE  /\ FlattenSeq(s) \in Seq(X) /\ FlattenSeq(t) \in Seq(Y)
         /\ Alike(n, s, t, FlattenSeq(s), FlattenSeq(t))
<1>1. Len(s) = n /\ Len(t) = n
  OBVIOUS
<1>2. PICK f : Concats(s, f, n) /\ FlattenSeq(s) = f[n]
  BY <1>1, FlattenIs
<1>3. PICK g : Concats(t, g, n) /\ FlattenSeq(t) = g[n]
  BY <1>1, FlattenIs
<1> DEFINE Bad == {m \in 1..n : ~ (/\ f[m] \in Seq(X) /\ g[m] \in Seq(Y)
                                   /\ Alike(n, s, t, f[m], g[m]))}
<1>4. SUFFICES ASSUME Bad # {} PROVE FALSE
  <2>1. n \in 1..n
    OBVIOUS
  <2>2. Bad = {} => /\ f[n] \in Seq(X) /\ g[n] \in Seq(Y)
                    /\ Alike(n, s, t, f[n], g[n])
    BY <2>1
  <2> HIDE DEF Bad
  <2> QED BY <1>2, <1>3, <2>2
<1>5. PICK m \in Bad : \A j \in Bad : m <= j
  <2>1. Bad \in SUBSET Nat
    OBVIOUS
  <2> HIDE DEF Bad
  <2> QED BY <1>4, <2>1, HasLeast
<1>6. m \in 1..n /\ s[m] \in Seq(X) /\ t[m] \in Seq(Y) /\ Len(s[m]) = Len(t[m])
  BY <1>5
<1>7. CASE m = 1
  <2>1. f[m] = s[m] /\ g[m] = t[m]
    BY <1>2, <1>3, <1>6, <1>7, ConcatsStep
  <2>2. Alike(n, s, t, s[m], t[m])
    BY <1>6 DEF Alike
  <2> QED BY <1>5, <1>6, <2>1, <2>2
<1>8. CASE m # 1
  <2>1. PICK p : p = m - 1
    OBVIOUS
  <2>2. p \in 1..n /\ p < m
    BY <1>6, <1>8, <2>1
  <2>3. f[p] \in Seq(X) /\ g[p] \in Seq(Y) /\ Alike(n, s, t, f[p], g[p])
    BY <1>5, <2>2
  <2>4. n \in Nat
    OBVIOUS
  <2>5. f[m] = f[p] \o s[m] /\ g[m] = g[p] \o t[m]
    <3>1. f[m] = (IF m = 1 THEN s[m] ELSE f[m - 1] \o s[m])
      BY <1>2, <1>6, Zenon DEF Concats
    <3>2. g[m] = (IF m = 1 THEN t[m] ELSE g[m - 1] \o t[m])
      BY <1>3, <1>6, Zenon DEF Concats
    <3> QED BY <1>8, <2>1, <3>1, <3>2, Zenon
  <2>6. f[m] \in Seq(X) /\ g[m] \in Seq(Y)
    BY <1>6, <2>3, <2>5
  <2>7. Alike(n, s, t, f[m], g[m])
    <3>1. Alike(n, s, t, f[p] \o s[m], g[p] \o t[m])
      BY <1>6, <2>3, <2>4, AlikeAppended
    <3> QED BY <2>5, <3>1
  <2> QED BY <1>5, <2>6, <2>7
<1> QED BY <1>7, <1>8

\* Induction up to m, for a set.
LEMMA InductionTo ==
  ASSUME NEW m \in Nat, NEW Good, m # 0 => 1 \in Good,
         \A a \in 1..m : a \in Good /\ a # m => a + 1 \in Good
  PROVE  \A a \in 1..m : a \in Good
<1> DEFINE Bad == {a \in 1..m : a \notin Good}
<1>1. SUFFICES ASSUME Bad # {} PROVE FALSE
  OBVIOUS
<1>2. PICK b \in Bad : \A a \in Bad : b <= a
  <2>1. Bad \in SUBSET Nat
    OBVIOUS
  <2> HIDE DEF Bad
  <2> QED BY <1>1, <2>1, HasLeast
<1>3. b \in 1..m /\ b # 1
  BY <1>2
<1>4. b - 1 \in 1..m /\ b - 1 \notin Bad /\ (b - 1) + 1 = b /\ b - 1 # m
  BY <1>2, <1>3
<1> QED BY <1>2, <1>4

\* Where a piece and the one before it lie.
LEMMA CutsInside ==
  ASSUME NEW x \in Nat, NEW y \in Nat, NEW z \in Nat, NEW n \in Nat,
         x < y, y < z, z <= n + 1
  PROVE  /\ y - 1 \in (1 - 1)..n /\ z - 1 \in (y - 1)..n /\ 1 \in 1..(n + 1)
         /\ (y - 1) + 1 = y
OBVIOUS

\* The pieces of a sequence between ascending cuts are, together, its beginning
\* up to the last cut.
LEMMA PiecesTogether ==
  ASSUME NEW X, NEW todo \in Seq(X), NEW m \in Nat, NEW cut \in [1..(m + 1) -> Nat],
         cut[1] = 1, \A b \in 1..m : cut[b] < cut[b + 1],
         \A b \in 1..(m + 1) : cut[b] <= Len(todo) + 1,
         NEW pieces, pieces = [b \in 1..m |-> SubSeq(todo, cut[b], cut[b + 1] - 1)]
  PROVE  FlattenSeq(pieces) = SubSeq(todo, 1, cut[m + 1] - 1)
<1>1. Len(pieces) = m
  OBVIOUS
<1>2. CASE m = 0
  <2>1. pieces = <<>> /\ FlattenSeq(pieces) = pieces
    BY <1>1, <1>2 DEF FlattenSeq
  <2>2. SubSeq(todo, 1, cut[m + 1] - 1) = <<>>
    BY <1>2, SubSeqEmpty
  <2> QED BY <2>1, <2>2
<1>3. CASE m # 0
  <2>1. PICK f : Concats(pieces, f, m) /\ FlattenSeq(pieces) = f[m]
    BY <1>1, <1>3, FlattenIs
  <2>0. \A b \in 1..m : f[b] = IF b = 1 THEN pieces[b] ELSE f[b - 1] \o pieces[b]
    <3>1. ASSUME NEW b \in 1..m
          PROVE  f[b] = IF b = 1 THEN pieces[b] ELSE f[b - 1] \o pieces[b]
      BY <2>1 DEF Concats
    <3> QED BY <3>1
  <2> DEFINE Good == {b \in 1..m : f[b] = SubSeq(todo, 1, cut[b + 1] - 1)}
  <2>2. 1 \in Good
    <3>1. 1 \in 1..m
      BY <1>3
    <3>2. f[1] = pieces[1] /\ pieces[1] = SubSeq(todo, cut[1], cut[1 + 1] - 1)
      BY <2>0, <3>1
    <3> QED BY <3>1, <3>2
  <2>3. ASSUME NEW a \in 1..m, a \in Good, a # m
        PROVE  a + 1 \in Good
    <3>1. PICK b : b = a + 1
      OBVIOUS
    <3>2. /\ b \in 1..m /\ b # 1 /\ b - 1 = a
          /\ a \in 1..(m + 1) /\ b \in 1..(m + 1) /\ b + 1 \in 1..(m + 1)
      BY <2>3, <3>1
    <3>3. f[b] = f[a] \o pieces[b]
      <4>1. f[b] = IF b = 1 THEN pieces[b] ELSE f[b - 1] \o pieces[b]
        BY <2>0, <3>2
      <4> QED BY <3>2, <4>1
    <3>4. f[a] = SubSeq(todo, 1, cut[b] - 1)
      BY <2>3, <3>1
    <3>5. pieces[b] = SubSeq(todo, cut[b], cut[b + 1] - 1)
      BY <3>2
    <3>6. cut[a] \in Nat /\ cut[b] \in Nat /\ cut[b + 1] \in Nat
      BY <3>2
    <3>7. cut[a] < cut[b] /\ cut[b] < cut[b + 1] /\ cut[b + 1] <= Len(todo) + 1
      BY <3>1, <3>2
    <3>8. PICK k : k = cut[b] - 1
      OBVIOUS
    <3>9. PICK n : n = cut[b + 1] - 1
      OBVIOUS
    <3>10. Len(todo) \in Nat
      OBVIOUS
    <3>11. /\ k \in (1-1)..Len(todo) /\ n \in k..Len(todo) /\ 1 \in 1..(Len(todo) + 1)
           /\ k + 1 = cut[b]
      <4>1. PICK x, y, z, l : x = cut[a] /\ y = cut[b] /\ z = cut[b + 1] /\ l = Len(todo)
        OBVIOUS
      <4>2. x \in Nat /\ y \in Nat /\ z \in Nat /\ l \in Nat /\ x < y /\ y < z /\ z <= l + 1
        BY <3>6, <3>7, <3>10, <4>1
      <4>3. k = y - 1 /\ n = z - 1
        BY <3>8, <3>9, <4>1
      <4>4. k \in (1-1)..l /\ n \in k..l /\ 1 \in 1..(l + 1) /\ k + 1 = y
        BY <4>2, <4>3
      <4> QED BY <4>1, <4>4
    <3>12. SubSeq(todo, 1, k) \o SubSeq(todo, k + 1, n) = SubSeq(todo, 1, n)
      BY <3>11, ConcatAdjacentSubSeq
    <3>13. f[b] = SubSeq(todo, 1, cut[b + 1] - 1)
      BY <3>3, <3>4, <3>5, <3>8, <3>9, <3>11, <3>12
    <3> QED BY <3>1, <3>2, <3>13
  <2>4. m \in Good
    <3>1. m \in 1..m
      BY <1>3
    <3> HIDE DEF Good
    <3> QED BY <2>2, <2>3, <3>1, InductionTo
  <2> QED BY <2>1, <2>4
<1> QED BY <1>2, <1>3

-----------------------------------------------------------------------------
(* Batches: together they are the cues that are translated, in order. *)

\* The walk over the first n cues that are translated.
Walks(doc, maxCues, f, n) ==
  f = [r \in 1..n |->
         IF r = 1 \/ Closes(doc, SubSeq(Todo(doc), f[r - 1], r - 1), Todo(doc)[r], maxCues)
         THEN r ELSE f[r - 1]]

\* There is one: Begins recurs along it.
LEMMA WalksExist ==
  ASSUME NEW doc, NEW maxCues, NEW n \in Nat
  PROVE  \E f : Walks(doc, maxCues, f, n)
<1> DEFINE Full(r, v) == Closes(doc, SubSeq(Todo(doc), v, r - 1), Todo(doc)[r], maxCues)
           Bad == {k \in Nat : ~ \E f : Walks(doc, maxCues, f, k)}
<1>1. SUFFICES ASSUME Bad # {} PROVE FALSE
  OBVIOUS
<1>2. PICK k \in Bad : \A j \in Bad : k <= j
  <2>1. Bad \in SUBSET Nat
    OBVIOUS
  <2> HIDE DEF Bad
  <2> QED BY <1>1, <2>1, HasLeast
<1>3. CASE k = 0
  <2> DEFINE f == [i \in 1..0 |-> i]
  <2>1. Walks(doc, maxCues, f, 0)
    BY DEF Walks
  <2> QED BY <1>2, <1>3, <2>1
<1>4. CASE k # 0
  <2>1. k \in Nat /\ k - 1 \in Nat /\ k - 1 \notin Bad
    BY <1>2, <1>4
  <2>2. PICK g : Walks(doc, maxCues, g, k - 1)
    BY <2>1
  <2> DEFINE f == [r \in 1..k |-> IF r < k THEN g[r]
                                  ELSE IF r = 1 \/ Full(r, g[r - 1]) THEN r ELSE g[r - 1]]
  <2> HIDE DEF Full
  <2>3. ASSUME NEW r \in 1..k
        PROVE  f[r] = IF r = 1 \/ Full(r, f[r - 1]) THEN r ELSE f[r - 1]
    <3>1. r # 1 => r - 1 \in 1..k /\ r - 1 < k
      BY <2>1
    <3>2. r # 1 => f[r - 1] = g[r - 1]
      BY <3>1
    <3>3. CASE r < k
      <4>1. r \in 1..(k - 1)
        BY <2>1, <3>3
      <4>2. g[r] = IF r = 1 \/ Full(r, g[r - 1]) THEN r ELSE g[r - 1]
        BY <2>2, <4>1 DEF Walks, Full
      <4>3. f[r] = g[r]
        BY <3>3
      <4> HIDE DEF f
      <4> QED BY <3>2, <4>2, <4>3
    <3>4. CASE ~ (r < k)
      <4>1. f[r] = IF r = 1 \/ Full(r, g[r - 1]) THEN r ELSE g[r - 1]
        BY <3>4
      <4> HIDE DEF f
      <4> QED BY <3>2, <4>1
    <3> QED BY <3>3, <3>4
  <2>4. f = [r \in 1..k |-> f[r]]
    OBVIOUS
  <2> HIDE DEF f
  <2>5. Walks(doc, maxCues, f, k)
    BY <2>3, <2>4 DEF Walks, Full
  <2> QED BY <1>2, <2>5
<1> QED BY <1>3, <1>4

\* The first batch begins at the first cue.
LEMMA FirstBegins ==
  ASSUME NEW doc, NEW maxCues, Len(Todo(doc)) \in Nat, Len(Todo(doc)) # 0
  PROVE  Begins(doc, maxCues)[1] = 1
<1>1. \E f : Walks(doc, maxCues, f, Len(Todo(doc)))
  BY WalksExist
<1>2. Walks(doc, maxCues, Begins(doc, maxCues), Len(Todo(doc)))
  BY <1>1 DEF Walks, Begins
<1>3. 1 \in 1..Len(Todo(doc))
  OBVIOUS
<1> QED BY <1>2, <1>3 DEF Walks

\* The elements of a finite set in ascending order are a sequence.
LEMMA AscendingIs ==
  ASSUME NEW S \in SUBSET Nat, IsFiniteSet(S)
  PROVE  /\ Cardinality(S) \in Nat
         /\ Ascending(S) \in [1..Cardinality(S) -> S]
         /\ Ascending(S) \in Seq(S) /\ Len(Ascending(S)) = Cardinality(S)
<1>1. Cardinality(S) \in Nat
  BY FS_CardinalityType
<1>2. \A k \in 1..Cardinality(S) : Nth(S, k) \in S
  BY NthIs
<1>3. Ascending(S) \in [1..Cardinality(S) -> S]
  BY <1>2 DEF Ascending
<1> QED BY <1>1, <1>3

\* A cue that is translated is where its rank says.
LEMMA TodoIs ==
  ASSUME NEW doc \in Seq(Cue)
  PROVE  /\ Translatable(doc) \in SUBSET Nat /\ IsFiniteSet(Translatable(doc))
         /\ Todo(doc) \in Seq(Translatable(doc)) /\ Todo(doc) \in Seq(Nat)
         /\ \A i \in Translatable(doc) : /\ Rank(doc, i) \in 1..Len(Todo(doc))
                                         /\ Todo(doc)[Rank(doc, i)] = i
<1>1. DOMAIN doc = 1..Len(doc) /\ Len(doc) \in Nat
  OBVIOUS
<1>2. Translatable(doc) \in SUBSET (1..Len(doc))
  BY <1>1 DEF Translatable
<1>3. Translatable(doc) \in SUBSET Nat /\ IsFiniteSet(Translatable(doc))
  <2>1. PICK n \in Nat : n = Len(doc)
    BY <1>1
  <2>2. IsFiniteSet(1..n)
    BY FS_Interval
  <2>3. IsFiniteSet(Translatable(doc))
    BY <1>2, <2>1, <2>2, FS_Subset
  <2> QED BY <1>2, <2>3
<1>4. Todo(doc) \in Seq(Translatable(doc)) /\ Len(Todo(doc)) = Cardinality(Translatable(doc))
  BY <1>3, AscendingIs DEF Todo
<1>5. Todo(doc) \in Seq(Nat)
  BY <1>3, <1>4
<1>6. ASSUME NEW i \in Translatable(doc)
      PROVE  Rank(doc, i) \in 1..Len(Todo(doc)) /\ Todo(doc)[Rank(doc, i)] = i
  <2>1. Rank(doc, i) = Cardinality(UpTo(Translatable(doc), i))
    BY DEF Rank, UpTo
  <2>2. /\ Rank(doc, i) \in 1..Cardinality(Translatable(doc))
        /\ Nth(Translatable(doc), Rank(doc, i)) = i
    BY <1>3, <2>1, NthOf
  <2> QED BY <1>4, <2>2 DEF Todo, Ascending
<1> QED BY <1>3, <1>4, <1>5, <1>6

\* The cuts between the batches.
Starts(doc, maxCues) == {r \in DOMAIN Todo(doc) : Begins(doc, maxCues)[r] = r}
Cuts(doc, maxCues) == Starts(doc, maxCues) \union {Len(Todo(doc)) + 1}

\* They ascend from the first cue to behind the last one.
LEMMA CutsAre ==
  ASSUME NEW doc \in Seq(Cue), NEW maxCues, NEW m, m = Cardinality(Starts(doc, maxCues)),
         NEW cut, cut = Ascending(Cuts(doc, maxCues))
  PROVE  /\ m \in Nat /\ cut \in [1..(m + 1) -> Nat]
         /\ cut[1] = 1 /\ cut[m + 1] = Len(Todo(doc)) + 1
         /\ \A b \in 1..m : cut[b] < cut[b + 1]
         /\ \A b \in 1..(m + 1) : cut[b] <= Len(Todo(doc)) + 1
<1> DEFINE S == Starts(doc, maxCues)
           C == Cuts(doc, maxCues)
<1>1. PICK n \in Nat : n = Len(Todo(doc)) /\ DOMAIN Todo(doc) = 1..n
  BY TodoIs
<1>2. S \subseteq 1..n /\ IsFiniteSet(S) /\ C = S \union {n + 1}
  <2>1. S \subseteq 1..n /\ C = S \union {n + 1}
    BY <1>1 DEF Starts, Cuts
  <2>2. IsFiniteSet(1..n)
    BY FS_Interval
  <2> QED BY <2>1, <2>2, FS_Subset
<1>3. IsFiniteSet(C) /\ Cardinality(C) = m + 1 /\ m \in Nat
  <2>1. n + 1 \notin S
    BY <1>1, <1>2
  <2>2. IsFiniteSet(S) /\ C = S \union {n + 1} /\ m = Cardinality(S)
    BY <1>2
  <2> HIDE DEF S, C
  <2>3. m \in Nat
    BY <2>2, FS_CardinalityType
  <2> QED BY <2>1, <2>2, <2>3, FS_AddElement
<1>4. \A x \in C : x \in Nat /\ 1 <= x /\ x <= n + 1
  BY <1>1, <1>2
<1>5. 1 \in C /\ n + 1 \in C
  <2>1. CASE n = 0
    BY <1>2, <2>1
  <2>2. CASE n # 0
    <3>1. Begins(doc, maxCues)[1] = 1
      BY <1>1, <2>2, FirstBegins
    <3> QED BY <1>1, <1>2, <2>2, <3>1 DEF Starts
  <2> QED BY <1>2, <2>1, <2>2
<1>6. C \in SUBSET Nat
  BY <1>4
<1> HIDE DEF C, S
<1>7. cut \in [1..(m + 1) -> C] /\ \A b \in 1..(m + 1) : cut[b] = Nth(C, b)
  BY <1>3, <1>6, AscendingIs DEF Ascending, C
<1>8. cut[1] = 1
  <2>1. UpTo(C, 1) = {1}
    BY <1>4, <1>5 DEF UpTo
  <2>2. Cardinality(UpTo(C, 1)) = 1
    BY <2>1, FS_Singleton
  <2>3. Nth(C, 1) = 1
    BY <1>3, <1>5, <1>6, <2>2, NthOf
  <2> QED BY <1>3, <1>7, <2>3
<1>9. cut[m + 1] = n + 1
  <2>1. UpTo(C, n + 1) = C
    BY <1>4, <1>5 DEF UpTo
  <2>2. Nth(C, m + 1) = n + 1
    BY <1>3, <1>5, <1>6, <2>1, NthOf
  <2> QED BY <1>3, <1>7, <2>2
<1>10. ASSUME NEW b \in 1..m
       PROVE  cut[b] < cut[b + 1]
  <2>1. b \in 1..(m + 1) /\ b + 1 \in 1..(m + 1) /\ b < b + 1
    BY <1>3
  <2>2. PICK c : c = b + 1
    OBVIOUS
  <2>3. Nth(C, b) < Nth(C, c)
    BY <1>3, <1>6, <2>1, <2>2, NthOrdered
  <2> QED BY <1>7, <2>1, <2>2, <2>3
<1>11. ASSUME NEW b \in 1..(m + 1)
       PROVE  cut[b] <= n + 1
  BY <1>4, <1>7
<1>12. cut \in [1..(m + 1) -> Nat]
  BY <1>6, <1>7
<1> QED BY <1>1, <1>3, <1>8, <1>9, <1>10, <1>11, <1>12 DEF S

\* Whatever the sizes of the batches, they hold the cues to be translated, each
\* once and in order; and each batch is the slice behind those before it.
LEMMA BatchesAre ==
  ASSUME NEW doc \in Seq(Cue), NEW maxCues
  PROVE  /\ Batches(doc, maxCues) \in Seq(Seq(Translatable(doc)))
         /\ FlattenSeq(Batches(doc, maxCues)) = Todo(doc)
         /\ \A b \in DOMAIN Batches(doc, maxCues) :
              \A k \in DOMAIN Batches(doc, maxCues)[b] :
                /\ Before(Batches(doc, maxCues), b) + k \in DOMAIN Todo(doc)
                /\ Todo(doc)[Before(Batches(doc, maxCues), b) + k]
                     = Batches(doc, maxCues)[b][k]
<1>1. PICK todo : todo = Todo(doc)
  OBVIOUS
<1>2. PICK m : m = Cardinality(Starts(doc, maxCues))
  OBVIOUS
<1>3. PICK cut : cut = Ascending(Cuts(doc, maxCues))
  OBVIOUS
<1>4. /\ m \in Nat /\ cut \in [1..(m + 1) -> Nat]
      /\ cut[1] = 1 /\ cut[m + 1] = Len(todo) + 1
      /\ \A b \in 1..m : cut[b] < cut[b + 1]
      /\ \A b \in 1..(m + 1) : cut[b] <= Len(todo) + 1
  BY <1>1, <1>2, <1>3, CutsAre
<1>5. PICK batches : batches = Batches(doc, maxCues)
  OBVIOUS
<1>6. batches = [b \in 1..m |-> SubSeq(todo, cut[b], cut[b + 1] - 1)]
  BY <1>1, <1>2, <1>3, <1>5 DEF Batches, Starts, Cuts
<1>7. todo \in Seq(Translatable(doc)) /\ Len(todo) \in Nat /\ DOMAIN todo = 1..Len(todo)
  BY <1>1, TodoIs
<1>8. ASSUME NEW b \in 1..m
      PROVE  /\ cut[b] \in Nat /\ cut[b + 1] \in Nat /\ 1 <= cut[b]
             /\ cut[b] < cut[b + 1] /\ cut[b + 1] <= Len(todo) + 1
             /\ b \in 1..(m + 1) /\ b + 1 \in 1..(m + 1)
  <2>1. /\ b \in 1..(m + 1) /\ b + 1 \in 1..(m + 1)
        /\ cut[b] \in Nat /\ cut[b + 1] \in Nat /\ cut[b] < cut[b + 1]
        /\ cut[b + 1] <= Len(todo) + 1
    BY <1>4
  <2>2. 1 <= cut[b]
    <3>1. CASE b = 1
      BY <1>4, <3>1
    <3>2. CASE b # 1
      <4>1. PICK a : a = b - 1
        OBVIOUS
      <4>2. a \in 1..m /\ a + 1 = b /\ a \in 1..(m + 1)
        BY <1>4, <3>2, <4>1
      <4>3. cut[a] < cut[b] /\ cut[a] \in Nat
        BY <1>4, <4>2
      <4> QED BY <2>1, <4>3
    <3> QED BY <3>1, <3>2
  <2> QED BY <2>1, <2>2
<1>9. ASSUME NEW b \in 1..m
      PROVE  /\ batches[b] \in Seq(Translatable(doc))
             /\ Len(batches[b]) = cut[b + 1] - cut[b]
             /\ \A k \in 1..Len(batches[b]) : /\ batches[b][k] = todo[(cut[b] - 1) + k]
                                              /\ (cut[b] - 1) + k \in DOMAIN todo
  <2>1. batches[b] = SubSeq(todo, cut[b], cut[b + 1] - 1)
    BY <1>6
  <2>2. PICK p : p = cut[b]
    OBVIOUS
  <2>3. PICK q : q = cut[b + 1] - 1
    OBVIOUS
  <2>4. /\ p \in Nat /\ q \in Nat /\ 1 <= p /\ p <= q /\ q <= Len(todo)
        /\ cut[b + 1] - cut[b] = q - p + 1
    <3>1. PICK x, y, l : x = cut[b] /\ y = cut[b + 1] /\ l = Len(todo)
      OBVIOUS
    <3>2. x \in Nat /\ y \in Nat /\ l \in Nat /\ 1 <= x /\ x < y /\ y <= l + 1
      BY <1>7, <1>8, <3>1
    <3>3. p = x /\ q = y - 1
      BY <2>2, <2>3, <3>1
    <3>4. p \in Nat /\ q \in Nat /\ 1 <= p /\ p <= q /\ q <= l /\ y - x = q - p + 1
      BY <3>2, <3>3
    <3> QED BY <3>1, <3>4
  <2>5. p \in 1..(Len(todo) + 1) /\ q \in (p - 1)..Len(todo)
    BY <1>7, <2>4
  <2>6. /\ SubSeq(todo, p, q) \in Seq(Translatable(doc))
        /\ Len(SubSeq(todo, p, q)) = q - p + 1
        /\ \A k \in 1..(q - p + 1) : SubSeq(todo, p, q)[k] = todo[p + k - 1]
    <3>1. \A i \in p..q : todo[i] \in Translatable(doc)
      BY <1>7, <2>4
    <3>2. p \in Int /\ q \in Int
      BY <2>4
    <3> QED BY <2>4, <3>1, <3>2, SubSeqProperties
  <2>7. \A k \in 1..(q - p + 1) : /\ p + k - 1 = (p - 1) + k
                                  /\ (p - 1) + k \in DOMAIN todo
    BY <1>7, <2>4
  <2> QED BY <2>1, <2>2, <2>3, <2>4, <2>6, <2>7
<1>10. batches \in Seq(Seq(Translatable(doc)))
  <2>1. batches \in [1..m -> Seq(Translatable(doc))]
    BY <1>6, <1>9, Zenon
  <2> QED BY <1>4, <2>1
<1>11. FlattenSeq(batches) = todo
  <2>1. FlattenSeq(batches) = SubSeq(todo, 1, cut[m + 1] - 1)
    BY <1>4, <1>6, <1>7, PiecesTogether
  <2>2. cut[m + 1] - 1 = Len(todo)
    BY <1>4, <1>7
  <2>3. SubSeq(todo, 1, Len(todo)) = todo
    BY <1>7, SubSeqFull
  <2> QED BY <2>1, <2>2, <2>3
<1>12. ASSUME NEW b \in 1..m
       PROVE  Before(batches, b) = cut[b] - 1
  <2>1. PICK a : a = b - 1
    OBVIOUS
  <2>2. a \in Nat /\ a + 1 = b /\ a <= m /\ b \in 1..(m + 1) /\ b \in Nat
    BY <1>4, <2>1
  <2>3. PICK first : first = SubSeq(batches, 1, a)
    OBVIOUS
  <2>4. first = [c \in 1..a |-> SubSeq(todo, cut[c], cut[c + 1] - 1)]
    <3>1. Len(batches) = m
      BY <1>4, <1>6
    <3>2. batches \in [1..m -> Seq(Translatable(doc))]
      BY <1>6, <1>9, Zenon
    <3>3. first = [c \in 1..a |-> batches[c]]
      <4>1. 1 \in Int /\ a \in Int /\ \A c \in 1..a : batches[c] \in Seq(Translatable(doc))
        BY <1>4, <2>2, <3>2
      <4>2. /\ first \in Seq(Seq(Translatable(doc)))
            /\ Len(first) = IF 1 <= a THEN a - 1 + 1 ELSE 0
            /\ \A c \in 1..(a - 1 + 1) : first[c] = batches[1 + c - 1]
        BY <2>3, <4>1, SubSeqProperties
      <4>3. Len(first) = a /\ \A c \in 1..a : first[c] = batches[c]
        BY <2>2, <4>2
      <4>4. first = [c \in 1..a |-> first[c]]
        BY <4>2, <4>3
      <4> QED BY <4>3, <4>4
    <3>4. ASSUME NEW c \in 1..a
          PROVE  batches[c] = SubSeq(todo, cut[c], cut[c + 1] - 1)
      <4>1. c \in 1..m
        BY <1>4, <2>2
      <4> QED BY <1>6, <4>1, Zenon
    <3> QED BY <3>3, <3>4
  <2>5. PICK g : g = [c \in 1..(a + 1) |-> cut[c]]
    OBVIOUS
  <2>6. \A c \in 1..a : c \in 1..m /\ c \in 1..(a + 1) /\ c + 1 \in 1..(a + 1)
    BY <1>4, <2>2
  <2>7. \A c \in 1..(a + 1) : c \in 1..(m + 1) /\ g[c] = cut[c] /\ g[c] \in Nat
    BY <1>4, <2>2, <2>5
  <2>8. /\ g \in [1..(a + 1) -> Nat] /\ g[1] = 1
        /\ \A c \in 1..a : g[c] < g[c + 1]
        /\ \A c \in 1..(a + 1) : g[c] <= Len(todo) + 1
    <3>1. g \in [1..(a + 1) -> Nat]
      BY <2>5, <2>7
    <3>2. 1 \in 1..(a + 1)
      BY <2>2
    <3> QED BY <1>4, <2>6, <2>7, <3>1, <3>2
  <2>9. first = [c \in 1..a |-> SubSeq(todo, g[c], g[c + 1] - 1)]
    BY <2>4, <2>6, <2>7
  <2>10. FlattenSeq(first) = SubSeq(todo, 1, g[a + 1] - 1)
    BY <1>7, <2>2, <2>8, <2>9, PiecesTogether
  <2>11. g[a + 1] = cut[b]
    BY <2>2, <2>7
  <2>12. Len(SubSeq(todo, 1, cut[b] - 1)) = cut[b] - 1
    <3>1. PICK q : q = cut[b] - 1
      OBVIOUS
    <3>2. q \in Nat /\ q <= Len(todo) /\ 1 \in 1..(Len(todo) + 1) /\ q \in (1 - 1)..Len(todo)
          /\ q - 1 + 1 = q
      BY <1>7, <1>8, <3>1
    <3>3. Len(SubSeq(todo, 1, q)) = q
      <4>1. q \in Int /\ 1 \in Int /\ \A i \in 1..q : todo[i] \in Translatable(doc)
        BY <1>7, <3>2
      <4>2. Len(SubSeq(todo, 1, q)) = IF 1 <= q THEN q - 1 + 1 ELSE 0
        BY <4>1, SubSeqProperties
      <4> QED BY <3>2, <4>2
    <3> QED BY <3>1, <3>3
  <2> QED BY <2>1, <2>3, <2>10, <2>11, <2>12 DEF Before
<1>13. DOMAIN batches = 1..m
  BY <1>6
<1>14. ASSUME NEW b \in 1..m, NEW k \in DOMAIN batches[b]
       PROVE  /\ Before(batches, b) + k \in DOMAIN todo
              /\ todo[Before(batches, b) + k] = batches[b][k]
  <2>1. k \in 1..Len(batches[b])
    BY <1>9
  <2> QED BY <1>9, <1>12, <2>1
<1> QED BY <1>1, <1>5, <1>10, <1>11, <1>13, <1>14

-----------------------------------------------------------------------------
(* The sizes of batches. *)

\* The highest of some numbers is one of them.
LEMMA MaxOf ==
  ASSUME NEW k \in Nat, NEW S \in SUBSET (1..k), S # {}
  PROVE  Max(S) \in S /\ \A y \in S : y <= Max(S)
<1> DEFINE Above == {u \in Nat : \A y \in S : y <= u}
<1>1. Above \in SUBSET Nat /\ k \in Above
  OBVIOUS
<1>2. PICK u \in Above : \A v \in Above : u <= v
  BY <1>1, HasLeast
<1>3. u \in S
  <2>1. SUFFICES ASSUME u \notin S PROVE FALSE
    OBVIOUS
  <2>2. PICK y \in S : TRUE
    OBVIOUS
  <2>3. y \in Nat /\ 1 <= y /\ y <= u
    BY <1>2
  <2>4. u \in Nat /\ u - 1 \in Nat
    BY <1>2, <2>3
  <2>5. ASSUME NEW z \in S
        PROVE  z <= u - 1
    <3>1. z \in Nat /\ z <= u /\ z # u
      BY <1>2, <2>1
    <3> QED BY <2>4, <3>1
  <2>6. u - 1 \in Above
    BY <2>4, <2>5
  <2>7. u <= u - 1
    BY <1>2, <2>6
  <2> QED BY <2>4, <2>7
<1>4. \E x \in S : \A y \in S : x >= y
  BY <1>2, <1>3
<1>5. Max(S) \in S /\ \A y \in S : Max(S) >= y
  BY <1>4 DEF Max
<1> QED BY <1>5

\* The fold of Size: for some places of a batch the characters there.
Sums(doc, batch, g, n) ==
  g = [S \in SUBSET (1..n) |->
         IF S = {} THEN 0 ELSE g[S \ {Max(S)}] + doc[batch[Max(S)]].size]

\* There is one.
LEMMA SumsExist ==
  ASSUME NEW doc, NEW batch, NEW n \in Nat
  PROVE  \E g : Sums(doc, batch, g, n)
<1> DEFINE Chars(x) == doc[batch[x]].size
           Bad == {k \in Nat : ~ \E g : Sums(doc, batch, g, k)}
<1>1. SUFFICES ASSUME Bad # {} PROVE FALSE
  OBVIOUS
<1>2. PICK k \in Bad : \A j \in Bad : k <= j
  <2>1. Bad \in SUBSET Nat
    OBVIOUS
  <2> HIDE DEF Bad
  <2> QED BY <1>1, <2>1, HasLeast
<1>3. CASE k = 0
  <2> DEFINE g == [S \in SUBSET (1..0) |-> 0]
  <2>1. \A S \in SUBSET (1..0) : S = {}
    OBVIOUS
  <2>2. g = [S \in SUBSET (1..0) |->
               IF S = {} THEN 0 ELSE g[S \ {Max(S)}] + doc[batch[Max(S)]].size]
    BY <2>1, Zenon
  <2>3. Sums(doc, batch, g, 0)
    BY <2>2 DEF Sums
  <2> QED BY <1>2, <1>3, <2>3
<1>4. CASE k # 0
  <2>1. k \in Nat /\ k - 1 \in Nat /\ k - 1 \notin Bad
    BY <1>2, <1>4
  <2>2. PICK h : Sums(doc, batch, h, k - 1)
    BY <2>1
  <2> HIDE DEF At
  <2>3. \A S \in SUBSET (1..(k - 1)) :
          h[S] = IF S = {} THEN 0 ELSE h[S \ {Max(S)}] + Chars(Max(S))
    BY <2>2 DEF Sums, At
  <2> DEFINE g == [S \in SUBSET (1..k) |-> IF k \in S THEN h[S \ {k}] + Chars(k) ELSE h[S]]
  <2>4. ASSUME NEW S \in SUBSET (1..k)
        PROVE  g[S] = IF S = {} THEN 0 ELSE g[S \ {Max(S)}] + Chars(Max(S))
    <3>1. CASE k \in S
      <4>1. Max(S) \in S /\ \A y \in S : y <= Max(S)
        BY <2>1, <3>1, MaxOf
      <4>2. Max(S) \in 1..k /\ k <= Max(S)
        BY <3>1, <4>1
      <4>3. Max(S) = k
        BY <2>1, <4>2
      <4>4. S \ {k} \in SUBSET (1..k) /\ k \notin S \ {k} /\ S # {}
        BY <3>1
      <4>5. g[S] = h[S \ {k}] + Chars(k) /\ g[S \ {k}] = h[S \ {k}]
        BY <3>1, <4>4
      <4> HIDE DEF g
      <4> QED BY <4>3, <4>4, <4>5
    <3>2. CASE k \notin S
      <4>1. S \in SUBSET (1..(k - 1))
        BY <2>1, <3>2
      <4>2. g[S] = h[S]
        BY <3>2
      <4>3. S \ {Max(S)} \in SUBSET (1..k) /\ k \notin S \ {Max(S)}
        BY <3>2
      <4>4. g[S \ {Max(S)}] = h[S \ {Max(S)}]
        BY <4>3
      <4>5. h[S] = IF S = {} THEN 0 ELSE h[S \ {Max(S)}] + Chars(Max(S))
        BY <2>3, <4>1
      <4> HIDE DEF g
      <4> QED BY <4>2, <4>4, <4>5
    <3> QED BY <3>1, <3>2
  <2>5. g = [S \in SUBSET (1..k) |-> g[S]]
    OBVIOUS
  <2> HIDE DEF g
  <2>6. Sums(doc, batch, g, k)
    BY <2>4, <2>5, Zenon DEF Sums, At
  <2> QED BY <1>2, <2>6
<1> QED BY <1>3, <1>4

\* The characters up to a place are those before it and its own.
Running(doc, batch, g, n) ==
  /\ g[1..0] = 0
  /\ \A k \in 1..n : g[1..k] = g[1..(k - 1)] + doc[batch[k]].size

\* So it is in the fold.
LEMMA SumsUpTo ==
  ASSUME NEW doc, NEW batch, NEW n \in Nat, NEW g, Sums(doc, batch, g, n)
  PROVE  Running(doc, batch, g, n)
<1>1. \A S \in SUBSET (1..n) :
        g[S] = IF S = {} THEN 0 ELSE g[S \ {Max(S)}] + doc[batch[Max(S)]].size
  BY DEF Sums
<1>2. g[1..0] = 0
  <2>1. PICK S : S = 1..0
    OBVIOUS
  <2>2. S \in SUBSET (1..n) /\ S = {}
    BY <2>1
  <2>3. g[S] = 0
    BY <1>1, <2>2
  <2> QED BY <2>1, <2>3
<1>3. ASSUME NEW k \in 1..n
      PROVE  g[1..k] = g[1..(k - 1)] + doc[batch[k]].size
  <2>1. PICK S : S = 1..k
    OBVIOUS
  <2>2. k \in Nat /\ S \in SUBSET (1..k) /\ S \in SUBSET (1..n) /\ k \in S
    BY <2>1
  <2>3. Max(S) = k
    <3>1. Max(S) \in S /\ \A y \in S : y <= Max(S)
      BY <2>2, MaxOf
    <3>2. Max(S) \in Nat /\ Max(S) <= k /\ k <= Max(S)
      BY <2>1, <2>2, <3>1
    <3> QED BY <2>2, <3>2
  <2>4. S \ {k} = 1..(k - 1)
    BY <2>1, <2>2
  <2>5. g[S] = g[S \ {Max(S)}] + doc[batch[Max(S)]].size
    BY <1>1, <2>2
  <2> QED BY <2>1, <2>3, <2>4, <2>5
<1> QED BY <1>2, <1>3 DEF Running

\* Size is the last of these.
LEMMA SizeIs ==
  ASSUME NEW doc, NEW batch, NEW n \in Nat, DOMAIN batch = 1..n
  PROVE  \E g : Running(doc, batch, g, n) /\ Size(doc, batch) = g[1..n]
<1> DEFINE h == CHOOSE g : Sums(doc, batch, g, n)
<1>1. Sums(doc, batch, h, n)
  BY SumsExist
<1>2. Size(doc, batch) = h[1..n]
  BY DEF Size, FoldLeft, MapThenFoldSet, Sums
<1> QED BY <1>1, <1>2, SumsUpTo

\* Each cue adds its characters to those of the batch before it.
LEMMA SizeGrows ==
  ASSUME NEW doc \in Seq(Cue), NEW batch \in Seq(DOMAIN doc), NEW k \in 1..Len(batch)
  PROVE  /\ Size(doc, SubSeq(batch, 1, k - 1)) \in Nat
         /\ Size(doc, SubSeq(batch, 1, k))
              = Size(doc, SubSeq(batch, 1, k - 1)) + doc[batch[k]].size
<1>1. PICK n \in Nat : n = Len(batch) /\ DOMAIN batch = 1..n
  OBVIOUS
<1>2. PICK g : Sums(doc, batch, g, n)
  BY SumsExist
<1>3. /\ g[1..0] = 0
      /\ \A j \in 1..n : g[1..j] = g[1..(j - 1)] + doc[batch[j]].size
  <2>1. Running(doc, batch, g, n)
    BY <1>2, SumsUpTo
  <2> QED BY <2>1 DEF Running
<1>4. \A j \in 1..n : doc[batch[j]].size \in Nat
  <2>1. \A j \in 1..n : doc[batch[j]] \in Cue
    BY <1>1
  <2> QED BY <2>1 DEF Cue
\* The sum over all places of a part is the one over these places of the whole.
<1>5. ASSUME NEW m \in Nat, m <= n
      PROVE  Size(doc, SubSeq(batch, 1, m)) = g[1..m] /\ g[1..m] \in Nat
  <2>1. PICK part : part = SubSeq(batch, 1, m)
    OBVIOUS
  <2>2. DOMAIN part = 1..m /\ \A j \in 1..m : part[j] = batch[j]
    <3>1. \A j \in 1..m : batch[j] \in DOMAIN doc
      BY <1>1, <1>5
    <3>2. /\ part \in Seq(DOMAIN doc)
          /\ Len(part) = IF 1 <= m THEN m - 1 + 1 ELSE 0
          /\ \A j \in 1..(m - 1 + 1) : part[j] = batch[1 + j - 1]
      BY <2>1, <3>1, SubSeqProperties
    <3>3. Len(part) = m /\ \A j \in 1..m : part[j] = batch[j]
      BY <3>1, <3>2
    <3> QED BY <3>1, <3>2, <3>3
  <2>3. PICK h : Running(doc, part, h, m) /\ Size(doc, part) = h[1..m]
    <3>1. DOMAIN part = 1..m
      BY <2>2
    <3>2. \E h : Running(doc, part, h, m) /\ Size(doc, part) = h[1..m]
      BY <3>1, SizeIs, Zenon
    <3> QED BY <3>2
  <2>4. /\ h[1..0] = 0
        /\ \A j \in 1..m : h[1..j] = h[1..(j - 1)] + doc[batch[j]].size
    BY <2>2, <2>3 DEF Running
  <2> DEFINE Bad == {j \in 0..m : ~ (h[1..j] = g[1..j] /\ g[1..j] \in Nat)}
  <2>5. Bad = {}
    <3>1. SUFFICES ASSUME Bad # {} PROVE FALSE
      OBVIOUS
    <3>2. PICK j \in Bad : \A i \in Bad : j <= i
      <4>1. Bad \in SUBSET Nat
        OBVIOUS
      <4> HIDE DEF Bad
      <4> QED BY <3>1, <4>1, HasLeast
    <3>3. j \in 0..m /\ ~ (h[1..j] = g[1..j] /\ g[1..j] \in Nat)
      BY <3>2
    <3>4. j # 0
      BY <1>3, <2>4, <3>3
    <3>5. PICK p : p = j - 1
      OBVIOUS
    <3>6. j \in 1..m /\ j \in 1..n /\ p \in 0..m /\ ~ (j <= p)
      BY <1>1, <1>5, <3>3, <3>4, <3>5
    <3>7. p \notin Bad
      BY <3>2, <3>6
    <3>8. h[1..p] = g[1..p] /\ g[1..p] \in Nat
      BY <3>6, <3>7
    <3>9. h[1..j] = h[1..p] + doc[batch[j]].size /\ g[1..j] = g[1..p] + doc[batch[j]].size
      BY <1>3, <2>4, <3>5, <3>6
    <3>10. doc[batch[j]].size \in Nat
      BY <1>4, <3>6
    <3> QED BY <3>3, <3>8, <3>9, <3>10
  <2>6. m \in 0..m
    BY <2>2
  <2>7. h[1..m] = g[1..m] /\ g[1..m] \in Nat
    BY <2>5, <2>6
  <2> QED BY <2>1, <2>3, <2>7
<1>6. k \in 1..n /\ k \in Nat /\ k <= n /\ k - 1 \in Nat /\ k - 1 <= n
  BY <1>1
<1>7. /\ Size(doc, SubSeq(batch, 1, k)) = g[1..k]
      /\ Size(doc, SubSeq(batch, 1, k - 1)) = g[1..(k - 1)] /\ g[1..(k - 1)] \in Nat
  BY <1>5, <1>6
<1> QED BY <1>3, <1>6, <1>7

\* A batch begins at a cut, and the walk remembers it up to the next one.
LEMMA SliceBegins ==
  ASSUME NEW doc \in Seq(Cue), NEW maxCues, NEW m, m = Cardinality(Starts(doc, maxCues)),
         NEW cut, cut = Ascending(Cuts(doc, maxCues)), NEW b \in 1..m,
         NEW r \in cut[b]..(cut[b + 1] - 1)
  PROVE  Begins(doc, maxCues)[r] = cut[b]
<1>1. PICK n \in Nat : n = Len(Todo(doc)) /\ DOMAIN Todo(doc) = 1..n
  BY TodoIs
<1>2. PICK begin : begin = Begins(doc, maxCues)
  OBVIOUS
<1>3. PICK S : S = Starts(doc, maxCues)
  OBVIOUS
<1>4. PICK C : C = Cuts(doc, maxCues)
  OBVIOUS
<1>5. S \subseteq 1..n /\ C = S \union {n + 1} /\ \A q \in 1..n : q \in S <=> begin[q] = q
  BY <1>1, <1>2, <1>3, <1>4 DEF Starts, Cuts
<1>6. /\ m \in Nat /\ cut \in [1..(m + 1) -> Nat] /\ cut[1] = 1 /\ cut[m + 1] = n + 1
      /\ \A a \in 1..m : cut[a] < cut[a + 1]
      /\ \A a \in 1..(m + 1) : cut[a] <= n + 1
  BY <1>1, CutsAre
<1>7. PICK x, y : x = cut[b] /\ y = cut[b + 1]
  OBVIOUS
<1>8. /\ b \in 1..(m + 1) /\ b + 1 \in 1..(m + 1)
      /\ x \in Nat /\ y \in Nat /\ x < y /\ y <= n + 1
  <2>1. b \in 1..(m + 1) /\ b + 1 \in 1..(m + 1)
    BY <1>6
  <2>2. /\ cut[b] \in Nat /\ cut[b + 1] \in Nat /\ cut[b] < cut[b + 1]
        /\ cut[b + 1] <= n + 1
    BY <1>6, <2>1
  <2> QED BY <1>7, <2>1, <2>2
<1>9. IsFiniteSet(C) /\ Cardinality(C) = m + 1 /\ C \in SUBSET Nat
  <2>1. IsFiniteSet(1..n)
    BY FS_Interval
  <2>2. IsFiniteSet(S)
    BY <1>5, <2>1, FS_Subset
  <2>3. n + 1 \notin S
    BY <1>5
  <2>4. C = S \union {n + 1} /\ m = Cardinality(S)
    BY <1>3, <1>5
  <2>5. IsFiniteSet(C) /\ Cardinality(C) = m + 1
    BY <2>2, <2>3, <2>4, FS_AddElement
  <2>6. C \in SUBSET Nat
    BY <1>5
  <2> QED BY <2>5, <2>6
<1>10. cut = [k \in 1..(m + 1) |-> Nth(C, k)]
  BY <1>4, <1>9 DEF Ascending
<1>11. x = Nth(C, b) /\ y = Nth(C, b + 1)
  BY <1>7, <1>8, <1>10
<1>12. x \in C /\ 1 <= x /\ x \in 1..n /\ begin[x] = x
  <2>1. x \in C
    BY <1>8, <1>9, <1>11, NthIs
  <2> QED BY <1>5, <1>8, <2>1
\* Between two neighbours in ascending order there is none.
<1>13. ASSUME NEW z \in C
       PROVE  ~ (x < z /\ z < y)
  <2>1. SUFFICES ASSUME x < z, z < y PROVE FALSE
    OBVIOUS
  <2>2. PICK c : c = Cardinality(UpTo(C, z))
    OBVIOUS
  <2>3. c \in 1..(m + 1) /\ Nth(C, c) = z
    BY <1>9, <2>2, NthOf
  <2>4. z \in Nat
    BY <1>9
  <2>5. PICK d : d = b + 1
    OBVIOUS
  <2>6. d \in 1..(m + 1) /\ Nth(C, d) = y
    BY <1>8, <1>11, <2>5
  <2>7. \/ c = b \/ c = d \/ c < b \/ d < c
    BY <1>6, <2>3, <2>5
  <2>8. c # b /\ c # d
    BY <1>8, <1>11, <2>1, <2>3, <2>4, <2>6
  <2>9. CASE c < b
    <3>1. Nth(C, c) < Nth(C, b)
      BY <1>8, <1>9, <2>3, <2>9, NthOrdered
    <3> QED BY <1>8, <1>11, <2>1, <2>3, <2>4, <3>1
  <2>10. CASE d < c
    <3>1. Nth(C, d) < Nth(C, c)
      BY <1>9, <2>3, <2>6, <2>10, NthOrdered
    <3> QED BY <1>8, <2>1, <2>3, <2>4, <2>6, <3>1
  <2> QED BY <2>7, <2>8, <2>9, <2>10
<1>14. ASSUME NEW q \in 1..n, q # 1
       PROVE  begin[q] = q \/ begin[q] = begin[q - 1]
  <2>1. \E f : Walks(doc, maxCues, f, n)
    BY WalksExist
  <2>2. Walks(doc, maxCues, begin, n)
    BY <1>1, <1>2, <2>1 DEF Walks, Begins
  <2> QED BY <1>14, <2>2 DEF Walks
<1> DEFINE Bad == {q \in x..(y - 1) : begin[q] # x}
<1>15. Bad = {}
  <2>1. SUFFICES ASSUME Bad # {} PROVE FALSE
    OBVIOUS
  <2>2. PICK q \in Bad : \A p \in Bad : q <= p
    <3>1. Bad \in SUBSET Nat
      BY <1>8
    <3> HIDE DEF Bad
    <3> QED BY <2>1, <3>1, HasLeast
  <2>3. q \in x..(y - 1) /\ begin[q] # x
    BY <2>2
  <2>4. q \in Nat /\ x < q /\ q < y /\ q \in 1..n /\ q # 1
    BY <1>8, <1>12, <2>3
  <2>5. PICK p : p = q - 1
    OBVIOUS
  <2>6. p \in x..(y - 1) /\ ~ (q <= p)
    BY <1>8, <2>4, <2>5
  <2>7. begin[p] = x
    BY <2>2, <2>6
  <2>8. q \notin C
    BY <1>13, <2>4
  <2>9. begin[q] # q
    BY <1>5, <2>4, <2>8
  <2> QED BY <1>14, <2>3, <2>4, <2>5, <2>7, <2>9
<1>16. r \in x..(y - 1)
  BY <1>7
<1> QED BY <1>2, <1>7, <1>15, <1>16

\* A slice of a sequence, and the first items of the slice.
LEMMA SliceOf ==
  ASSUME NEW X, NEW s \in Seq(X), NEW x \in Nat, NEW y \in Nat,
         1 <= x, x < y, y <= Len(s) + 1, NEW t, t = SubSeq(s, x, y - 1)
  PROVE  /\ t \in Seq(X) /\ Len(t) = y - x
         /\ \A k \in 1..(y - x) : /\ t[k] = s[x + k - 1]
                                  /\ SubSeq(t, 1, k) = SubSeq(s, x, x + k - 1)
                                  /\ Len(SubSeq(t, 1, k)) = k
         /\ SubSeq(t, 1, y - x) = t
<1>1. \A i \in x..(y - 1) : s[i] \in X
  OBVIOUS
<1>2. PICK l \in Nat : l = y - x /\ 1 <= l
  OBVIOUS
<1>3. /\ t \in Seq(X) /\ Len(t) = l
      /\ \A k \in 1..l : t[k] = s[x + k - 1]
  <2>1. PICK z : z = y - 1
    OBVIOUS
  <2>2. z \in Int /\ x <= z /\ z - x + 1 = l
    BY <1>2, <2>1
  <2>3. /\ t \in Seq(X) /\ Len(t) = z - x + 1
        /\ \A k \in 1..(z - x + 1) : t[k] = s[x + k - 1]
    BY <1>1, <2>1, <2>2, SubSeqProperties
  <2> QED BY <2>2, <2>3
<1>4. ASSUME NEW k \in 1..l
      PROVE  SubSeq(t, 1, k) = SubSeq(s, x, x + k - 1) /\ Len(SubSeq(t, 1, k)) = k
  <2>1. PICK z : z = x + k - 1
    OBVIOUS
  <2>2. /\ z \in Int /\ x <= z /\ z - x + 1 = k /\ z <= y - 1
        /\ k \in Nat /\ 1 <= k /\ k - 1 + 1 = k
    BY <1>2, <2>1
  <2>3. PICK u, v : u = SubSeq(t, 1, k) /\ v = SubSeq(s, x, z)
    OBVIOUS
  <2>4. /\ v \in Seq(X) /\ Len(v) = k
        /\ \A j \in 1..k : v[j] = s[x + j - 1]
    <3>1. \A i \in x..z : s[i] \in X
      BY <1>1, <2>2
    <3> QED BY <2>2, <2>3, <3>1, SubSeqProperties
  <2>5. /\ u \in Seq(X) /\ Len(u) = k
        /\ \A j \in 1..k : u[j] = t[j]
    <3>1. \A i \in 1..k : t[i] \in X
      BY <1>3, <2>2
    <3>2. /\ u \in Seq(X) /\ Len(u) = IF 1 <= k THEN k - 1 + 1 ELSE 0
          /\ \A j \in 1..(k - 1 + 1) : u[j] = t[1 + j - 1]
      BY <2>2, <2>3, <3>1, SubSeqProperties
    <3> QED BY <2>2, <3>2
  <2>6. \A j \in 1..k : j \in 1..l
    BY <1>2
  <2>7. \A j \in 1..k : u[j] = v[j]
    BY <1>3, <2>4, <2>5, <2>6
  <2>8. u = v
    BY <2>4, <2>5, <2>7
  <2> QED BY <2>1, <2>3, <2>5, <2>8
<1>5. SubSeq(t, 1, l) = t
  BY <1>3, SubSeqFull
<1> QED BY <1>2, <1>3, <1>4, <1>5

\* What batch_subdoc promises of a batch: no more cues than allowed, no more
\* characters unless it is a single cue, and no scene gap inside.
WithinLimits(doc, batch, maxCues) ==
  /\ Len(batch) \in 1..maxCues
  /\ Len(batch) > 1 => Size(doc, batch) <= Budget
  /\ \A k \in 2..Len(batch) : ~ doc[batch[k]].gap

\* batch_subdoc (ENG-02, D-14): every batch keeps the cue cap, the character
\* budget and the scene, whatever the document, and none ends before one of the
\* three makes it: with the cue that follows it would break one.
THEOREM BatchesWithinLimits ==
  ASSUME Budget \in Int, NEW doc \in Seq(Cue), NEW maxCues \in Nat \ {0},
         NEW batches, batches = Batches(doc, maxCues)
  PROVE  /\ \A b \in DOMAIN batches : WithinLimits(doc, batches[b], maxCues)
         /\ \A b \in DOMAIN batches : b + 1 \in DOMAIN batches =>
              Closes(doc, batches[b], batches[b + 1][1], maxCues)
<1>1. PICK todo, n : todo = Todo(doc) /\ n = Len(todo)
  OBVIOUS
<1>2. PICK m : m = Cardinality(Starts(doc, maxCues))
  OBVIOUS
<1>3. PICK cut : cut = Ascending(Cuts(doc, maxCues))
  OBVIOUS
<1>4. PICK begin : begin = Begins(doc, maxCues)
  OBVIOUS
<1>5. /\ m \in Nat /\ cut \in [1..(m + 1) -> Nat]
      /\ cut[1] = 1 /\ cut[m + 1] = n + 1
      /\ \A b \in 1..m : cut[b] < cut[b + 1]
      /\ \A b \in 1..(m + 1) : cut[b] <= n + 1
  BY <1>1, <1>2, <1>3, CutsAre
<1>6. batches = [b \in 1..m |-> SubSeq(todo, cut[b], cut[b + 1] - 1)]
  BY <1>1, <1>2, <1>3 DEF Batches, Starts, Cuts
<1>7. /\ todo \in Seq(DOMAIN doc) /\ n \in Nat /\ DOMAIN todo = 1..n
  <2>1. todo \in Seq(Translatable(doc))
    BY <1>1, TodoIs
  <2>2. Translatable(doc) \subseteq DOMAIN doc
    BY DEF Translatable
  <2> QED BY <1>1, <2>1, <2>2
<1>8. ASSUME NEW q \in 1..n, q # 1
      PROVE  begin[q] = IF Closes(doc, SubSeq(todo, begin[q - 1], q - 1), todo[q], maxCues)
                        THEN q ELSE begin[q - 1]
  <2>1. \E f : Walks(doc, maxCues, f, n)
    BY <1>7, WalksExist
  <2>2. Walks(doc, maxCues, begin, n)
    BY <1>1, <1>4, <2>1 DEF Walks, Begins
  <2> QED BY <1>1, <1>8, <2>2 DEF Walks
<1>9. ASSUME NEW b \in 1..m
      PROVE  /\ b \in 1..(m + 1) /\ b + 1 \in 1..(m + 1)
             /\ cut[b] \in Nat /\ cut[b + 1] \in Nat /\ 1 <= cut[b]
             /\ cut[b] < cut[b + 1] /\ cut[b + 1] <= n + 1
             /\ \A q \in cut[b]..(cut[b + 1] - 1) : begin[q] = cut[b]
  <2>1. b \in 1..(m + 1) /\ b + 1 \in 1..(m + 1)
    BY <1>5
  <2>2. /\ cut[b] \in Nat /\ cut[b + 1] \in Nat
        /\ cut[b] < cut[b + 1] /\ cut[b + 1] <= n + 1
    BY <1>5, <2>1
  <2>3. \A q \in cut[b]..(cut[b + 1] - 1) : begin[q] = cut[b]
    BY <1>2, <1>3, <1>4, SliceBegins
  <2>4. 1 <= cut[b]
    <3>1. CASE b = 1
      BY <1>5, <3>1
    <3>2. CASE b # 1
      <4>1. PICK a : a = b - 1
        OBVIOUS
      <4>2. a \in 1..m /\ a + 1 = b /\ a \in 1..(m + 1)
        BY <1>5, <3>2, <4>1
      <4>3. cut[a] < cut[b] /\ cut[a] \in Nat
        BY <1>5, <4>2
      <4> QED BY <2>2, <4>3
    <3> QED BY <3>1, <3>2
  <2> QED BY <2>1, <2>2, <2>3, <2>4
<1>10. Budget \in Int
  OBVIOUS
<1>11. ASSUME NEW b \in 1..m
       PROVE  WithinLimits(doc, batches[b], maxCues)
  <2>1. PICK x, y : x = cut[b] /\ y = cut[b + 1]
    OBVIOUS
  <2>2. /\ x \in Nat /\ y \in Nat /\ 1 <= x /\ x < y /\ y <= n + 1
        /\ \A q \in x..(y - 1) : begin[q] = x
    BY <1>9, <2>1
  <2>3. PICK batch, l : batch = batches[b] /\ l = y - x
    OBVIOUS
  <2>4. /\ batch \in Seq(DOMAIN doc) /\ Len(batch) = l
        /\ \A k \in 1..l : /\ batch[k] = todo[x + k - 1]
                           /\ SubSeq(batch, 1, k) = SubSeq(todo, x, x + k - 1)
                           /\ Len(SubSeq(batch, 1, k)) = k
        /\ SubSeq(batch, 1, l) = batch
    <3>1. batch = SubSeq(todo, x, y - 1)
      BY <1>6, <2>1, <2>3
    <3>2. y <= Len(todo) + 1
      BY <1>1, <2>2
    <3> QED BY <1>7, <2>2, <2>3, <3>1, <3>2, SliceOf
\* A later cue of the batch was added to a part that did not close before it.
  <2>5. ASSUME NEW k \in 2..l
        PROVE  /\ ~ doc[batch[k]].gap
               /\ Size(doc, SubSeq(batch, 1, k)) <= Budget
               /\ k <= maxCues
    <3>1. PICK q, p, j : q = x + k - 1 /\ p = q - 1 /\ j = k - 1
      OBVIOUS
    <3>2. /\ q \in x..(y - 1) /\ p \in x..(y - 1) /\ q \in 1..n /\ q # 1 /\ q # x
          /\ j \in 1..l /\ k \in 1..l /\ x + j - 1 = p /\ j \in Nat /\ k = j + 1
      BY <1>7, <2>2, <2>3, <3>1
    <3>3. begin[q] = x /\ begin[p] = x
      BY <2>2, <3>2
    <3>4. ~ Closes(doc, SubSeq(todo, x, p), todo[q], maxCues)
      BY <1>8, <3>1, <3>2, <3>3
    <3>5. PICK part : part = SubSeq(batch, 1, j)
      OBVIOUS
    <3>6. part = SubSeq(todo, x, p) /\ batch[k] = todo[q]
      BY <2>4, <3>1, <3>2, <3>5
    <3>7. Len(part) = j
      BY <2>4, <3>2, <3>5
    <3>8. /\ ~ doc[batch[k]].gap
          /\ ~ (Size(doc, part) + doc[batch[k]].size > Budget)
          /\ ~ (Len(part) >= maxCues)
      BY <3>4, <3>6 DEF Closes
    <3>9. k \in 1..Len(batch)
      BY <2>4, <3>2
    <3>10. PICK before, after : before = Size(doc, part) /\ after = Size(doc, SubSeq(batch, 1, k))
      OBVIOUS
    <3>11. before \in Nat /\ after = before + doc[batch[k]].size
      BY <2>4, <3>1, <3>5, <3>9, <3>10, SizeGrows
    <3>12. PICK more \in Nat : more = doc[batch[k]].size
      <4>1. doc[batch[k]] \in Cue
        BY <2>4, <3>9
      <4> QED BY <4>1 DEF Cue
    <3>13. after <= Budget
      <4>1. ~ (before + more > Budget) /\ after = before + more
        BY <3>8, <3>10, <3>11, <3>12
      <4> QED BY <1>10, <3>11, <4>1
    <3>14. k <= maxCues
      BY <3>2, <3>7, <3>8
    <3> QED BY <3>8, <3>10, <3>13, <3>14
  <2>6. l \in Nat /\ 1 <= l
    BY <2>2, <2>3
  <2>7. l \in 1..maxCues
    <3>1. CASE l = 1
      BY <3>1
    <3>2. CASE l # 1
      <4>1. l \in 2..l
        BY <2>6, <3>2
      <4> QED BY <2>5, <2>6, <4>1
    <3> QED BY <3>1, <3>2
  <2>8. l > 1 => Size(doc, batch) <= Budget
    <3>1. l > 1 => l \in 2..l
      BY <2>6
    <3> QED BY <2>4, <2>5, <3>1
  <2>9. WithinLimits(doc, batch, maxCues)
    BY <2>4, <2>5, <2>7, <2>8 DEF WithinLimits
  <2> QED BY <2>3, <2>9
<1>12. ASSUME NEW b \in 1..m, b + 1 \in 1..m
       PROVE  Closes(doc, batches[b], batches[b + 1][1], maxCues)
  <2>1. PICK c, x, y, z : c = b + 1 /\ x = cut[b] /\ y = cut[b + 1] /\ z = cut[c + 1]
    OBVIOUS
  <2>2. /\ x \in Nat /\ y \in Nat /\ 1 <= x /\ x < y
        /\ \A q \in x..(y - 1) : begin[q] = x
    BY <1>9, <2>1
  <2>3. c \in 1..m /\ y = cut[c]
    BY <1>12, <2>1
  <2>4. z \in Nat /\ y < z /\ z <= n + 1 /\ \A q \in y..(z - 1) : begin[q] = y
    BY <1>9, <2>1, <2>3
  <2>5. PICK p : p = y - 1
    OBVIOUS
  <2>6. /\ y \in y..(z - 1) /\ p \in x..(y - 1) /\ y \in 1..n /\ y # 1 /\ x # y
    BY <1>7, <2>2, <2>4, <2>5
  <2>7. begin[y] = y /\ begin[p] = x
    BY <2>2, <2>4, <2>6
  <2>8. Closes(doc, SubSeq(todo, x, p), todo[y], maxCues)
    BY <1>8, <2>5, <2>6, <2>7
  <2>9. batches[b] = SubSeq(todo, x, p)
    BY <1>6, <2>1, <2>5
  <2>10. batches[c][1] = todo[y]
    <3>1. 1 \in 1..(z - y) /\ y + 1 - 1 = y
      BY <2>2, <2>4
    <3>2. PICK batch : batch = batches[c]
      OBVIOUS
    <3>3. batch = SubSeq(todo, y, z - 1)
      BY <1>6, <2>1, <2>3, <3>2
    <3>4. y <= n + 1 /\ n = Len(todo)
      BY <1>1, <2>2, <2>4
    <3>5. \A k \in 1..(z - y) : batch[k] = todo[y + k - 1]
      BY <1>7, <2>2, <2>4, <3>3, <3>4, SliceOf
    <3> QED BY <3>1, <3>2, <3>5
  <2> QED BY <2>1, <2>8, <2>9, <2>10
<1>13. DOMAIN batches = 1..m
  BY <1>6
<1> QED BY <1>11, <1>12, <1>13

-----------------------------------------------------------------------------
(* The answers of the batches. *)

\* Together, what is answered batch by batch is one item for each cue that is
\* translated: each item of a batch lands where its cue is.
Lands(doc, batches, results) ==
  /\ Len(FlattenSeq(results)) = Len(Todo(doc))
  /\ \A q \in 1..Len(Todo(doc)) :
       \E b \in DOMAIN batches : \E k \in 1..Len(batches[b]) :
         Todo(doc)[q] = batches[b][k] /\ FlattenSeq(results)[q] = results[b][k]

\* So it is when each batch is answered by one item for each of its cues.
LEMMA AnswersTogether ==
  ASSUME NEW doc \in Seq(Cue), NEW maxCues, NEW X, NEW results,
         NEW batches, batches = Batches(doc, maxCues),
         results \in [DOMAIN batches -> Seq(X)],
         \A b \in DOMAIN batches : Len(results[b]) = Len(batches[b])
  PROVE  FlattenSeq(results) \in Seq(X) /\ Lands(doc, batches, results)
<1>1. batches \in Seq(Seq(Translatable(doc))) /\ FlattenSeq(batches) = Todo(doc)
  BY BatchesAre
<1>2. PICK n \in Nat : n = Len(batches)
  BY <1>1
<1>3. DOMAIN batches = 1..n /\ batches \in [1..n -> Seq(Translatable(doc))]
  BY <1>1, <1>2
<1>4. CASE n = 0
  <2>1. batches = <<>> /\ results = <<>>
    BY <1>1, <1>3, <1>4
  <2>2. FlattenSeq(results) = <<>> /\ Todo(doc) = <<>>
    BY <1>1, <2>1 DEF FlattenSeq
  <2> QED BY <2>2 DEF Lands
<1>5. CASE n # 0
  <2>1. n \in Nat \ {0} /\ results \in [1..n -> Seq(X)]
    BY <1>3, <1>5
  <2>2. \A b \in 1..n : Len(batches[b]) = Len(results[b])
    BY <1>3
  <2>3. /\ FlattenSeq(results) \in Seq(X)
        /\ Alike(n, batches, results, FlattenSeq(batches), FlattenSeq(results))
    BY <1>3, <2>1, <2>2, FlattenAlike
  <2>4. Alike(n, batches, results, Todo(doc), FlattenSeq(results))
    BY <1>1, <2>3
  <2>5. /\ Len(Todo(doc)) = Len(FlattenSeq(results))
        /\ \A q \in 1..Len(Todo(doc)) : \E b \in 1..n : \E k \in 1..Len(batches[b]) :
             Todo(doc)[q] = batches[b][k] /\ FlattenSeq(results)[q] = results[b][k]
    BY <2>4 DEF Alike
  <2>6. \A q \in 1..Len(Todo(doc)) :
          \E b \in DOMAIN batches : \E k \in 1..Len(batches[b]) :
            Todo(doc)[q] = batches[b][k] /\ FlattenSeq(results)[q] = results[b][k]
    <3>1. TAKE q \in 1..Len(Todo(doc))
    <3>2. PICK b \in 1..n : \E k \in 1..Len(batches[b]) :
             Todo(doc)[q] = batches[b][k] /\ FlattenSeq(results)[q] = results[b][k]
      BY <2>5
    <3>3. b \in DOMAIN batches
      BY <1>3
    <3> QED BY <3>2, <3>3
  <2>7. Len(FlattenSeq(results)) = Len(Todo(doc))
    BY <2>5
  <2> QED BY <2>3, <2>6, <2>7 DEF Lands
<1> QED BY <1>4, <1>5

-----------------------------------------------------------------------------
(* Every line has the text of its own cue. *)

\* The texts answered for some cues are of these, in their order.
TextsOf(answer, cues) ==
  /\ answer \in Seq(Text) /\ Len(answer) = Len(cues)
  /\ \A k \in 1..Len(cues) : answer[k].of = cues[k] /\ answer[k].text # "raw"

\* The same of attributions.
AttributionsOf(answer, cues) ==
  /\ answer \in Seq(Attribution) /\ Len(answer) = Len(cues)
  /\ \A k \in 1..Len(cues) : answer[k].cue = cues[k]

\* A document each line of which has its own text.
Own(doc) ==
  /\ doc \in Seq(Line) /\ Len(doc) = Len(source)
  /\ \A i \in 1..Len(source) : /\ doc[i].cue = i /\ doc[i].of = i
                               /\ source[i].raw <=> doc[i].text = "raw"

\* Step 8 puts every text at its own cue.
LEMMA AssembledOwn ==
  ASSUME source \in Seq(Cue), NEW maxCues, NEW batches, batches = Batches(source, maxCues),
         NEW results \in [DOMAIN batches -> Seq(Text)],
         \A b \in DOMAIN batches : TextsOf(results[b], batches[b])
  PROVE  Own(Assembled(source, results))
<1> DEFINE queue == FlattenSeq(results)
           todo  == Todo(source)
<1>1. \A b \in DOMAIN batches : Len(results[b]) = Len(batches[b])
  BY DEF TextsOf
<1>2. /\ queue \in Seq(Text) /\ Len(queue) = Len(todo)
      /\ \A q \in 1..Len(todo) : \E b \in DOMAIN batches : \E k \in 1..Len(batches[b]) :
           todo[q] = batches[b][k] /\ queue[q] = results[b][k]
  <2>1. /\ FlattenSeq(results) \in Seq(Text)
        /\ Len(FlattenSeq(results)) = Len(Todo(source))
        /\ \A q \in 1..Len(Todo(source)) :
             \E b \in DOMAIN batches : \E k \in 1..Len(batches[b]) :
               Todo(source)[q] = batches[b][k] /\ FlattenSeq(results)[q] = results[b][k]
    <3>1. FlattenSeq(results) \in Seq(Text) /\ Lands(source, batches, results)
      BY <1>1, AnswersTogether
    <3> QED BY <3>1 DEF Lands
  <2> QED BY <2>1, Zenon
<1>3. \A q \in 1..Len(todo) :
        queue[q] \in Text /\ queue[q].of = todo[q] /\ queue[q].text # "raw"
  <2>1. SUFFICES ASSUME NEW q \in 1..Len(todo)
                 PROVE  queue[q] \in Text /\ queue[q].of = todo[q] /\ queue[q].text # "raw"
    OBVIOUS
  <2> HIDE DEF queue, todo
  <2>2. PICK b \in DOMAIN batches : \E k \in 1..Len(batches[b]) :
           todo[q] = batches[b][k] /\ queue[q] = results[b][k]
    BY <1>2
  <2>3. PICK k \in 1..Len(batches[b]) : todo[q] = batches[b][k] /\ queue[q] = results[b][k]
    BY <2>2
  <2>4. results[b][k].of = batches[b][k] /\ results[b][k].text # "raw"
    BY DEF TextsOf
  <2>5. queue[q] \in Text
    BY <1>2
  <2> QED BY <2>3, <2>4, <2>5
<1>4. Assembled(source, results) =
        [i \in 1..Len(source) |->
           IF source[i].raw THEN RawLine(i) ELSE At(i, queue[Rank(source, i)])]
  <2>1. DOMAIN source = 1..Len(source)
    OBVIOUS
  <2> QED BY <2>1 DEF Assembled
<1> HIDE DEF queue
<1>5. PICK doc : doc = Assembled(source, results)
  OBVIOUS
<1>6. ASSUME NEW i \in 1..Len(source)
      PROVE  /\ doc[i] \in Line /\ doc[i].cue = i /\ doc[i].of = i
             /\ source[i].raw <=> doc[i].text = "raw"
  <2>1. i \in Nat /\ source[i].raw \in BOOLEAN /\ i \in DOMAIN source
    <3>1. source[i] \in Cue /\ i \in Nat /\ i \in DOMAIN source
      OBVIOUS
    <3> QED BY <3>1 DEF Cue
  <2>2. CASE source[i].raw
    <3>1. doc[i] = RawLine(i)
      BY <1>4, <1>5, <2>2
    <3> QED BY <2>1, <2>2, <3>1 DEF RawLine, Line, TextKinds
  <2>3. CASE ~ source[i].raw
    <3>1. i \in Translatable(source)
      BY <2>1, <2>3 DEF Translatable
    <3>2. PICK q : q = Rank(source, i)
      OBVIOUS
    <3>3. q \in 1..Len(todo) /\ todo[q] = i
      BY <3>1, <3>2, TodoIs
    <3>4. PICK t : t = queue[q]
      OBVIOUS
    <3>5. t \in Text /\ t.of = i /\ t.text # "raw"
      BY <1>3, <3>3, <3>4
    <3>6. doc[i] = At(i, t)
      BY <1>4, <1>5, <2>3, <3>2, <3>4
    <3> QED BY <2>1, <2>3, <3>5, <3>6 DEF At, Line, Text
  <2> QED BY <2>1, <2>2, <2>3
<1>7. Len(source) \in Nat /\ doc = [i \in 1..Len(source) |-> doc[i]]
  BY <1>4, <1>5
<1>8. doc \in Seq(Line) /\ Len(doc) = Len(source)
  BY <1>6, <1>7
<1> QED BY <1>5, <1>6, <1>8 DEF Own

\* A correction lands at the line of its cue, and is made of that cue.
LEMMA SplicedOwn ==
  ASSUME source \in Seq(Cue), Own(lines),
         NEW maxCues, NEW batches, batches = Batches(source, maxCues),
         NEW results \in [DOMAIN batches -> Seq(Text)],
         \A b \in DOMAIN batches : results[b] = Kept \/ TextsOf(results[b], batches[b])
  PROVE  Own(Spliced(source, lines, batches, results))
<1> DEFINE X == {<<>>} \union (Nat \X Text)
           said == [b \in DOMAIN batches |->
                      IF results[b] = Kept THEN [k \in DOMAIN batches[b] |-> <<>>]
                      ELSE [k \in DOMAIN batches[b] |-> <<batches[b][k], results[b][k]>>]]
<1>0. batches \in Seq(Seq(Translatable(source)))
  BY BatchesAre
<1>1. ASSUME NEW b \in DOMAIN batches
      PROVE  /\ said[b] \in Seq(X) /\ Len(said[b]) = Len(batches[b])
             /\ \A k \in 1..Len(batches[b]) :
                  \/ said[b][k] = <<>>
                  \/ /\ said[b][k] = <<batches[b][k], results[b][k]>>
                     /\ results[b][k] \in Text /\ results[b][k].of = batches[b][k]
                     /\ results[b][k].text # "raw"
  <2>1. /\ batches[b] \in Seq(Translatable(source)) /\ DOMAIN batches[b] = 1..Len(batches[b])
        /\ Len(batches[b]) \in Nat
    BY <1>0
  <2>2. CASE results[b] = Kept
    <3>1. said[b] = [k \in 1..Len(batches[b]) |-> <<>>]
      BY <2>1, <2>2
    <3>2. <<>> \in X
      OBVIOUS
    <3> HIDE DEF said, X
    <3> QED BY <2>1, <3>1, <3>2
  <2>3. CASE results[b] # Kept
    <3>1. said[b] = [k \in 1..Len(batches[b]) |-> <<batches[b][k], results[b][k]>>]
      BY <2>1, <2>3
    <3>2. TextsOf(results[b], batches[b])
      BY <2>3
    <3>3. ASSUME NEW k \in 1..Len(batches[b])
          PROVE  /\ results[b][k] \in Text /\ results[b][k].of = batches[b][k]
                 /\ results[b][k].text # "raw"
                 /\ <<batches[b][k], results[b][k]>> \in X
      <4>1. results[b][k] \in Text /\ results[b][k].of = batches[b][k]
            /\ results[b][k].text # "raw"
        BY <3>2 DEF TextsOf
      <4>2. batches[b][k] \in Nat
        <5>1. batches[b][k] \in Translatable(source)
          BY <2>1
        <5> QED BY <5>1, TodoIs
      <4>3. <<batches[b][k], results[b][k]>> \in Nat \X Text
        BY <4>1, <4>2
      <4> QED BY <4>1, <4>3
    <3> HIDE DEF said, X
    <3> QED BY <2>1, <3>1, <3>3
  <2> QED BY <2>2, <2>3
<1>2. PICK all : all = said
  OBVIOUS
<1>3. all \in [DOMAIN batches -> Seq(X)] /\ \A b \in DOMAIN batches : Len(all[b]) = Len(batches[b])
  <2>1. said \in [DOMAIN batches -> Seq(X)]
    <3>1. \A b \in DOMAIN batches : said[b] \in Seq(X)
      BY <1>1
    <3>2. said = [b \in DOMAIN batches |-> said[b]]
      OBVIOUS
    <3> HIDE DEF said, X
    <3> QED BY <3>1, <3>2, Zenon
  <2> HIDE DEF said, X
  <2> QED BY <1>1, <1>2, <2>1
<1>4. ASSUME NEW b \in DOMAIN batches, NEW k \in 1..Len(batches[b]), all[b][k] # <<>>
      PROVE  /\ all[b][k] = <<batches[b][k], results[b][k]>>
             /\ results[b][k] \in Text /\ results[b][k].of = batches[b][k]
             /\ results[b][k].text # "raw"
  <2> HIDE DEF said
  <2> QED BY <1>1, <1>2, <1>4
<1>5. PICK corr : corr = Corrections(batches, results)
  OBVIOUS
<1>6. corr = FlattenSeq(all)
  BY <1>2, <1>5 DEF Corrections
<1>7. Lands(source, batches, all)
  <2> HIDE DEF X
  <2> QED BY <1>3, AnswersTogether
<1>8. PICK doc : doc = Spliced(source, lines, batches, results)
  OBVIOUS
<1>9. /\ Len(lines) = Len(source) /\ Len(source) \in Nat
      /\ DOMAIN lines = 1..Len(source) /\ DOMAIN source = 1..Len(source)
  BY DEF Own
<1>10. doc = [i \in 1..Len(source) |->
                IF source[i].raw \/ corr[Rank(source, i)] = <<>> THEN lines[i]
                ELSE At(corr[Rank(source, i)][1],
                        Correction(corr[Rank(source, i)][2],
                                   lines[corr[Rank(source, i)][1]]))]
  BY <1>5, <1>8, <1>9 DEF Spliced
<1> HIDE DEF said, X
<1>11. ASSUME NEW i \in 1..Len(source)
       PROVE  /\ doc[i] \in Line /\ doc[i].cue = i /\ doc[i].of = i
              /\ source[i].raw <=> doc[i].text = "raw"
  <2>1. /\ lines[i] \in Line /\ lines[i].cue = i /\ lines[i].of = i
        /\ source[i].raw <=> lines[i].text = "raw"
    BY <1>9 DEF Own
  <2>2. PICK q : q = Rank(source, i)
    OBVIOUS
  <2>3. doc[i] = IF source[i].raw \/ corr[q] = <<>> THEN lines[i]
                 ELSE At(corr[q][1], Correction(corr[q][2], lines[corr[q][1]]))
    BY <1>10, <2>2
  <2>4. CASE source[i].raw \/ corr[q] = <<>>
    BY <2>1, <2>3, <2>4
  <2>5. CASE ~ source[i].raw /\ corr[q] # <<>>
    <3>1. i \in Translatable(source)
      BY <1>9, <2>5 DEF Translatable
    <3>2. q \in 1..Len(Todo(source)) /\ Todo(source)[q] = i
      BY <2>2, <3>1, TodoIs
    <3>3. PICK b \in DOMAIN batches : \E k \in 1..Len(batches[b]) :
             Todo(source)[q] = batches[b][k] /\ FlattenSeq(all)[q] = all[b][k]
      BY <1>7, <3>2 DEF Lands
    <3>4. PICK k \in 1..Len(batches[b]) : i = batches[b][k] /\ corr[q] = all[b][k]
      BY <1>6, <3>2, <3>3
    <3>5. PICK t : t = results[b][k]
      OBVIOUS
    <3>6. corr[q] = <<i, t>> /\ t \in Text /\ t.of = i /\ t.text # "raw"
      BY <1>4, <2>5, <3>4, <3>5
    <3>7. doc[i] = At(i, Correction(t, lines[i]))
      BY <2>3, <2>5, <3>6
    <3>8. CASE t.text = "scaffold"
      <4>1. doc[i] = At(i, lines[i])
        BY <3>7, <3>8 DEF Correction
      <4> QED BY <2>1, <2>5, <4>1 DEF At, Line
    <3>9. CASE t.text # "scaffold"
      <4>1. doc[i] = At(i, At(i, t))
        BY <2>1, <3>7, <3>9 DEF Correction
      <4>2. i \in Nat
        OBVIOUS
      <4> QED BY <2>5, <3>6, <4>1, <4>2 DEF At, Line, Text
    <3> QED BY <3>8, <3>9
  <2> QED BY <2>4, <2>5
<1>12. doc = [i \in 1..Len(source) |-> doc[i]]
  BY <1>10
<1>13. doc \in Seq(Line) /\ Len(doc) = Len(source)
  BY <1>9, <1>11, <1>12
<1> QED BY <1>8, <1>11, <1>13 DEF Own

\* Brackets change no text.
LEMMA EnvelopedOwn ==
  ASSUME source \in Seq(Cue), NEW doc, Own(doc)
  PROVE  Own(Enveloped(source, doc))
<1>1. PICK new : new = Enveloped(source, doc)
  OBVIOUS
<1>2. DOMAIN doc = 1..Len(source) /\ DOMAIN source = 1..Len(source) /\ Len(source) \in Nat
  BY DEF Own
<1>3. new = [i \in 1..Len(source) |->
               [doc[i] EXCEPT !.wrapped = @ \/ (source[i].enclosed /\ ~ source[i].raw)]]
  BY <1>1, <1>2 DEF Enveloped
<1>4. ASSUME NEW i \in 1..Len(source)
      PROVE  /\ new[i] \in Line /\ new[i].cue = i /\ new[i].of = i
             /\ source[i].raw <=> new[i].text = "raw"
  <2>1. /\ doc[i] \in Line /\ doc[i].cue = i /\ doc[i].of = i
        /\ source[i].raw <=> doc[i].text = "raw"
    BY <1>2 DEF Own
  <2>2. PICK w : w = (doc[i].wrapped \/ (source[i].enclosed /\ ~ source[i].raw))
    OBVIOUS
  <2>3. w \in BOOLEAN
    BY <2>2
  <2>4. new[i] = [doc[i] EXCEPT !.wrapped = w]
    BY <1>3, <2>2
  <2> QED BY <2>1, <2>3, <2>4 DEF Line
<1>5. new = [i \in 1..Len(source) |-> new[i]]
  BY <1>3
<1>6. new \in Seq(Line) /\ Len(new) = Len(source)
  BY <1>2, <1>4, <1>5
<1> QED BY <1>1, <1>4, <1>6 DEF Own

\* A repaired text lands where the one that failed was.
LEMMA RepairedOwn ==
  ASSUME source \in Seq(Cue), NEW doc, Own(doc),
         NEW batch \in Seq(Translatable(source)), NEW texts, TextsOf(texts, batch)
  PROVE  Own(Repaired(doc, batch, texts))
<1>1. PICK new : new = Repaired(doc, batch, texts)
  OBVIOUS
<1>2. /\ DOMAIN doc = 1..Len(source) /\ DOMAIN source = 1..Len(source) /\ Len(source) \in Nat
      /\ DOMAIN batch = 1..Len(batch)
  BY DEF Own
<1>3. new = [i \in 1..Len(source) |->
               IF \E k \in DOMAIN batch : batch[k] = i
               THEN At(doc[i].cue, texts[CHOOSE k \in DOMAIN batch : batch[k] = i])
               ELSE doc[i]]
  BY <1>1, <1>2 DEF Repaired
<1>4. ASSUME NEW i \in 1..Len(source)
      PROVE  /\ new[i] \in Line /\ new[i].cue = i /\ new[i].of = i
             /\ source[i].raw <=> new[i].text = "raw"
  <2>1. /\ doc[i] \in Line /\ doc[i].cue = i /\ doc[i].of = i
        /\ source[i].raw <=> doc[i].text = "raw"
    BY <1>2 DEF Own
  <2>2. CASE ~ \E k \in DOMAIN batch : batch[k] = i
    BY <1>3, <2>1, <2>2
  <2>3. CASE \E k \in DOMAIN batch : batch[k] = i
    <3>1. PICK k : k = CHOOSE x \in DOMAIN batch : batch[x] = i
      OBVIOUS
    <3>2. k \in DOMAIN batch /\ batch[k] = i
      BY <2>3, <3>1
    <3>3. PICK t : t = texts[k]
      OBVIOUS
    <3>4. t \in Text /\ t.of = i /\ t.text # "raw"
      BY <1>2, <3>2, <3>3 DEF TextsOf
    <3>5. ~ source[i].raw
      <4>1. i \in Translatable(source)
        BY <1>2, <3>2
      <4> QED BY <4>1 DEF Translatable
    <3>6. new[i] = At(i, t)
      BY <1>3, <2>1, <2>3, <3>1, <3>3
    <3>7. i \in Nat
      OBVIOUS
    <3> QED BY <3>4, <3>5, <3>6, <3>7 DEF At, Line, Text
  <2> QED BY <2>2, <2>3
<1>5. new = [i \in 1..Len(source) |-> new[i]]
  BY <1>3
<1>6. new \in Seq(Line) /\ Len(new) = Len(source)
  BY <1>2, <1>4, <1>5
<1> QED BY <1>1, <1>4, <1>6 DEF Own

\* The attributions of a batch are of its cues, also where the answer lacks some.
LEMMA AttributedFits ==
  ASSUME NEW cues \in Seq(Nat), NEW answer,
         \A k \in DOMAIN cues \intersect DOMAIN answer : answer[k] \in Attribution
  PROVE  AttributionsOf(Attributed(cues, answer), cues)
<1>1. PICK all : all = Attributed(cues, answer)
  OBVIOUS
<1>2. DOMAIN cues = 1..Len(cues) /\ Len(cues) \in Nat
  OBVIOUS
<1>3. all = [k \in 1..Len(cues) |->
               IF k \in DOMAIN answer THEN Matched([answer[k] EXCEPT !.cue = cues[k]])
               ELSE Unknown(cues[k])]
  BY <1>1, <1>2 DEF Attributed
<1>4. ASSUME NEW k \in 1..Len(cues)
      PROVE  all[k] \in Attribution /\ all[k].cue = cues[k]
  <2>1. cues[k] \in Nat
    OBVIOUS
  <2>2. CASE k \in DOMAIN answer
    <3>1. PICK a : a = [answer[k] EXCEPT !.cue = cues[k]]
      OBVIOUS
    <3>2. answer[k] \in Attribution
      BY <1>2, <2>2
    <3>3. a \in Attribution /\ a.cue = cues[k]
      BY <2>1, <3>1, <3>2 DEF Attribution
    <3>4. all[k] = Matched(a)
      BY <1>3, <2>2, <3>1
    <3> QED BY <3>3, <3>4 DEF Matched, Attribution, Confidence
  <2>3. CASE k \notin DOMAIN answer
    <3>1. all[k] = Unknown(cues[k])
      BY <1>3, <2>3
    <3> QED BY <2>1, <3>1 DEF Unknown, Attribution, Confidence
  <2> QED BY <2>2, <2>3
<1>5. all = [k \in 1..Len(cues) |-> all[k]]
  BY <1>3
<1>6. all \in Seq(Attribution) /\ Len(all) = Len(cues)
  BY <1>2, <1>4, <1>5
<1> QED BY <1>1, <1>4, <1>6 DEF AttributionsOf

\* What a model may answer is of that kind.
LEMMA AnswersTyped ==
  ASSUME NEW n \in Nat, NEW answer \in Answers(n)
  PROVE  \A k \in DOMAIN answer : answer[k] \in Attribution
<1>1. PICK ks \in SUBSET (1..n) :
        answer \in [ks -> {[cue |-> 0, pair |-> m[1], confidence |-> m[2]] : m \in CanMean}]
  BY DEF Answers
<1>2. ASSUME NEW k \in DOMAIN answer
      PROVE  answer[k] \in Attribution
  <2>1. answer[k] \in {[cue |-> 0, pair |-> m[1], confidence |-> m[2]] : m \in CanMean}
    BY <1>1
  <2>2. PICK m \in CanMean : answer[k] = [cue |-> 0, pair |-> m[1], confidence |-> m[2]]
    BY <2>1
  <2>3. m[1] \in Pairs \union {NoPair} /\ m[2] \in Confidence
    BY PipelineAssumption
  <2> QED BY <2>2, <2>3 DEF Attribution
<1> QED BY <1>2

\* A reply with the wrong numbers does not parse.
LEMMA MisnumberedFails ==
  ASSUME NEW n \in Nat \ {0}, NEW numbers \in Misnumbered(n),
         IsInjective(numbers), Range(numbers) = 1..n
  PROVE  FALSE
<1>1. CASE numbers = [k \in 1..(n - 1) |-> k]
  <2>1. n \in Range(numbers)
    OBVIOUS
  <2> QED BY <1>1, <2>1 DEF Range
<1>2. CASE numbers = [k \in 1..(n + 1) |-> k]
  <2>1. n + 1 \in Range(numbers)
    <3>1. n + 1 \in DOMAIN numbers /\ numbers[n + 1] = n + 1
      BY <1>2
    <3> QED BY <3>1 DEF Range
  <2> QED BY <2>1
<1>3. CASE numbers = [k \in 1..(n + 1) |-> IF k > n THEN 1 ELSE k]
  <2>1. 1 \in DOMAIN numbers /\ n + 1 \in DOMAIN numbers /\ numbers[1] = numbers[n + 1]
    BY <1>3
  <2> QED BY <2>1 DEF IsInjective
<1> QED BY <1>1, <1>2, <1>3 DEF Misnumbered

\* The texts of a reply that parses are of the cues of the batch.
LEMMA TextsFit ==
  ASSUME NEW cues \in Seq(Nat), NEW reply \in Replies(cues), Parses(reply, Len(cues))
  PROVE  TextsOf(Texts(reply, cues), cues)
<1>1. DOMAIN cues = 1..Len(cues) /\ Len(cues) \in Nat
  OBVIOUS
<1>2. ASSUME NEW k \in 1..Len(cues)
      PROVE  reply.say[k].text \in TextKinds \ {"raw"} /\ reply.say[k].wrapped \in BOOLEAN
  <2> DEFINE n    == Len(cues)
             says == {f \in [1..n -> UNION {Says(i) : i \in Range(cues)}] :
                        \A x \in 1..n : f[x] \in Says(cues[x])}
  <2>1. \/ reply \in [numbers: {[x \in 1..n |-> x]}, say: says]
        \/ reply \in [numbers: Misnumbered(n), say: {CHOOSE f \in says : TRUE}]
    BY DEF Replies
  <2>2. reply \notin [numbers: Misnumbered(n), say: {CHOOSE f \in says : TRUE}]
    <3>1. n \in Nat \ {0}
      BY <1>1
    <3>2. IsInjective(reply.numbers) /\ Range(reply.numbers) = 1..n
      BY DEF Parses
    <3>3. reply.numbers \notin Misnumbered(n)
      <4> HIDE DEF n
      <4> QED BY <3>1, <3>2, MisnumberedFails
    <3> HIDE DEF n, says
    <3> QED BY <3>3
  <2>3. reply.say \in says
    <3> HIDE DEF n, says
    <3> QED BY <2>1, <2>2
  <2>4. reply.say[k] \in Says(cues[k])
    BY <2>3
  <2>5. reply.say[k].text \in CanSay /\ reply.say[k].wrapped \in BOOLEAN
    BY <2>4 DEF Says
  <2> QED BY <2>5, PipelineAssumption
<1>3. PICK texts : texts = Texts(reply, cues)
  OBVIOUS
<1>4. texts = [k \in 1..Len(cues) |-> [of |-> cues[k], text |-> reply.say[k].text,
                                       wrapped |-> reply.say[k].wrapped]]
  BY <1>1, <1>3 DEF Texts
<1>5. ASSUME NEW k \in 1..Len(cues)
      PROVE  texts[k] \in Text /\ texts[k].of = cues[k] /\ texts[k].text # "raw"
  <2>1. cues[k] \in Nat
    OBVIOUS
  <2>2. texts[k] = [of |-> cues[k], text |-> reply.say[k].text,
                    wrapped |-> reply.say[k].wrapped]
    BY <1>4
  <2> QED BY <1>2, <2>1, <2>2 DEF Text
<1>6. texts \in Seq(Text) /\ Len(texts) = Len(cues)
  BY <1>1, <1>4, <1>5
<1> QED BY <1>3, <1>5, <1>6 DEF TextsOf

\* What the tasks of a stage are asked: its batches, or what is to be repaired.
AskedOf(batches) ==
  DOMAIN tasks = DOMAIN batches /\ \A t \in DOMAIN tasks : tasks[t].cues = batches[t]

Asked ==
  /\ stage = "attribute" => AskedOf(Batches(source, settings.attrCues))
  /\ stage = "translate" => AskedOf(Batches(source, settings.maxCues))
  /\ stage = "review" => AskedOf(Batches(source, settings.reviewCues))
  /\ stage = "repair" => DOMAIN tasks = {1} /\ tasks[1].cues \in Seq(Translatable(source))

\* What the answer of a task is that is done.
AnswerFits(task) ==
  /\ stage \in {"translate", "repair"} => TextsOf(task.answer, task.cues)
  /\ stage = "review" => task.answer = Kept \/ TextsOf(task.answer, task.cues)
  /\ stage = "attribute" => AttributionsOf(task.answer, task.cues)

TasksFit ==
  /\ tasks \in Seq(Task)
  /\ Asked
  /\ \A t \in DOMAIN tasks : tasks[t].pc = "ok" => AnswerFits(tasks[t])
  /\ HintsOwn

\* One task changes, but not what it is asked.
LEMMA TaskStillFits ==
  ASSUME TasksFit, UNCHANGED <<source, settings, stage>>, NEW t \in DOMAIN tasks,
         NEW new \in Task, new.cues = tasks[t].cues, new.hints = tasks[t].hints,
         new.pc = "ok" => AnswerFits(new), tasks' = [tasks EXCEPT ![t] = new]
  PROVE  TasksFit'
<1>1. DOMAIN tasks' = DOMAIN tasks
      /\ \A x \in DOMAIN tasks : tasks'[x] = IF x = t THEN new ELSE tasks[x]
  OBVIOUS
<1>2. tasks' \in Seq(Task)
  BY DEF TasksFit
<1>3. \A x \in DOMAIN tasks : /\ tasks'[x].cues = tasks[x].cues
                              /\ tasks'[x].hints = tasks[x].hints
  BY <1>1
<1>4. Asked'
  <2>1. ASSUME NEW batches, AskedOf(batches)
        PROVE  AskedOf(batches)'
    BY <1>1, <1>3, <2>1 DEF AskedOf
  <2>2. CASE stage = "repair"
    BY <1>1, <1>3, <2>2 DEF TasksFit, Asked
  <2>3. PICK a : a = Batches(source, settings.attrCues)
    OBVIOUS
  <2>4. PICK m : m = Batches(source, settings.maxCues)
    OBVIOUS
  <2>5. PICK r : r = Batches(source, settings.reviewCues)
    OBVIOUS
  <2>6. /\ a = Batches(source', settings'.attrCues) /\ m = Batches(source', settings'.maxCues)
        /\ r = Batches(source', settings'.reviewCues)
    BY <2>3, <2>4, <2>5
  <2>7. /\ stage = "attribute" => AskedOf(a)'
        /\ stage = "translate" => AskedOf(m)'
        /\ stage = "review" => AskedOf(r)'
    BY <2>1, <2>3, <2>4, <2>5 DEF TasksFit, Asked
  <2> QED BY <2>2, <2>6, <2>7 DEF Asked, AskedOf
<1>5. ASSUME NEW x \in DOMAIN tasks', tasks'[x].pc = "ok"
      PROVE  AnswerFits(tasks[x])'
  <2>1. PICK task : task = tasks'[x]
    OBVIOUS
  <2>2. task = IF x = t THEN new ELSE tasks[x]
    BY <1>1, <2>1
  <2>3. AnswerFits(task)
    <3>1. x \in DOMAIN tasks /\ task.pc = "ok"
      BY <1>1, <1>5, <2>1
    <3>2. CASE x = t
      <4>1. task = new
        BY <2>2, <3>2
      <4> QED BY <3>1, <4>1
    <3>3. CASE x # t
      <4>1. task = tasks[x]
        BY <2>2, <3>3
      <4> QED BY <3>1, <4>1 DEF TasksFit
    <3> QED BY <3>2, <3>3
  <2>4. AnswerFits(task)'
    BY <2>3 DEF AnswerFits, TextsOf, AttributionsOf, Kept
  <2> QED BY <2>1, <2>4
<1>6. HintsOwn'
  BY <1>1, <1>3 DEF TasksFit, HintsOwn
<1> QED BY <1>2, <1>4, <1>5, <1>6 DEF TasksFit

\* New tasks: asked for some cues, with hints that are their own in Pass 3.
LEMMA NewTasksFit ==
  ASSUME UNCHANGED <<source, settings>>, NEW next, NEW cues \in Seq(Seq(Nat)),
         NEW hints \in [DOMAIN cues -> Seq(Nat)], Calls(next, cues, hints),
         \/ next = "attribute" /\ cues = Batches(source, settings.attrCues)
         \/ next = "translate" /\ cues = Batches(source, settings.maxCues)
         \/ next = "review" /\ cues = Batches(source, settings.reviewCues),
         \A t \in DOMAIN cues : \A k \in DOMAIN hints[t] : hints[t][k] \in {0, cues[t][k]}
  PROVE  TasksFit'
<1>1. stage' = next /\ tasks' = [b \in DOMAIN cues |-> Asks(cues[b], hints[b])]
  BY DEF Calls, Goto
<1>2. DOMAIN tasks' = DOMAIN cues /\ DOMAIN cues = 1..Len(cues) /\ Len(cues) \in Nat
  BY <1>1
<1>3. ASSUME NEW b \in DOMAIN cues
      PROVE  /\ tasks'[b] \in Task /\ tasks'[b].cues = cues[b] /\ tasks'[b].hints = hints[b]
             /\ tasks'[b].pc = "wait"
  <2>1. cues[b] \in Seq(Nat) /\ hints[b] \in Seq(Nat)
    OBVIOUS
  <2>2. tasks'[b] = Asks(cues[b], hints[b])
    BY <1>1
  <2>3. <<>> \in Seq(Text)
    OBVIOUS
  <2> QED BY <2>1, <2>2, <2>3 DEF Asks, Task
<1>4. tasks' \in Seq(Task)
  <2>1. PICK new : new = tasks'
    OBVIOUS
  <2>2. new = [b \in DOMAIN cues |-> new[b]]
    BY <1>1, <2>1
  <2>3. \A b \in DOMAIN cues : new[b] \in Task
    BY <1>3, <2>1
  <2>4. new \in [DOMAIN cues -> Task]
    BY <2>2, <2>3, Zenon
  <2>5. PICK n \in Nat : DOMAIN cues = 1..n
    BY <1>2
  <2>6. new \in [1..n -> Task]
    BY <2>4, <2>5
  <2> QED BY <2>1, <2>6
<1>5. Asked'
  <2>1. AskedOf(cues)'
    BY <1>2, <1>3 DEF AskedOf
  <2>2. /\ next = "attribute" => cues = Batches(source', settings'.attrCues)
        /\ next = "translate" => cues = Batches(source', settings'.maxCues)
        /\ next = "review" => cues = Batches(source', settings'.reviewCues)
    OBVIOUS
  <2> QED BY <1>1, <2>1, <2>2 DEF Asked, AskedOf
<1>6. HintsOwn'
  BY <1>1, <1>2, <1>3 DEF HintsOwn
<1>7. \A t \in DOMAIN tasks' : tasks'[t].pc # "ok"
  BY <1>2, <1>3
<1> QED BY <1>4, <1>5, <1>6, <1>7 DEF TasksFit

\* A stage without tasks.
LEMMA NoTasksFit ==
  ASSUME tasks' \in Seq(Task), DOMAIN tasks' = {}, stage' \notin CallStages
  PROVE  TasksFit'
<1>1. Asked'
  BY DEF Asked, CallStages
<1>2. HintsOwn'
  BY DEF HintsOwn, CallStages
<1> QED BY <1>1, <1>2 DEF TasksFit

\* A call of any stage acquires a slot.
LEMMA AcquireFits ==
  ASSUME TasksFit, NEW t \in DOMAIN tasks, Acquire(t)
  PROVE  TasksFit'
<1>1. PICK new : new = [tasks[t] EXCEPT !.pc = "call", !.tier = 1]
  OBVIOUS
<1>2. PICK old \in Task : old = tasks[t]
  BY DEF TasksFit
<1>3. new = [old EXCEPT !.pc = "call", !.tier = 1]
  BY <1>1, <1>2
<1>4. new \in Task /\ new.cues = old.cues /\ new.hints = old.hints /\ new.pc = "call"
  <2>1. 1 \in 1..3 /\ "call" \in {"wait", "call", "ok", "bad", "raised"}
    OBVIOUS
  <2> QED BY <1>3, <2>1 DEF Task
<1>5. tasks' = [tasks EXCEPT ![t] = new]
  BY <1>1 DEF Acquire
<1>6. UNCHANGED <<source, settings, stage>>
  BY DEF Acquire
<1> QED BY <1>2, <1>4, <1>5, <1>6, TaskStillFits

\* A call ends with an answer that fits, or with none.
LEMMA EndsFits ==
  ASSUME TasksFit, UNCHANGED <<source, settings, stage>>, NEW t \in DOMAIN tasks,
         NEW pc \in {"ok", "bad", "raised"},
         NEW answer \in Seq(Text) \union Seq(Attribution), Ends(t, pc, answer),
         pc = "ok" => /\ stage \in {"translate", "repair"} => TextsOf(answer, tasks[t].cues)
                      /\ stage = "review" => answer = Kept \/ TextsOf(answer, tasks[t].cues)
                      /\ stage = "attribute" => AttributionsOf(answer, tasks[t].cues)
  PROVE  TasksFit'
<1>1. PICK new : new = [tasks[t] EXCEPT !.pc = pc, !.answer = answer]
  OBVIOUS
<1>2. tasks[t] \in Task
  BY DEF TasksFit
<1>3. /\ new \in Task /\ new.cues = tasks[t].cues /\ new.hints = tasks[t].hints
      /\ new.pc = pc /\ new.answer = answer
  BY <1>1, <1>2 DEF Task
<1>4. tasks' = [tasks EXCEPT ![t] = new]
  BY <1>1 DEF Ends
<1>5. new.pc = "ok" => AnswerFits(new)
  BY <1>3 DEF AnswerFits
<1> QED BY <1>3, <1>4, <1>5, TaskStillFits

\* What a call answers fits what it was asked; one that is sent back says nothing.
LEMMA AnsweredFits ==
  ASSUME TasksFit, NEW t \in DOMAIN tasks, Answered(t)
  PROVE  TasksFit'
<1>1. UNCHANGED <<source, settings, stage>>
  BY DEF Answered, AnalyzeAnswered, AttributeAnswered, TranslateAnswered, ReviewAnswered
<1>2. PICK old \in Task : old = tasks[t]
  BY DEF TasksFit
<1>3. PICK cues \in Seq(Nat) : cues = tasks[t].cues
  BY <1>2 DEF Task
<1>4. <<>> \in Seq(Text) \union Seq(Attribution) /\ Len(cues) \in Nat
  OBVIOUS
<1>5. CASE AnalyzeAnswered(t)
  <2>1. PICK pc \in {"ok", "bad"} : Ends(t, pc, <<>>)
    BY <1>5 DEF AnalyzeAnswered
  <2>2. stage = "analyze"
    BY <1>5 DEF AnalyzeAnswered
  <2> QED BY <1>1, <1>4, <2>1, <2>2, EndsFits
<1>6. CASE AttributeAnswered(t)
  <2>1. stage = "attribute"
    BY <1>6 DEF AttributeAnswered
  <2>2. PICK answer \in Answers(Len(cues)) : Ends(t, "ok", Attributed(cues, answer))
    BY <1>3, <1>6 DEF AttributeAnswered
  <2>3. PICK all : all = Attributed(cues, answer)
    OBVIOUS
  <2>4. AttributionsOf(all, cues)
    BY <1>4, <2>3, AnswersTyped, AttributedFits
  <2>5. all \in Seq(Text) \union Seq(Attribution)
    BY <2>4 DEF AttributionsOf
  <2> QED BY <1>1, <1>3, <2>1, <2>2, <2>3, <2>4, <2>5, EndsFits
<1>7. CASE ReviewAnswered(t)
  <2>1. stage = "review"
    BY <1>7 DEF ReviewAnswered
  <2>2. PICK reply \in Replies(cues) :
          Ends(t, "ok", IF Fits(reply, cues) THEN Texts(reply, cues) ELSE Kept)
    BY <1>3, <1>7 DEF ReviewAnswered
  <2>3. PICK texts : texts = IF Fits(reply, cues) THEN Texts(reply, cues) ELSE Kept
    OBVIOUS
  <2>4. texts = Kept \/ TextsOf(texts, cues)
    BY <2>3, TextsFit DEF Fits
  <2>5. texts \in Seq(Text) \union Seq(Attribution)
    BY <1>4, <2>4 DEF TextsOf, Kept
  <2> QED BY <1>1, <1>3, <2>1, <2>2, <2>3, <2>4, <2>5, EndsFits
<1>8. CASE TranslateAnswered(t)
  <2>1. stage \in {"translate", "repair"}
    BY <1>8 DEF TranslateAnswered
  <2>2. PICK reply \in Replies(cues) :
          IF WellFormed(reply, cues, source) THEN Ends(t, "ok", Texts(reply, cues))
          ELSE tasks' = [tasks EXCEPT ![t].tries = @ + 1,
                           ![t].pc = IF tasks[t].tries + 1 = settings.attempts
                                     THEN "bad" ELSE "wait"]
    BY <1>3, <1>8 DEF TranslateAnswered
  <2>3. CASE WellFormed(reply, cues, source)
    <3>1. PICK texts : texts = Texts(reply, cues)
      OBVIOUS
    <3>2. TextsOf(texts, cues)
      BY <2>3, <3>1, TextsFit DEF WellFormed
    <3>3. texts \in Seq(Text) \union Seq(Attribution)
      BY <3>2 DEF TextsOf
    <3>4. Ends(t, "ok", texts)
      BY <2>2, <2>3, <3>1
    <3> QED BY <1>1, <1>3, <2>1, <3>2, <3>3, <3>4, EndsFits
  <2>4. CASE ~ WellFormed(reply, cues, source)
    <3>1. PICK pc \in {"bad", "wait"} :
            pc = IF tasks[t].tries + 1 = settings.attempts THEN "bad" ELSE "wait"
      OBVIOUS
    <3>2. tasks' = [tasks EXCEPT ![t] = [tasks[t] EXCEPT !.tries = @ + 1, !.pc = pc]]
      BY <2>2, <2>4, <3>1
    <3>3. PICK new : new = [old EXCEPT !.tries = @ + 1, !.pc = pc]
      OBVIOUS
    <3>4. old.tries + 1 \in Nat
      BY DEF Task
    <3>5. new \in Task /\ new.cues = old.cues /\ new.hints = old.hints /\ new.pc # "ok"
      BY <3>3, <3>4 DEF Task
    <3>6. tasks' = [tasks EXCEPT ![t] = new]
      BY <1>2, <3>2, <3>3
    <3> QED BY <1>1, <1>2, <3>5, <3>6, TaskStillFits
  <2> QED BY <2>3, <2>4
<1> QED BY <1>5, <1>6, <1>7, <1>8 DEF Answered

\* Nor does a call that fails.
LEMMA CallFailsFits ==
  ASSUME TasksFit, settings \in Settings, NEW t \in DOMAIN tasks, CallFails(t)
  PROVE  TasksFit'
<1>1. UNCHANGED <<source, settings, stage>> /\ tasks[t].pc = "call"
  BY DEF CallFails
<1>2. PICK old \in Task : old = tasks[t]
  BY DEF TasksFit
<1>3. <<>> \in Seq(Text) \union Seq(Attribution)
  OBVIOUS
<1>4. CASE Ends(t, "raised", <<>>)
  BY <1>1, <1>3, <1>4, EndsFits
<1>5. CASE stage = "review" /\ Ends(t, "ok", Kept)
  <2>1. Kept \in Seq(Text) \union Seq(Attribution)
    BY <1>3 DEF Kept
  <2> QED BY <1>1, <1>5, <2>1, EndsFits
<1>6. CASE /\ tasks[t].tier < Len(CallTiers)
           /\ tasks' = [tasks EXCEPT ![t].tier = @ + 1]
  <2>1. Len(CallTiers) \in 1..3
    <3>1. PICK mode \in Modes : mode = settings.mode
      BY DEF Settings
    <3>2. CallTiers = Tiers(mode, TRUE) \/ CallTiers = Tiers(mode, FALSE)
      <4>1. CASE stage \in {"analyze", "attribute"}
        <5>1. (stage \in {"analyze", "attribute"}) = TRUE
          BY <4>1
        <5> QED BY <3>1, <5>1 DEF CallTiers
      <4>2. CASE stage \notin {"analyze", "attribute"}
        <5>1. (stage \in {"analyze", "attribute"}) = FALSE
          BY <4>2
        <5> QED BY <3>1, <5>1 DEF CallTiers
      <4> QED BY <4>1, <4>2
    <3>3. ASSUME NEW all \in BOOLEAN
          PROVE  Tiers(mode, all) \in {<<1, 2, 3>>, <<1, 3>>, <<1>>, <<2>>, <<3>>}
      <4>1. mode = "auto" \/ mode = "json_schema" \/ mode = "json_object" \/ mode = "text"
        BY DEF Modes
      <4> QED BY <4>1 DEF Tiers
    <3>4. CallTiers \in {<<1, 2, 3>>, <<1, 3>>, <<1>>, <<2>>, <<3>>}
      BY <3>2, <3>3
    <3> QED BY <3>4
  <2>2. old.tier + 1 \in 1..3
    <3>1. PICK n \in 1..3 : n = Len(CallTiers)
      BY <2>1
    <3>2. old.tier \in 1..3 /\ old.tier < n
      BY <1>2, <1>6, <3>1 DEF Task
    <3> QED BY <3>2
  <2>3. PICK new : new = [old EXCEPT !.tier = @ + 1]
    OBVIOUS
  <2>4. new \in Task /\ new.cues = old.cues /\ new.hints = old.hints /\ new.pc # "ok"
    BY <1>1, <1>2, <2>2, <2>3 DEF Task
  <2>5. tasks' = [tasks EXCEPT ![t] = new]
    BY <1>2, <1>6, <2>3
  <2> QED BY <1>1, <1>2, <2>4, <2>5, TaskStillFits
<1> QED BY <1>4, <1>5, <1>6 DEF CallFails

\* The attributions are, one by one, of the cues that are translated.
AttributionsInv ==
  /\ attributions \in Seq(Attribution)
  /\ \A q \in DOMAIN attributions : /\ q \in 1..Len(Todo(source))
                                    /\ attributions[q].cue = Todo(source)[q]

\* The attributions of the batches of Pass 2 are so together.
LEMMA AttributedTogether ==
  ASSUME source \in Seq(Cue), NEW maxCues, NEW batches, batches = Batches(source, maxCues),
         NEW results, results = [b \in DOMAIN batches |-> results[b]],
         \A b \in DOMAIN batches : AttributionsOf(results[b], batches[b]),
         attributions' = FlattenSeq(results), UNCHANGED source
  PROVE  AttributionsInv'
<1>1. PICK said \in [DOMAIN batches -> Seq(Attribution)] : said = results
  <2>1. \A b \in DOMAIN batches : results[b] \in Seq(Attribution)
    BY DEF AttributionsOf
  <2> QED BY <2>1, Zenon
<1>2. \A b \in DOMAIN batches : Len(said[b]) = Len(batches[b])
  BY <1>1 DEF AttributionsOf
<1>3. FlattenSeq(said) \in Seq(Attribution) /\ Lands(source, batches, said)
  BY <1>2, AnswersTogether
<1>4. PICK all : all = FlattenSeq(said)
  OBVIOUS
<1>5. all \in Seq(Attribution) /\ Len(all) = Len(Todo(source))
  BY <1>3, <1>4 DEF Lands
<1>6. ASSUME NEW q \in 1..Len(Todo(source))
      PROVE  all[q].cue = Todo(source)[q]
  <2>1. PICK b \in DOMAIN batches : \E k \in 1..Len(batches[b]) :
           Todo(source)[q] = batches[b][k] /\ FlattenSeq(said)[q] = said[b][k]
    BY <1>3 DEF Lands
  <2>2. PICK k \in 1..Len(batches[b]) :
           Todo(source)[q] = batches[b][k] /\ all[q] = said[b][k]
    BY <1>4, <2>1
  <2>3. said[b][k].cue = batches[b][k]
    BY <1>1 DEF AttributionsOf
  <2> QED BY <2>2, <2>3
<1>7. attributions' = all
  BY <1>1, <1>4
<1>8. DOMAIN all = 1..Len(Todo(source))
  BY <1>5
<1> QED BY <1>5, <1>6, <1>7, <1>8 DEF AttributionsInv

\* A document that is there has its own texts, and is there from Step 8 on.
DocStages == {"review", "gate", "repair", "write", "finish"}
LinesInv ==
  /\ lines \in Seq(Line)
  /\ lines # <<>> => Own(lines)
  /\ stage \in DocStages => Own(lines)

Given == source \in Seq(Cue) /\ settings \in Settings

DocInv == Given /\ TasksFit /\ AttributionsInv /\ LinesInv

\* Batches are sequences of numbers, without hints or with zeros.
LEMMA BatchesTyped ==
  ASSUME Given, NEW maxCues, NEW batches, batches = Batches(source, maxCues)
  PROVE  /\ batches \in Seq(Seq(Nat))
         /\ NoHints(batches) \in [DOMAIN batches -> Seq(Nat)]
         /\ \A t \in DOMAIN batches : \A k \in DOMAIN NoHints(batches)[t] :
              NoHints(batches)[t][k] \in {0, batches[t][k]}
<1>1. batches \in Seq(Seq(Translatable(source)))
  BY BatchesAre DEF Given
<1>2. Translatable(source) \in SUBSET Nat
  BY TodoIs DEF Given
<1>3. batches \in Seq(Seq(Nat))
  <2>1. Seq(Translatable(source)) \subseteq Seq(Nat)
    BY <1>2
  <2> QED BY <1>1, <2>1
<1>4. PICK hints : hints = NoHints(batches)
  OBVIOUS
<1>5. ASSUME NEW t \in DOMAIN batches
      PROVE  hints[t] \in Seq(Nat) /\ \A k \in DOMAIN hints[t] : hints[t][k] = 0
  <2>1. PICK n \in Nat : DOMAIN batches[t] = 1..n
    BY <1>3
  <2>2. hints[t] = [k \in 1..n |-> 0]
    BY <1>4, <2>1 DEF NoHints
  <2> QED BY <2>1, <2>2
<1>6. hints \in [DOMAIN batches -> Seq(Nat)]
  <2>1. hints = [t \in DOMAIN batches |-> hints[t]]
    BY <1>4 DEF NoHints
  <2> QED BY <1>5, <2>1, Zenon
<1> QED BY <1>3, <1>4, <1>5, <1>6

\* The hint of an attribution is 0 or its own cue.
LEMMA HintIs ==
  ASSUME AttributionsInv, NEW q \in DOMAIN attributions
  PROVE  /\ HintOf(attributions[q]) \in Nat
         /\ HintOf(attributions[q]) \in {0, Todo(source)[q]}
<1>1. attributions[q] \in Attribution /\ attributions[q].cue = Todo(source)[q]
  BY DEF AttributionsInv
<1> QED BY <1>1 DEF HintOf, Attribution

\* The hints of Pass 3 are those of the cues' own attributions.
LEMMA HintsTyped ==
  ASSUME Given, AttributionsInv, NEW maxCues, NEW batches, batches = Batches(source, maxCues)
  PROVE  /\ HintsFor(batches) \in [DOMAIN batches -> Seq(Nat)]
         /\ \A t \in DOMAIN batches : \A k \in DOMAIN HintsFor(batches)[t] :
              HintsFor(batches)[t][k] \in {0, batches[t][k]}
<1>1. batches \in Seq(Seq(Nat))
  BY BatchesTyped
<1>2. PICK hints : hints = HintsFor(batches)
  OBVIOUS
<1>3. ASSUME NEW t \in DOMAIN batches
      PROVE  /\ hints[t] \in Seq(Nat)
             /\ \A k \in DOMAIN hints[t] : hints[t][k] \in {0, batches[t][k]}
  <2>1. PICK n \in Nat : DOMAIN batches[t] = 1..n
    BY <1>1
  <2>2. PICK p : p = Before(batches, t)
    OBVIOUS
  <2>3. hints[t] = [k \in 1..n |-> IF p + k \in DOMAIN attributions
                                   THEN HintOf(attributions[p + k]) ELSE 0]
    BY <1>2, <2>1, <2>2 DEF HintsFor
  <2>4. ASSUME NEW k \in 1..n
        PROVE  hints[t][k] \in Nat /\ hints[t][k] \in {0, batches[t][k]}
    <3>1. CASE p + k \notin DOMAIN attributions
      BY <2>3, <3>1
    <3>2. CASE p + k \in DOMAIN attributions
      <4>1. PICK q : q = p + k
        OBVIOUS
      <4>2. Todo(source)[q] = batches[t][k]
        BY <2>1, <2>2, <4>1, BatchesAre DEF Given
      <4>3. hints[t][k] = HintOf(attributions[q]) /\ q \in DOMAIN attributions
        BY <2>3, <3>2, <4>1
      <4> QED BY <4>2, <4>3, HintIs
    <3> QED BY <3>1, <3>2
  <2> QED BY <2>1, <2>3, <2>4
<1>4. hints \in [DOMAIN batches -> Seq(Nat)]
  <2>1. hints = [t \in DOMAIN batches |-> hints[t]]
    BY <1>2 DEF HintsFor
  <2> QED BY <1>3, <2>1, Zenon
<1> QED BY <1>2, <1>3, <1>4

\* The chunks of Pass 1 have no cues of their own.
LEMMA ChunksFit ==
  ASSUME NEW n \in Nat, Calls("analyze", [c \in 1..n |-> <<>>], [c \in 1..n |-> <<>>])
  PROVE  TasksFit'
<1>1. stage' = "analyze" /\ tasks' = [c \in 1..n |-> Asks(<<>>, <<>>)]
  BY DEF Calls, Goto
<1>2. Asks(<<>>, <<>>) \in Task /\ Asks(<<>>, <<>>).pc # "ok"
  <2>1. <<>> \in Seq(Text) /\ <<>> \in Seq(Nat)
    OBVIOUS
  <2> QED BY <2>1 DEF Asks, Task
<1>3. tasks' \in Seq(Task)
  BY <1>1, <1>2
<1>4. Asked' /\ HintsOwn'
  BY <1>1 DEF Asked, HintsOwn
<1>5. \A t \in DOMAIN tasks' : tasks'[t].pc # "ok"
  BY <1>1, <1>2
<1> QED BY <1>3, <1>4, <1>5 DEF TasksFit

\* A repair is asked for translatable cues.
LEMMA RepairFits ==
  ASSUME Given, AttributionsInv, NEW failing,
         NEW batch, batch = RepairBatch(source, failing),
         Calls("repair", <<batch>>, <<RepairHints(batch)>>), UNCHANGED source
  PROVE  TasksFit'
<1>1. Translatable(source) \in SUBSET Nat /\ IsFiniteSet(Translatable(source))
  BY TodoIs DEF Given
<1>2. batch \in Seq(Translatable(source)) /\ batch \in Seq(Nat)
  <2>1. PICK S : S = failing \intersect Translatable(source)
    OBVIOUS
  <2>2. S \in SUBSET Nat /\ IsFiniteSet(S) /\ S \subseteq Translatable(source)
    BY <1>1, <2>1, FS_Subset
  <2>3. batch \in Seq(S)
    BY <2>1, <2>2, AscendingIs DEF RepairBatch
  <2>4. Seq(S) \subseteq Seq(Nat)
    <3>1. ASSUME NEW s \in Seq(S)
          PROVE  s \in Seq(Nat)
      <4>1. s \in [1..Len(s) -> S] /\ Len(s) \in Nat
        OBVIOUS
      <4>2. s \in [1..Len(s) -> Nat]
        BY <2>2, <4>1
      <4> QED BY <4>1, <4>2
    <3> QED BY <3>1
  <2>5. Seq(S) \subseteq Seq(Translatable(source))
    <3>1. PICK translatable : translatable = Translatable(source)
      OBVIOUS
    <3>2. S \subseteq translatable
      BY <2>2, <3>1
    <3>3. Seq(S) \subseteq Seq(translatable)
      BY <3>2
    <3> QED BY <3>1, <3>3
  <2> QED BY <2>3, <2>4, <2>5
<1>3. PICK hints : hints = RepairHints(batch)
  OBVIOUS
<1>4. hints \in Seq(Nat)
  <2>1. PICK n \in Nat : DOMAIN batch = 1..n
    BY <1>2
  <2>2. hints = [k \in 1..n |-> IF batch[k] \in DOMAIN attributions
                                THEN HintOf(attributions[batch[k]]) ELSE 0]
    BY <1>3, <2>1 DEF RepairHints
  <2>3. \A k \in 1..n : hints[k] \in Nat
    BY <2>2, HintIs
  <2>4. hints = [k \in 1..n |-> hints[k]]
    BY <2>2
  <2> QED BY <2>3, <2>4
<1>5. /\ stage' = "repair" /\ DOMAIN tasks' = {1} /\ tasks' = <<tasks'[1]>>
      /\ tasks'[1] = Asks(batch, hints)
  BY <1>3 DEF Calls, Goto
<1>6. Asks(batch, hints) \in Task /\ Asks(batch, hints).pc # "ok"
      /\ Asks(batch, hints).cues = batch
  <2>1. <<>> \in Seq(Text)
    OBVIOUS
  <2> QED BY <1>2, <1>4, <2>1 DEF Asks, Task
<1>7. tasks' \in Seq(Task)
  <2>1. PICK new \in Task : new = tasks'[1]
    BY <1>5, <1>6
  <2>2. tasks' = <<new>>
    BY <1>5, <2>1
  <2> QED BY <2>2
<1>8. Asked'
  <2>1. Translatable(source') = Translatable(source)
    BY DEF Translatable
  <2> QED BY <1>2, <1>5, <1>6, <2>1 DEF Asked
<1>9. HintsOwn' /\ \A t \in DOMAIN tasks' : tasks'[t].pc # "ok"
  BY <1>5, <1>6 DEF HintsOwn
<1> QED BY <1>7, <1>8, <1>9 DEF TasksFit

\* Chunks(n) is a number of chunks.
LEMMA ChunksTyped ==
  ASSUME Given, NEW n, n = IF settings.mode = "text" THEN 0 ELSE Chunks(Len(source))
  PROVE  n \in Nat
<1>1. PICK c \in Nat \ {0} : c = settings.chunk
  BY DEF Given, Settings
<1>2. PICK l \in Nat : l = Len(source)
  BY DEF Given
<1>3. n = 0 \/ n = (l + c - 1) \div c
  BY <1>1, <1>2 DEF Chunks
<1>4. l + c - 1 \in Nat
  OBVIOUS
<1>5. \A x \in Nat : x \div c \in Nat
  OBVIOUS
<1> QED BY <1>3, <1>4, <1>5

\* Every stage asks its own cues, and forgets what was asked before.
LEMMA StepKeepsTasks ==
  ASSUME DocInv, TasksInv, Step
  PROVE  TasksFit'
<1> USE DEF passes, result, disk, history, pronouns
<1>0. /\ Given /\ TasksFit /\ AttributionsInv /\ tasks \in Seq(Task) /\ <<>> \in Seq(Task)
      /\ DOMAIN <<>> = {}
  BY DEF DocInv, TasksFit
<1>1. ASSUME tasks' = <<>>, stage' \notin CallStages
      PROVE  TasksFit'
  BY <1>0, <1>1, NoTasksFit
<1>2. ASSUME UNCHANGED tasks, stage \notin CallStages, stage' \notin CallStages
      PROVE  TasksFit'
  <2>1. DOMAIN tasks = {}
    BY <1>2 DEF TasksInv
  <2> QED BY <1>0, <1>2, <2>1, NoTasksFit
<1>3. ASSUME NEW batches, UNCHANGED <<source, settings>>, NEW next,
             Calls(next, batches, NoHints(batches)),
             \/ next = "attribute" /\ batches = Batches(source, settings.attrCues)
             \/ next = "translate" /\ batches = Batches(source, settings.maxCues)
             \/ next = "review" /\ batches = Batches(source, settings.reviewCues)
      PROVE  TasksFit'
  <2>1. /\ batches \in Seq(Seq(Nat))
        /\ NoHints(batches) \in [DOMAIN batches -> Seq(Nat)]
        /\ \A t \in DOMAIN batches : \A k \in DOMAIN NoHints(batches)[t] :
             NoHints(batches)[t][k] \in {0, batches[t][k]}
    BY <1>0, <1>3, BatchesTyped
  <2> QED BY <1>3, <2>1, NewTasksFit
<1>4. CASE Claim
  <2>1. UNCHANGED tasks /\ stage = "claim" /\ stage' = "open"
    BY <1>4 DEF Claim, Goto
  <2> QED BY <1>2, <2>1 DEF CallStages
<1>5. CASE Open
  <2>1. PICK n : n = IF settings.mode = "text" THEN 0 ELSE Chunks(Len(source))
    OBVIOUS
  <2>2. Calls("analyze", [c \in 1..n |-> <<>>], [c \in 1..n |-> <<>>])
    BY <1>5, <2>1 DEF Open
  <2> QED BY <1>0, <2>1, <2>2, ChunksTyped, ChunksFit
<1>6. CASE OpenMechanical
  <2>1. Calls("translate", MyBatches, NoHints(MyBatches)) /\ UNCHANGED <<source, settings>>
    BY <1>6 DEF OpenMechanical
  <2> QED BY <1>3, <2>1 DEF MyBatches
<1>7. CASE Analyzed
  <2>1. tasks' = <<>> /\ stage' \in {"end", "merge"}
    BY <1>7 DEF Analyzed, Quarantines, Stops, Goto
  <2> QED BY <1>1, <2>1 DEF CallStages
<1>8. CASE Merge
  <2>1. UNCHANGED tasks /\ stage = "merge" /\ stage' = "reload"
    BY <1>8 DEF Merge, Goto
  <2> QED BY <1>2, <2>1 DEF CallStages
<1>9. CASE Reload
  <2>1. PICK batches : batches = Batches(source, settings.attrCues)
    OBVIOUS
  <2>2. stage = "reload" /\ UNCHANGED <<source, settings>>
        /\ \/ UNCHANGED tasks /\ stage' = "reconcile"
           \/ Calls("attribute", batches, NoHints(batches))
    BY <1>9, <2>1 DEF Reload, Goto
  <2> QED BY <1>2, <1>3, <2>1, <2>2 DEF CallStages
<1>10. CASE AttributionsDone
  <2>1. tasks' = <<>> /\ stage' = "reconcile"
    BY <1>10 DEF AttributionsDone, Goto
  <2> QED BY <1>1, <2>1 DEF CallStages
<1>11. CASE Reconcile
  <2>1. UNCHANGED tasks /\ stage = "reconcile" /\ stage' = "hints"
    BY <1>11 DEF Reconcile, Goto
  <2> QED BY <1>2, <2>1 DEF CallStages
<1>12. CASE DispatchTranslation
  <2>1. PICK batches : batches = Batches(source, settings.maxCues)
    OBVIOUS
  <2>2. Calls("translate", batches, HintsFor(batches)) /\ UNCHANGED <<source, settings>>
    BY <1>12, <2>1 DEF DispatchTranslation, MyBatches
  <2>3. batches \in Seq(Seq(Nat))
    BY <1>0, <2>1, BatchesTyped
  <2>4. /\ HintsFor(batches) \in [DOMAIN batches -> Seq(Nat)]
        /\ \A t \in DOMAIN batches : \A k \in DOMAIN HintsFor(batches)[t] :
             HintsFor(batches)[t][k] \in {0, batches[t][k]}
    BY <1>0, <2>1, HintsTyped
  <2>5. \E next : next = "translate" /\ Calls(next, batches, HintsFor(batches))
    BY <2>2
  <2> QED BY <2>1, <2>2, <2>3, <2>4, <2>5, NewTasksFit
<1>13. CASE TranslationsDone
  <2>1. PICK batches : batches = Batches(source, settings.reviewCues)
    OBVIOUS
  <2>2. UNCHANGED <<source, settings>>
        /\ \/ tasks' = <<>> /\ stage' = "gate"
           \/ Calls("review", batches, NoHints(batches))
    BY <1>13, <2>1 DEF TranslationsDone, Goto
  <2> QED BY <1>1, <1>3, <2>1, <2>2 DEF CallStages
<1>14. CASE ReviewDone
  <2>1. tasks' = <<>> /\ stage' = "gate"
    BY <1>14 DEF ReviewDone, Goto
  <2> QED BY <1>1, <2>1 DEF CallStages
<1>15. CASE GroupFails
  <2>1. tasks' = <<>> /\ stage' = "end"
    BY <1>15 DEF GroupFails, Quarantines, Stops
  <2> QED BY <1>1, <2>1 DEF CallStages
<1>16. CASE GatePasses
  <2>1. UNCHANGED tasks /\ stage = "gate" /\ stage' = "write"
    BY <1>16 DEF GatePasses, Goto
  <2> QED BY <1>2, <2>1 DEF CallStages
<1>17. CASE GateRepairs
  <2>1. PICK failing : failing = Fails(lines, Verdict)
    OBVIOUS
  <2>2. PICK batch : batch = RepairBatch(source, failing)
    OBVIOUS
  <2>3. Calls("repair", <<batch>>, <<RepairHints(batch)>>) /\ UNCHANGED source
    BY <1>17, <2>1, <2>2 DEF GateRepairs, ToRepair
  <2> QED BY <1>0, <2>2, <2>3, RepairFits
<1>18. CASE GateQuarantines
  <2>1. tasks' = <<>> /\ stage' = "end"
    BY <1>18 DEF GateQuarantines, Quarantines, Stops
  <2> QED BY <1>1, <2>1 DEF CallStages
<1>19. CASE RepairDone
  <2>1. tasks' = <<>> /\ stage' = "gate"
    BY <1>19 DEF RepairDone, Goto
  <2> QED BY <1>1, <2>1 DEF CallStages
<1>20. CASE RepairMissed
  <2>1. tasks' = <<>> /\ stage' = "end"
    BY <1>20 DEF RepairMissed, Quarantines, Stops
  <2> QED BY <1>1, <2>1 DEF CallStages
<1>21. CASE Write
  <2>1. UNCHANGED tasks /\ stage = "write" /\ stage' = "finish"
    BY <1>21 DEF Write, Goto
  <2> QED BY <1>2, <2>1 DEF CallStages
<1>22. CASE Finish
  <2>1. tasks' = <<>> /\ stage' = "end"
    BY <1>22 DEF Finish, Stops
  <2> QED BY <1>1, <2>1 DEF CallStages
<1> QED BY <1>4, <1>5, <1>6, <1>7, <1>8, <1>9, <1>10, <1>11, <1>12, <1>13, <1>14, <1>15,
           <1>16, <1>17, <1>18, <1>19, <1>20, <1>21, <1>22 DEF Step

\* So does every step.
LEMMA NextKeepsTasks ==
  ASSUME DocInv, TasksInv, [Next]_vars
  PROVE  TasksFit'
<1> USE DEF passes, result, disk, history, pronouns
<1>0. TasksFit /\ settings \in Settings /\ <<>> \in Seq(Task) /\ DOMAIN <<>> = {}
  BY DEF DocInv, Given
<1>1. CASE Call
  BY <1>0, <1>1, AcquireFits, AnsweredFits DEF Call
<1>2. CASE \E t \in DOMAIN tasks : CallFails(t)
  BY <1>0, <1>2, CallFailsFits
<1>3. CASE Unreadable \/ MergeFails \/ ReconcileFails \/ Breaks
  <2>1. tasks' = <<>> /\ stage' = "end"
    BY <1>3 DEF Unreadable, MergeFails, ReconcileFails, Breaks, Quarantines, Stops
  <2> QED BY <1>0, <2>1, NoTasksFit DEF CallStages
<1>4. CASE (\E p \in Pairs : UserEdits(p)) \/ UNCHANGED vars
  <2>1. UNCHANGED <<source, settings, stage, tasks>>
    BY <1>4 DEF UserEdits, vars
  <2>2. CASE DOMAIN tasks = {}
    <3>1. HintsOwn' /\ tasks' \in Seq(Task)
      BY <1>0, <2>1 DEF TasksFit, HintsOwn
    <3>2. Asked'
      BY <1>0, <2>1 DEF TasksFit, Asked, AskedOf, Translatable
    <3> QED BY <2>1, <2>2, <3>1, <3>2 DEF TasksFit
  <2>3. CASE DOMAIN tasks # {}
    <3>1. PICK t : t \in DOMAIN tasks
      BY <2>3
    <3>2. PICK old \in Task : old = tasks[t]
      BY <1>0, <3>1 DEF TasksFit
    <3>3. tasks' = [tasks EXCEPT ![t] = old]
      BY <1>0, <2>1, <3>1, <3>2 DEF TasksFit
    <3>4. old.pc = "ok" => AnswerFits(old)
      BY <1>0, <3>1, <3>2 DEF TasksFit
    <3> QED BY <1>0, <2>1, <3>1, <3>2, <3>3, <3>4, TaskStillFits
  <2> QED BY <2>2, <2>3
<1>5. CASE MergeUnloaded
  <2>1. UNCHANGED tasks /\ stage = "merge" /\ stage' = "reload"
    BY <1>5 DEF MergeUnloaded, Goto
  <2>2. DOMAIN tasks = {}
    BY <2>1 DEF TasksInv, CallStages
  <2> QED BY <1>0, <2>1, <2>2, NoTasksFit DEF TasksFit, CallStages
<1> QED BY <1>1, <1>2, <1>3, <1>4, <1>5, StepKeepsTasks DEF Next, Fault

\* Only Pass 2 makes attributions, in the order of the cues that are translated.
LEMMA NextKeepsAttributions ==
  ASSUME DocInv, [Next]_vars
  PROVE  AttributionsInv'
<1> USE DEF passes, result, disk, history
<1>0. Given /\ TasksFit /\ AttributionsInv
  BY DEF DocInv
<1>1. CASE UNCHANGED <<source, attributions>>
  <2>1. Todo(source') = Todo(source)
    BY <1>1
  <2> QED BY <1>0, <1>1, <2>1 DEF AttributionsInv
<1>2. CASE AttributionsDone
  <2>1. PICK batches : batches = Batches(source, settings.attrCues)
    OBVIOUS
  <2>2. stage = "attribute" /\ AllOk /\ attributions' = FlattenSeq(Results) /\ UNCHANGED source
    BY <1>2 DEF AttributionsDone
  <2>3. AskedOf(batches)
    BY <1>0, <2>1, <2>2 DEF TasksFit, Asked
  <2>4. PICK results : results = Results
    OBVIOUS
  <2>5. results = [b \in DOMAIN batches |-> tasks[b].answer]
    BY <2>3, <2>4 DEF Results, AskedOf
  <2>6. ASSUME NEW b \in DOMAIN batches
        PROVE  AttributionsOf(results[b], batches[b])
    <3>1. b \in DOMAIN tasks /\ tasks[b].cues = batches[b] /\ results[b] = tasks[b].answer
      BY <2>3, <2>5 DEF AskedOf
    <3>2. tasks[b].pc = "ok"
      BY <2>2, <3>1 DEF AllOk
    <3>3. AnswerFits(tasks[b])
      BY <1>0, <3>1, <3>2 DEF TasksFit
    <3> QED BY <2>2, <3>1, <3>3 DEF AnswerFits
  <2>7. results = [b \in DOMAIN batches |-> results[b]]
    BY <2>5
  <2>8. attributions' = FlattenSeq(results)
    BY <2>2, <2>4
  <2> QED BY <1>0, <2>1, <2>2, <2>6, <2>7, <2>8, AttributedTogether DEF Given
<1>3. CASE Reload /\ ~ UNCHANGED attributions
  <2>1. PICK batches : batches = Batches(source, settings.attrCues)
    OBVIOUS
  <2>2. PICK results : results = [b \in DOMAIN batches |-> Attributed(batches[b], <<>>)]
    OBVIOUS
  <2>3. attributions' = FlattenSeq(results) /\ UNCHANGED source
    BY <1>3, <2>1, <2>2 DEF Reload
  <2>4. ASSUME NEW b \in DOMAIN batches
        PROVE  AttributionsOf(results[b], batches[b])
    <3>1. PICK cues \in Seq(Nat) : cues = batches[b]
      BY <1>0, <2>1, BatchesTyped
    <3>2. DOMAIN <<>> = {}
      OBVIOUS
    <3>3. PICK none : none = <<>>
      OBVIOUS
    <3>4. AttributionsOf(Attributed(cues, none), cues)
      BY <3>2, <3>3, AttributedFits
    <3> QED BY <2>2, <3>1, <3>3, <3>4
  <2>5. results = [b \in DOMAIN batches |-> results[b]]
    BY <2>2
  <2> QED BY <1>0, <2>1, <2>3, <2>4, <2>5, AttributedTogether DEF Given
<1>4. UNCHANGED <<source, attributions>> \/ AttributionsDone \/ Reload
  <2> USE DEF pronouns
  <2>1. CASE Step
    BY <2>1 DEF Step, Claim, Open, OpenMechanical, Analyzed, Merge,
       Reconcile, DispatchTranslation, TranslationsDone, ReviewDone, GroupFails,
       GatePasses, GateRepairs, GateQuarantines, RepairDone, RepairMissed, Write, Finish
  <2>2. CASE Call
    BY <2>2 DEF Call, Acquire, Answered, AnalyzeAnswered, AttributeAnswered,
       TranslateAnswered, ReviewAnswered
  <2>3. CASE Fault
    BY <2>3 DEF Fault, CallFails, Unreadable, MergeUnloaded, MergeFails,
       ReconcileFails, Breaks
  <2>4. CASE \E p \in Pairs : UserEdits(p)
    BY <2>4 DEF UserEdits
  <2>5. CASE UNCHANGED vars
    BY <2>5 DEF vars
  <2> QED BY <2>1, <2>2, <2>3, <2>4, <2>5 DEF Next
<1>5. Reload => UNCHANGED source
  BY DEF Reload
<1> QED BY <1>1, <1>2, <1>3, <1>4, <1>5

\* What a whole group of tasks has answered.
LEMMA AllAnswered ==
  ASSUME TasksFit, AllOk, NEW maxCues, NEW batches, AskedOf(batches),
         stage \in {"translate", "review"}, Given, batches = Batches(source, maxCues)
  PROVE  /\ Results \in [DOMAIN batches -> Seq(Text)]
         /\ \A b \in DOMAIN batches :
              \/ stage = "review" /\ Results[b] = Kept
              \/ TextsOf(Results[b], batches[b])
<1>1. PICK results : results = Results
  OBVIOUS
<1>2. results = [b \in DOMAIN batches |-> tasks[b].answer]
  BY <1>1 DEF Results, AskedOf
<1>3. ASSUME NEW b \in DOMAIN batches
      PROVE  /\ \/ stage = "review" /\ results[b] = Kept
                \/ TextsOf(results[b], batches[b])
             /\ results[b] \in Seq(Text)
  <2>1. b \in DOMAIN tasks /\ tasks[b].cues = batches[b] /\ results[b] = tasks[b].answer
    BY <1>2 DEF AskedOf
  <2>2. AnswerFits(tasks[b])
    BY <2>1 DEF TasksFit, AllOk
  <2>3. (stage = "review" /\ results[b] = Kept) \/ TextsOf(results[b], batches[b])
    BY <2>1, <2>2 DEF AnswerFits
  <2>4. Kept \in Seq(Text)
    BY DEF Kept
  <2> QED BY <2>3, <2>4 DEF TextsOf
<1>4. results \in [DOMAIN batches -> Seq(Text)]
  <2>1. results = [b \in DOMAIN batches |-> results[b]]
    BY <1>2
  <2> QED BY <1>3, <2>1, Zenon
<1> QED BY <1>1, <1>3, <1>4

\* Assembly, review and repair leave each line its own text.
LEMMA NextKeepsLines ==
  ASSUME DocInv, [Next]_vars
  PROVE  LinesInv'
<1> USE DEF passes, disk, history, pronouns
<1>0. Given /\ TasksFit /\ LinesInv /\ source \in Seq(Cue)
  BY DEF DocInv, Given
<1>1. ASSUME UNCHANGED source, NEW doc, lines' = doc, Own(doc)
      PROVE  LinesInv'
  BY <1>1 DEF LinesInv, Own
<1>2. CASE UNCHANGED <<source, lines>> /\ (stage' \in DocStages => stage \in DocStages)
  <2>1. Own(lines) => Own(lines)'
    BY <1>2 DEF Own
  <2> QED BY <1>0, <1>2, <2>1 DEF LinesInv
<1>3. CASE TranslationsDone
  <2>1. PICK batches : batches = Batches(source, settings.maxCues)
    OBVIOUS
  <2>2. stage = "translate" /\ AllOk /\ UNCHANGED source
    BY <1>3 DEF TranslationsDone
  <2>3. AskedOf(batches)
    BY <1>0, <2>1, <2>2 DEF TasksFit, Asked
  <2>4. PICK results : results = Results
    OBVIOUS
  <2>5. /\ results \in [DOMAIN batches -> Seq(Text)]
        /\ \A b \in DOMAIN batches : TextsOf(results[b], batches[b])
    BY <1>0, <2>1, <2>2, <2>3, <2>4, AllAnswered
  <2>6. PICK doc : doc = Assembled(source, results)
    OBVIOUS
  <2>7. Own(doc) /\ Own(Enveloped(source, doc))
    BY <1>0, <2>1, <2>5, <2>6, AssembledOwn, EnvelopedOwn
  <2>8. lines' = doc \/ lines' = Enveloped(source, doc)
    BY <1>3, <2>4, <2>6 DEF TranslationsDone
  <2> QED BY <1>1, <2>2, <2>7, <2>8
<1>4. CASE ReviewDone
  <2>1. PICK batches : batches = Batches(source, settings.reviewCues)
    OBVIOUS
  <2>2. stage = "review" /\ AllOk /\ UNCHANGED source
    BY <1>4 DEF ReviewDone
  <2>3. AskedOf(batches)
    BY <1>0, <2>1, <2>2 DEF TasksFit, Asked
  <2>4. PICK results : results = Results
    OBVIOUS
  <2>5. /\ results \in [DOMAIN batches -> Seq(Text)]
        /\ \A b \in DOMAIN batches : results[b] = Kept \/ TextsOf(results[b], batches[b])
    BY <1>0, <2>1, <2>2, <2>3, <2>4, AllAnswered
  <2>6. batches = [t \in DOMAIN tasks |-> tasks[t].cues]
    <3>1. batches = [t \in DOMAIN batches |-> batches[t]]
      BY <1>0, <2>1, BatchesTyped
    <3> QED BY <2>3, <3>1 DEF AskedOf
  <2>7. Own(lines)
    BY <1>0, <2>2 DEF LinesInv, DocStages
  <2>8. PICK doc : doc = Spliced(source, lines, batches, results)
    OBVIOUS
  <2>9. Own(doc) /\ Own(Enveloped(source, doc))
    BY <1>0, <2>1, <2>5, <2>7, <2>8, SplicedOwn, EnvelopedOwn
  <2>10. lines' = Enveloped(source, doc)
    BY <1>4, <2>4, <2>6, <2>8 DEF ReviewDone
  <2> QED BY <1>1, <2>2, <2>9, <2>10
<1>5. CASE RepairDone
  <2>1. stage = "repair" /\ AllOk /\ UNCHANGED source /\ lines' = AfterRepair
    BY <1>5 DEF RepairDone
  <2>2. PICK task : task = tasks[1]
    OBVIOUS
  <2>3. task.cues \in Seq(Translatable(source)) /\ 1 \in DOMAIN tasks /\ task.pc = "ok"
    BY <1>0, <2>1, <2>2 DEF TasksFit, Asked, AllOk
  <2>4. TextsOf(task.answer, task.cues)
    BY <1>0, <2>1, <2>2, <2>3 DEF TasksFit, AnswerFits
  <2>5. Own(lines)
    BY <1>0, <2>1 DEF LinesInv, DocStages
  <2>6. PICK doc : doc = Repaired(lines, task.cues, task.answer)
    OBVIOUS
  <2>7. Own(doc) /\ Own(Enveloped(source, doc))
    BY <1>0, <2>3, <2>4, <2>5, <2>6, RepairedOwn, EnvelopedOwn
  <2>8. lines' = Enveloped(source, doc)
    BY <2>1, <2>2, <2>6 DEF AfterRepair
  <2> QED BY <1>1, <2>1, <2>7, <2>8
<1>6. \/ UNCHANGED <<source, lines>> /\ (stage' \in DocStages => stage \in DocStages)
      \/ TranslationsDone \/ ReviewDone \/ RepairDone
  <2> USE DEF result, DocStages
  <2>1. CASE Step
    BY <2>1 DEF Step, Claim, Open, OpenMechanical, Analyzed, Merge, Reload,
       AttributionsDone, Reconcile, DispatchTranslation, GroupFails, GatePasses,
       GateRepairs, GateQuarantines, RepairMissed, Write, Finish,
       Goto, Calls, Stops, Quarantines
  <2>2. CASE Call
    BY <2>2 DEF Call, Acquire, Answered, AnalyzeAnswered, AttributeAnswered,
       TranslateAnswered, ReviewAnswered
  <2>3. CASE Fault
    BY <2>3 DEF Fault, CallFails, Unreadable, MergeUnloaded, MergeFails,
       ReconcileFails, Breaks, Goto, Stops, Quarantines
  <2>4. CASE \E p \in Pairs : UserEdits(p)
    BY <2>4 DEF UserEdits
  <2>5. CASE UNCHANGED vars
    BY <2>5 DEF vars
  <2> QED BY <2>1, <2>2, <2>3, <2>4, <2>5 DEF Next
<1> QED BY <1>2, <1>3, <1>4, <1>5, <1>6

\* The document and the settings stay what they were.
LEMMA GivenStays == ASSUME Given, [Next]_vars PROVE Given'
<1>1. UNCHANGED <<source, settings>>
  <2>1. CASE Step
    BY <2>1 DEF Step, Claim, Open, OpenMechanical, Analyzed, Merge, Reload,
       AttributionsDone, Reconcile, DispatchTranslation, TranslationsDone, ReviewDone,
       GroupFails, GatePasses, GateRepairs, GateQuarantines, RepairDone, RepairMissed,
       Write, Finish
  <2>2. CASE Call
    BY <2>2 DEF Call, Acquire, Answered, AnalyzeAnswered, AttributeAnswered,
       TranslateAnswered, ReviewAnswered
  <2>3. CASE Fault
    BY <2>3 DEF Fault, CallFails, Unreadable, MergeUnloaded, MergeFails,
       ReconcileFails, Breaks
  <2>4. CASE \E p \in Pairs : UserEdits(p)
    BY <2>4 DEF UserEdits
  <2>5. CASE UNCHANGED vars
    BY <2>5 DEF vars
  <2> QED BY <2>1, <2>2, <2>3, <2>4, <2>5 DEF Next
<1> QED BY <1>1 DEF Given

\* A run begins with nothing asked, attributed or translated.
LEMMA InitDoc == Init => DocInv
<1> SUFFICES ASSUME Init PROVE DocInv
  OBVIOUS
<1>1. Given
  <2>1. PICK c \in Cases : source = c.source /\ settings = c.settings
    BY DEF Init
  <2>2. c.source \in Seq(Cue) /\ c.settings \in Settings
    BY PipelineAssumption
  <2> QED BY <2>1, <2>2 DEF Given
<1>2. stage = "claim" /\ tasks = <<>> /\ attributions = <<>> /\ lines = <<>>
  BY DEF Init
<1>3. TasksFit
  BY <1>2 DEF TasksFit, Asked, HintsOwn
<1>4. AttributionsInv /\ LinesInv
  BY <1>2 DEF AttributionsInv, LinesInv, DocStages
<1> QED BY <1>1, <1>3, <1>4 DEF DocInv

\* Every step keeps all of it.
LEMMA NextKeepsDoc ==
  ASSUME DocInv, CallInv, [Next]_vars
  PROVE  DocInv'
<1>1. TasksInv /\ Given
  BY DEF CallInv, DocInv
<1> QED BY <1>1, GivenStays, NextKeepsTasks, NextKeepsAttributions, NextKeepsLines DEF DocInv

\* Through assembly, review and repair every line has the text that was made of its
\* own cue, for any document, any sizes of batches and whatever the models answer.
THEOREM OwnTextAlways == Spec => []OwnText
<1>1. DocInv => OwnText
  BY DEF DocInv, LinesInv, Own, OwnText
<1> QED BY <1>1, InitCalls, NextKeepsCalls, InitDoc, NextKeepsDoc, PTL DEF Spec

\* A cue of Pass 3 is hinted the pronouns of its own attribution, whatever the sizes
\* of the batches of Passes 2 and 3 and wherever the raw cues are.
THEOREM HintsOwnAlways == Spec => []HintsOwn
<1>1. DocInv => HintsOwn
  BY DEF DocInv, TasksFit
<1> QED BY <1>1, InitCalls, NextKeepsCalls, InitDoc, NextKeepsDoc, PTL DEF Spec

-----------------------------------------------------------------------------
(* Types. *)

AddressMap == [Pairs -> Entry \union {Vacant}]

MapsInv ==
  /\ map \in AddressMap /\ bible.map \in AddressMap
  /\ suggested \subseteq Event /\ bible.events \subseteq Event

\* What is established has terms.
LEMMA EstablishedTyped ==
  ASSUME NEW m \in AddressMap, NEW p \in Pairs, Established(m[p])
  PROVE  m[p].terms \in Terms
<1>1. m[p] \in Entry \union {Vacant} /\ m[p] # Vacant /\ m[p].terms # NoTerms
  BY DEF AddressMap, Established
<1> QED BY <1>1 DEF Entry

\* What is resolved to be written back is terms.
LEMMA ResolvedTyped ==
  ASSUME NEW m \in AddressMap, NEW events \in SUBSET Event, NEW dated, NEW sure,
         NEW p \in Pairs, Resolved1(m, events, dated, sure, p).write
  PROVE  Resolved1(m, events, dated, sure, p).terms \in Terms
<1> DEFINE here == IF dated THEN Transitions(events, p) ELSE {}
           e    == CHOOSE x \in here : TRUE
<1>0. SafeTerms \in Terms
  BY PronounsAssumption
<1>1. CASE m[p].locked /\ Established(m[p])
  <2>1. Resolved1(m, events, dated, sure, p) = Resolution(m[p].terms, FALSE)
    BY <1>1 DEF Resolved1
  <2> QED BY <2>1 DEF Resolution
<1>2. CASE ~ (m[p].locked /\ Established(m[p])) /\ here # {}
  <2>1. Resolved1(m, events, dated, sure, p) = Resolution(Derived(e, m[p], p \in sure), TRUE)
    BY <1>2 DEF Resolved1
  <2>2. e \in Event
    <3>1. e \in here
      BY <1>2
    <3>2. here \subseteq events
      BY DEF Transitions
    <3> HIDE DEF e, here
    <3> QED BY <3>1, <3>2
  <2> HIDE DEF e, here
  <2>3. Derived(e, m[p], p \in sure) \in Terms
    <3>1. CASE e.terms # NoTerms
      BY <2>2, <3>1 DEF Derived, Event
    <3>2. CASE e.terms = NoTerms
      BY <1>0, <3>2, EstablishedTyped DEF Derived
    <3> QED BY <3>1, <3>2
  <2> QED BY <2>1, <2>3 DEF Resolution
<1>3. CASE ~ (m[p].locked /\ Established(m[p])) /\ here = {}
  <2>1. Resolved1(m, events, dated, sure, p) =
          IF Established(m[p]) THEN Resolution(m[p].terms, p \in sure)
          ELSE Resolution(SafeTerms, p \in sure)
    BY <1>3 DEF Resolved1
  <2> QED BY <1>0, <2>1, EstablishedTyped DEF Resolution
<1> QED BY <1>1, <1>2, <1>3

\* So it is of the whole map that Pass 4 resolves.
LEMMA WrittenTyped ==
  ASSUME NEW m \in AddressMap, NEW events \in SUBSET Event, NEW dated, NEW threshold,
         NEW all \in Seq(Attribution),
         NEW resolved1, resolved1 = Reconciled(m, events, dated, all, threshold),
         NEW p \in Written(resolved1)
  PROVE  resolved1[p].terms \in Terms
<1> DEFINE sure == Sure(all, threshold)
<1>1. PICK direct : direct = Directly(m, events, dated, all, threshold)
  OBVIOUS
<1>2. direct = [q \in Processed(m, all) |-> Resolved1(m, events, dated, sure, q)]
  BY <1>1 DEF Directly
<1>3. Processed(m, all) \subseteq Pairs
  <2>1. ASSUME NEW a \in Range(all), a.pair # NoPair
        PROVE  a.pair \in Pairs
    <3>1. PICK i \in DOMAIN all : a = all[i]
      BY DEF Range
    <3>2. a \in Attribution
      BY <3>1
    <3> QED BY <2>1, <3>2 DEF Attribution
  <2> QED BY <2>1 DEF Processed
<1>4. DOMAIN direct \subseteq Pairs
        /\ \A q \in DOMAIN direct : direct[q] = Resolved1(m, events, dated, sure, q)
  BY <1>2, <1>3
<1> HIDE DEF sure
<1>5. PICK ways : ways = {q \in DOMAIN direct : /\ direct[q].terms \in DOMAIN Reciprocal
                                                /\ Back(q) \notin DOMAIN direct}
  OBVIOUS
<1>6. resolved1 = [q \in DOMAIN direct \union {Back(x) : x \in ways} |->
                    IF q \in DOMAIN direct THEN direct[q]
                    ELSE Resolution(Reciprocal[direct[Back(q)].terms], TRUE)]
  BY <1>1, <1>5 DEF Reconciled, Completed
<1>7. p \in DOMAIN resolved1 /\ resolved1[p].write
  BY DEF Written
<1>8. CASE p \in DOMAIN direct
  <2>1. resolved1[p] = Resolved1(m, events, dated, sure, p) /\ p \in Pairs
    BY <1>4, <1>6, <1>7, <1>8
  <2> QED BY <1>7, <2>1, ResolvedTyped
<1>9. CASE p \notin DOMAIN direct
  <2>1. PICK x \in ways : p = Back(x)
    BY <1>6, <1>7, <1>9
  <2>2. x \in Pairs /\ x \in DOMAIN direct /\ direct[x].terms \in DOMAIN Reciprocal
    BY <1>4, <1>5, <2>1
  <2>3. Back(p) = x
    BY <2>1, <2>2 DEF Back, Pairs
  <2>4. resolved1[p] = Resolution(Reciprocal[direct[x].terms], TRUE)
    BY <1>6, <1>7, <1>9, <2>3
  <2>5. Reciprocal[direct[x].terms] \in Terms
    BY <2>2, PronounsAssumption
  <2> QED BY <2>4, <2>5 DEF Resolution
<1> QED BY <1>8, <1>9

\* The map stays one when some of these are written.
LEMMA UpsertedTyped ==
  ASSUME MapsInv, AttributionsInv, NEW done \in SUBSET Written(MyResolved)
  PROVE  Upserted(map, MyResolved, done) \in AddressMap
<1>1. PICK r : r = MyResolved
  OBVIOUS
<1>2. \A p \in Written(r) : r[p].terms \in Terms
  BY <1>1, WrittenTyped DEF MyResolved, MapsInv, AttributionsInv
<1>3. PICK new : new = Upserted(map, r, done)
  OBVIOUS
<1>4. new = [p \in Pairs |-> IF p \notin done \/ map[p].locked THEN map[p]
                             ELSE [terms |-> r[p].terms, locked |-> FALSE]]
  BY <1>3 DEF Upserted
<1>5. ASSUME NEW p \in Pairs
      PROVE  new[p] \in Entry \union {Vacant}
  <2>1. CASE p \notin done \/ map[p].locked
    <3>1. new[p] = map[p]
      BY <1>4, <2>1
    <3> QED BY <3>1 DEF MapsInv, AddressMap
  <2>2. CASE ~ (p \notin done \/ map[p].locked)
    <3>1. new[p] = [terms |-> r[p].terms, locked |-> FALSE]
      BY <1>4, <2>2
    <3>2. r[p].terms \in Terms
      BY <1>1, <1>2, <2>2
    <3> QED BY <3>1, <3>2 DEF Entry
  <2> QED BY <2>1, <2>2
<1>6. new = [p \in Pairs |-> new[p]]
  BY <1>4
<1> QED BY <1>1, <1>3, <1>5, <1>6 DEF AddressMap

\* What Pass 1, the merge, Pass 4 and the user write are entries and events.
LEMMA NextKeepsMaps ==
  ASSUME MapsInv, AttributionsInv, [Next]_vars
  PROVE  MapsInv'
<1> USE DEF passes, result, disk, pronouns
<1>1. CASE UNCHANGED <<map, bible, suggested>>
  BY <1>1 DEF MapsInv
<1>2. CASE Merge \/ MergeUnloaded
  <2>1. UNCHANGED <<bible, suggested>>
    BY <1>2 DEF Merge, MergeUnloaded
  <2>2. PICK new \in SUBSET Pairs, t \in Terms :
          map' = [p \in Pairs |-> IF p \in new THEN [terms |-> t, locked |-> FALSE]
                                  ELSE map[p]]
    BY <1>2 DEF Merge, MergeUnloaded, Enters
  <2>3. [terms |-> t, locked |-> FALSE] \in Entry
    BY DEF Entry
  <2>4. \A p \in Pairs : map[p] \in Entry \union {Vacant}
    BY DEF MapsInv, AddressMap
  <2>5. map' \in AddressMap
    BY <2>2, <2>3, <2>4 DEF AddressMap
  <2> QED BY <2>1, <2>5 DEF MapsInv
<1>3. CASE Reconcile \/ ReconcileFails
  <2>1. UNCHANGED <<bible, suggested>>
    BY <1>3 DEF Reconcile, ReconcileFails
  <2>2. \E done \in SUBSET Written(MyResolved) : map' = Upserted(map, MyResolved, done)
    BY <1>3 DEF Reconcile, ReconcileFails
  <2> QED BY <2>1, <2>2, UpsertedTyped DEF MapsInv
<1>4. CASE \E p \in Pairs : UserEdits(p)
  <2>1. UNCHANGED <<bible, suggested>>
    BY <1>4 DEF UserEdits
  <2>2. PICK p \in Pairs, t \in Terms, l \in BOOLEAN :
          map' = [map EXCEPT ![p] = [terms |-> t, locked |-> l]]
    BY <1>4 DEF UserEdits
  <2>3. [terms |-> t, locked |-> l] \in Entry \union {Vacant}
    BY DEF Entry
  <2>4. map' \in AddressMap
    BY <2>2, <2>3 DEF MapsInv, AddressMap
  <2> QED BY <2>1, <2>4 DEF MapsInv
<1>5. CASE Analyzed
  <2>1. UNCHANGED <<map, bible>>
    BY <1>5 DEF Analyzed
  <2>2. suggested' \subseteq Event
    <3>1. \/ suggested' = suggested \/ suggested' = {}
          \/ \E e \in CanHappen : suggested' = {e}
      BY <1>5 DEF Analyzed
    <3> QED BY <3>1, PipelineAssumption DEF MapsInv
  <2> QED BY <2>1, <2>2 DEF MapsInv
<1>6. CASE Reload
  <2>1. UNCHANGED <<map, suggested>>
    BY <1>6 DEF Reload
  <2>2. bible' = [map |-> map, events |-> {AsLoaded(e) : e \in suggested}]
    BY <1>6 DEF Reload
  <2>3. ASSUME NEW e \in suggested
        PROVE  AsLoaded(e) \in Event
    BY DEF MapsInv, AsLoaded, Event
  <2> QED BY <2>1, <2>2, <2>3 DEF MapsInv
<1>7. \/ UNCHANGED <<map, bible, suggested>> \/ Merge \/ MergeUnloaded \/ Reconcile
      \/ ReconcileFails
      \/ (\E p \in Pairs : UserEdits(p)) \/ Analyzed \/ Reload
  <2> USE DEF history
  <2>1. CASE Step
    BY <2>1 DEF Step, Claim, Open, OpenMechanical, AttributionsDone,
       DispatchTranslation, TranslationsDone, ReviewDone, GroupFails, GatePasses,
       GateRepairs, GateQuarantines, RepairDone, RepairMissed, Write, Finish
  <2>2. CASE Call
    BY <2>2 DEF Call, Acquire, Answered, AnalyzeAnswered, AttributeAnswered,
       TranslateAnswered, ReviewAnswered
  <2>3. CASE Fault
    BY <2>3 DEF Fault, CallFails, Unreadable, MergeFails, Breaks
  <2>4. CASE UNCHANGED vars
    BY <2>4 DEF vars
  <2> QED BY <2>1, <2>2, <2>3, <2>4 DEF Next
<1> QED BY <1>1, <1>2, <1>3, <1>4, <1>5, <1>6, <1>7

\* Where the run is, what is left of the repairs, and what is on disk.
ControlInv ==
  /\ stage \in Stages
  /\ budget \in 0..settings.repairs
  /\ sidecar \in Seq(Seq(Line))
  /\ row \in {"none", "in_progress", "quarantined", "done"}
  /\ outcome \in {"none", "done", "quarantined", "failed"}

\* Steps stay within these; a repair is tried only while the budget lasts.
LEMMA NextKeepsControl ==
  ASSUME ControlInv, Given, LinesInv, [Next]_vars
  PROVE  ControlInv'
<1> USE DEF passes, result, disk, history, pronouns
<1>1. stage' \in Stages
  <2>1. CASE Step
    BY <2>1 DEF ControlInv, Stages, Step, Claim, Open, OpenMechanical, Analyzed, Merge,
       Reload, AttributionsDone, Reconcile, DispatchTranslation, TranslationsDone,
       ReviewDone, GroupFails, GatePasses, GateRepairs, GateQuarantines, RepairDone,
       RepairMissed, Write, Finish, Goto, Calls, Stops, Quarantines
  <2>2. CASE ~ Step
    <3>1. stage' \in {stage, "end", "reload"}
      BY <2>2 DEF Next, Call, Acquire, Answered, AnalyzeAnswered, AttributeAnswered,
         TranslateAnswered, ReviewAnswered, Fault, CallFails, Unreadable, MergeUnloaded,
         MergeFails, ReconcileFails, Breaks, UserEdits, vars, Goto, Stops, Quarantines
    <3> QED BY <3>1 DEF ControlInv, Stages
  <2> QED BY <2>1, <2>2
<1>2. budget' \in 0..settings'.repairs
  <2>1. settings' = settings /\ settings.repairs \in Nat
    <3>1. Given'
      BY GivenStays
    <3>2. UNCHANGED settings
      BY DEF Next, Step, Claim, Open, OpenMechanical, Analyzed, Merge, Reload,
         AttributionsDone, Reconcile, DispatchTranslation, TranslationsDone, ReviewDone,
         GroupFails, GatePasses, GateRepairs, GateQuarantines, RepairDone, RepairMissed,
         Write, Finish, Call, Acquire, Answered, AnalyzeAnswered, AttributeAnswered,
         TranslateAnswered, ReviewAnswered, Fault, CallFails, Unreadable, MergeUnloaded,
         MergeFails, ReconcileFails, Breaks, UserEdits, vars
    <3> QED BY <3>2 DEF Given, Settings
  <2>2. CASE TranslationsDone
    <3>1. budget' = settings.repairs
      BY <2>2 DEF TranslationsDone
    <3> QED BY <2>1, <3>1
  <2>3. CASE GateRepairs
    <3>1. budget > 0 /\ budget' = budget - 1
      BY <2>3 DEF GateRepairs, CanRepair, Spent
    <3> QED BY <2>1, <3>1 DEF ControlInv
  <2>4. UNCHANGED budget \/ TranslationsDone \/ GateRepairs
    <3>1. CASE Step
      BY <3>1 DEF Step, Claim, Open, OpenMechanical, Analyzed, Merge, Reload,
         AttributionsDone, Reconcile, DispatchTranslation, ReviewDone,
         GroupFails, GatePasses, GateQuarantines, RepairDone, RepairMissed,
         Write, Finish
    <3>2. CASE ~ Step
      BY <3>2 DEF Next, Call, Acquire, Answered, AnalyzeAnswered, AttributeAnswered,
         TranslateAnswered, ReviewAnswered, Fault, CallFails, Unreadable, MergeUnloaded,
         MergeFails, ReconcileFails, Breaks, UserEdits, vars
    <3> QED BY <3>1, <3>2
  <2> QED BY <2>1, <2>2, <2>3, <2>4 DEF ControlInv
<1>3. sidecar' \in Seq(Seq(Line))
  <2>1. CASE Write
    <3>1. sidecar' = <<lines>> /\ lines \in Seq(Line)
      BY <2>1 DEF Write, LinesInv
    <3> QED BY <3>1
  <2>2. UNCHANGED sidecar \/ Write
    <3>1. CASE Step
      BY <3>1 DEF Step, Claim, Open, OpenMechanical, Analyzed, Merge, Reload,
         AttributionsDone, Reconcile, DispatchTranslation, TranslationsDone, ReviewDone,
         GroupFails, GatePasses, GateRepairs, GateQuarantines, RepairDone, RepairMissed,
         Finish
    <3>2. CASE ~ Step
      BY <3>2 DEF Next, Call, Acquire, Answered, AnalyzeAnswered, AttributeAnswered,
         TranslateAnswered, ReviewAnswered, Fault, CallFails, Unreadable, MergeUnloaded,
         MergeFails, ReconcileFails, Breaks, UserEdits, vars
    <3> QED BY <3>1, <3>2
  <2> QED BY <2>1, <2>2 DEF ControlInv
<1>4. /\ row' \in {row, "in_progress", "quarantined", "done"}
      /\ outcome' \in {outcome, "done", "quarantined", "failed"}
  <2>1. CASE Step
    BY <2>1 DEF Step, Claim, Open, OpenMechanical, Analyzed, Merge, Reload,
       AttributionsDone, Reconcile, DispatchTranslation, TranslationsDone, ReviewDone,
       GroupFails, GatePasses, GateRepairs, GateQuarantines, RepairDone, RepairMissed,
       Write, Finish, Goto, Calls, Stops, Quarantines
  <2>2. CASE ~ Step
    BY <2>2 DEF Next, Call, Acquire, Answered, AnalyzeAnswered, AttributeAnswered,
       TranslateAnswered, ReviewAnswered, Fault, CallFails, Unreadable, MergeUnloaded,
       MergeFails, ReconcileFails, Breaks, UserEdits, vars, Goto, Stops, Quarantines
  <2> QED BY <2>1, <2>2
<1>5. /\ row' \in {"none", "in_progress", "quarantined", "done"}
      /\ outcome' \in {"none", "done", "quarantined", "failed"}
  BY <1>4 DEF ControlInv
<1> QED BY <1>1, <1>2, <1>3, <1>5 DEF ControlInv

\* Maps and control at the beginning.
LEMMA InitTypes == Init => MapsInv /\ ControlInv
<1> SUFFICES ASSUME Init PROVE MapsInv /\ ControlInv
  OBVIOUS
<1>1. PICK c \in Cases : source = c.source /\ settings = c.settings /\ map = c.map
  BY DEF Init
<1>2. map \in AddressMap /\ settings.repairs \in Nat
  BY <1>1, PipelineAssumption DEF AddressMap, Settings
<1>3. MapsInv
  BY <1>2 DEF Init, MapsInv
<1>4. ControlInv
  <2>1. /\ stage = "claim" /\ budget = 0 /\ sidecar = <<>> /\ row = "none"
        /\ outcome = "none"
    BY DEF Init
  <2> QED BY <1>2, <2>1 DEF ControlInv, Stages
<1> QED BY <1>3, <1>4

\* What the model says of the types of a run holds for any documents, settings,
\* characters and terms.
THEOREM TypeCorrect == Spec => []TypeOK
<1>1. Init => RunInv
  BY DEF Init, RunInv
<1>2. RunInv /\ [Next]_vars => RunInv'
  BY NextPromised DEF Promised
<1>3. MapsInv /\ DocInv /\ [Next]_vars => MapsInv'
  BY NextKeepsMaps DEF DocInv
<1>4. ControlInv /\ DocInv /\ [Next]_vars => ControlInv'
  BY NextKeepsControl DEF DocInv
<1>5. CallInv /\ DocInv /\ MapsInv /\ ControlInv /\ RunInv => TypeOK
  <2> SUFFICES ASSUME CallInv, DocInv, MapsInv, ControlInv, RunInv PROVE TypeOK
    OBVIOUS
  <2>1. slots \in 0..Limit
    <3>1. slots \in Nat /\ Cardinality(Holding) \in Nat /\ slots + Cardinality(Holding) = Limit
      BY FS_CardinalityType DEF CallInv, SlotsInv
    <3> QED BY <3>1
  <2>2. /\ source \in Seq(Cue) /\ settings \in Settings /\ tasks \in Seq(Task)
        /\ attributions \in Seq(Attribution) /\ lines \in Seq(Line)
    BY DEF DocInv, Given, TasksFit, AttributionsInv, LinesInv
  <2>3. outcome # "none" <=> stage = "end"
    BY DEF RunInv
  <2>4. /\ map \in [Pairs -> Entry \union {Vacant}]
        /\ bible.map \in [Pairs -> Entry \union {Vacant}]
        /\ suggested \subseteq Event /\ bible.events \subseteq Event
    BY DEF MapsInv, AddressMap
  <2> QED BY <2>1, <2>2, <2>3, <2>4 DEF TypeOK, ControlInv
<1> QED BY <1>1, <1>2, <1>3, <1>4, <1>5, InitCalls, NextKeepsCalls, InitDoc, NextKeepsDoc,
           InitTypes, PTL DEF Spec
=============================================================================
