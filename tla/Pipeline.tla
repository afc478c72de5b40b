-------------------------------- MODULE Pipeline --------------------------------
(***************************************************************************)
(* One run of translate_file (translate/engine.py) from the in_progress    *)
(* record to its end: Pass 1, the merge and reload of the Bible, Pass 2,   *)
(* the reconciliation, Pass 3 with its correction loop, Pass 4, the gate   *)
(* with its repairs, the write and the record.                             *)
(*                                                                         *)
(* Model calls go through the semaphore of LLMClient, and fall from one    *)
(* structured-output tier to the next.  The calls of Passes 2, 3 and 4 are *)
(* the tasks of a TaskGroup: the first that raises has the others          *)
(* cancelled, but some may raise before that is noticed.                   *)
(*                                                                         *)
(* What the Bible does with a merge is module Bible's; here it is the      *)
(* Address Map, which a user may edit at any time.                         *)
(***************************************************************************)
EXTENDS Document, Pronouns

CONSTANTS
  Cases,       \* documents, with settings and with what the Address Map is at first
  Limit,       \* llm_max_concurrency
  CanSay,      \* what a model may say of a cue, besides the tokens
  CanMean,     \* whom a model may take for the pair of a cue
  CanHappen,   \* the events a model may find in an episode
  MaxFaults, MaxEdits,  \* bounds
  EditStages   \* and the stages in which a user edits

Modes == {"auto", "json_schema", "json_object", "text"}

\* aware: eligible_item and session_factory are given; repairs:
\* gate_repair_max_attempts, 0 without enable_gate_repair; attempts:
\* translate_batch_retry_attempts + 1; dated: the episode's key is not S00E00.
Settings == [aware: BOOLEAN, mode: Modes, attribution: BOOLEAN, review: BOOLEAN,
             repairs: Nat, attempts: Nat \ {0}, maxCues: Nat \ {0},
             attrCues: Nat \ {0}, reviewCues: Nat \ {0}, chunk: Nat \ {0},
             threshold: Confidence, dated: BOOLEAN]

ASSUME PipelineAssumption ==
  /\ Cases \subseteq [source: Seq(Cue), settings: Settings,
                     map: [Pairs -> Entry \union {Vacant}]]
  /\ CanSay \subseteq TextKinds \ {"raw"}
  /\ CanMean \subseteq (Pairs \union {NoPair}) \X Confidence
  /\ CanHappen \subseteq Event
  /\ Limit \in Nat \ {0}
  /\ {MaxFaults, MaxEdits} \subseteq Nat

VARIABLES
  source,    \* the document that was read
  settings,
  stage,     \* where translate_file is
  tasks,     \* the model calls of the stage
  slots,     \* what is left of the semaphore
  map,       \* the Address Map in the database
  bible,     \* the Address Map and the events as they were reloaded
  suggested, \* the events that Pass 1 found, with their terms
  attributions,  \* flat_attributions
  resolved,  \* resolved_map
  lines,     \* translated_doc
  budget,    \* _repair_budget
  row, outcome,
  sidecar,   \* the document written as the sidecar: none or one
  used       \* how much of each bound is used up

vars == <<source, settings, stage, tasks, slots, map, bible, suggested, attributions,
          resolved, lines, budget, row, sidecar, outcome, used>>

passes  == <<tasks, slots>>
history == <<map, bible, suggested>>
pronouns == <<attributions, resolved>>
result  == <<lines, budget>>
disk    == <<row, sidecar, outcome>>

-----------------------------------------------------------------------------
(* The model calls. *)

Stages == {"claim", "open", "analyze", "merge", "reload", "attribute", "reconcile",
           "hints", "translate", "review", "gate", "repair", "write", "finish", "end"}
CallStages == {"analyze", "attribute", "translate", "review", "repair"}

\* tier: index in Tiers; answer: attributions, texts, or nothing.
Task == [cues: Seq(Nat), hints: Seq(Nat), pc: {"wait", "call", "ok", "bad", "raised"},
         tier: 1..3, tries: Nat, answer: Seq(Text) \union Seq(Attribution)]
Asks(cues, hints) ==
  [cues |-> cues, hints |-> hints, pc |-> "wait", tier |-> 1, tries |-> 0, answer |-> <<>>]

\* _call_with_fallback: 1 json_schema, 2 json_object, 3 plain text.
Tiers(mode, structured) ==
  CASE mode = "auto"        -> IF structured THEN <<1, 2, 3>> ELSE <<1, 3>>
    [] mode = "json_schema" -> <<1>>
    [] mode = "json_object" -> IF structured THEN <<2>> ELSE <<3>>
    [] mode = "text"        -> <<3>>

\* Of Passes 1 and 2 a pydantic model is expected.
CallTiers == Tiers(settings.mode, stage \in {"analyze", "attribute"})

\* rejected: 400 or 422; transport: any other error of the SDK after its own
\* retries; empty: a refusal or no content.
Errors == {"rejected", "transport", "empty"}

\* Only auto mode falls back, from tier 2 only for a rejected request.
FallsBack(tier, e) ==
  /\ settings.mode = "auto" /\ tier < 3
  /\ e = "rejected" \/ (e = "transport" /\ tier = 1)

Bounds == [faults |-> MaxFaults, edits |-> MaxEdits]
Uses(b) == used[b] < Bounds[b] /\ used' = [used EXCEPT ![b] = @ + 1]

Finished(t) == tasks[t].pc \in {"ok", "bad", "raised"}
Holding     == {t \in DOMAIN tasks : tasks[t].pc = "call"}

\* Chunks of Pass 1 are analyzed one after the other, batches all at once.
Turn(t) == stage = "analyze" => \A s \in 1..(t - 1) : Finished(s)

Acquire(t) ==
  /\ tasks[t].pc = "wait" /\ Turn(t)
  /\ slots > 0
  /\ slots' = slots - 1
  /\ tasks' = [tasks EXCEPT ![t].pc = "call", ![t].tier = 1]
  /\ UNCHANGED <<source, settings, stage, history, pronouns, result, disk, used>>

Release_OnAnswer(pc) == IF pc = "raised" THEN slots ELSE slots + 1
Release(pc) == slots + 1

\* The call ends, and with it the hold on the semaphore.
Ends(t, pc, answer) ==
  /\ tasks' = [tasks EXCEPT ![t].pc = pc, ![t].answer = answer]
  /\ slots' = Release(pc)

CallFails(t) ==
  /\ tasks[t].pc = "call"
  /\ Uses("faults")
  /\ \E e \in Errors :
       IF FallsBack(CallTiers[tasks[t].tier], e) /\ tasks[t].tier < Len(CallTiers)
       THEN tasks' = [tasks EXCEPT ![t].tier = @ + 1] /\ UNCHANGED slots
       \* A review that fails is no correction: _review_batch never raises (D-59).
       ELSE IF stage = "review" THEN Ends(t, "ok", Kept)
       ELSE Ends(t, "raised", <<>>)
  /\ UNCHANGED <<source, settings, stage, history, pronouns, result, disk>>

\* A chunk's JSON fits the schema or does not.
AnalyzeAnswered(t) ==
  /\ stage = "analyze" /\ tasks[t].pc = "call"
  /\ \E pc \in {"ok", "bad"} : Ends(t, pc, <<>>)
  /\ UNCHANGED <<source, settings, stage, history, pronouns, result, disk, used>>

\* What a model may answer about a batch: some of its lines, or no JSON at all.
Answers(n) ==
  UNION {[ks -> {[cue |-> 0, pair |-> m[1], confidence |-> m[2]] : m \in CanMean}] :
           ks \in SUBSET (1..n)}

AttributeAnswered(t) ==
  /\ stage = "attribute" /\ tasks[t].pc = "call"
  /\ \E answer \in Answers(Len(tasks[t].cues)) :
       Ends(t, "ok", Attributed(tasks[t].cues, answer))
  /\ UNCHANGED <<source, settings, stage, history, pronouns, result, disk, used>>

\* A cue without brackets gets none, one without tags may get stray tokens.
Says(i) ==
  [text: CanSay, tokens: IF source[i].tagged THEN {"own", "none"} ELSE {"none", "orphan"},
   wrapped: IF source[i].enclosed THEN BOOLEAN ELSE {FALSE}]

\* The numbers come out right, or one is missing, extra or twice there.
Misnumbered(n) ==
  {[k \in 1..(n - 1) |-> k], [k \in 1..(n + 1) |-> k],
   [k \in 1..(n + 1) |-> IF k > n THEN 1 ELSE k]}

Replies(cues) ==
  LET n    == Len(cues)
      says == {f \in [1..n -> UNION {Says(i) : i \in Range(cues)}] :
                 \A k \in 1..n : f[k] \in Says(cues[k])}
  IN [numbers: {[k \in 1..n |-> k]}, say: says]
       \union [numbers: Misnumbered(n), say: {CHOOSE f \in says : TRUE}]

\* _translate_batch: a reply that does not fit is sent back with the reason,
\* until the attempts are used up.
TranslateAnswered(t) ==
  /\ stage \in {"translate", "repair"} /\ tasks[t].pc = "call"
  /\ \E reply \in Replies(tasks[t].cues) :
       IF WellFormed(reply, tasks[t].cues, source)
       THEN Ends(t, "ok", Texts(reply, tasks[t].cues))
       ELSE /\ tasks' = [tasks EXCEPT ![t].tries = @ + 1,
                           ![t].pc = IF tasks[t].tries + 1 = settings.attempts
                                     THEN "bad" ELSE "wait"]
            /\ slots' = Release("bad")
  /\ UNCHANGED <<source, settings, stage, history, pronouns, result, disk, used>>

\* _review_batch: one try, and no correction at all if the reply does not fit.
\* Where it echoes the prompt the line as it is takes its place, tags and all.
Fits(reply, batch) ==
  /\ Parses(reply, Len(batch))
  /\ \A k \in DOMAIN batch : \/ reply.say[k].text = "scaffold"
                            \/ KeepsTags(reply.say[k], source[batch[k]].tagged)

ReviewAnswered(t) ==
  /\ stage = "review" /\ tasks[t].pc = "call"
  /\ \E reply \in Replies(tasks[t].cues) :
       Ends(t, "ok", IF Fits(reply, tasks[t].cues) THEN Texts(reply, tasks[t].cues)
                     ELSE Kept)
  /\ UNCHANGED <<source, settings, stage, history, pronouns, result, disk, used>>

-----------------------------------------------------------------------------
(* The stages. *)

Goto(next) == stage' = next /\ UNCHANGED outcome
Calls(next, cues, hints) ==
  /\ Goto(next)
  /\ tasks' = [b \in DOMAIN cues |-> Asks(cues[b], hints[b])]

NoHints(cues) == [b \in DOMAIN cues |-> [k \in DOMAIN cues[b] |-> 0]]

\* The run ends.  What it leaves in memory is gone.
Stops(how) ==
  /\ stage' = "end" /\ outcome' = how
  /\ tasks' = <<>>
Quarantines(how) == row' = "quarantined" /\ Stops(how)

Init ==
  /\ \E c \in Cases : source = c.source /\ settings = c.settings /\ map = c.map
  /\ stage = "claim" /\ tasks = <<>> /\ slots = Limit
  /\ bible = [map |-> map, events |-> {}] /\ suggested = {}
  /\ attributions = <<>> /\ resolved = <<>>
  /\ lines = <<>> /\ budget = 0
  /\ row = "none" /\ sidecar = <<>> /\ outcome = "none"
  /\ used = [b \in DOMAIN Bounds |-> 0]

MyBatches == Batches(source, settings.maxCues)

\* The hints of a batch are those of its slice of the flat list.
Before(batches, b) == Len(FlattenSeq(SubSeq(batches, 1, b - 1)))

\* The hint of an attribution: the cue that it was made for, 0 if it has none.
HintOf(a) == IF a.pair \in DOMAIN resolved THEN a.cue ELSE 0

HintsFor_ByCue(batches) ==
  [b \in DOMAIN batches |-> [k \in DOMAIN batches[b] |->
     IF batches[b][k] \in DOMAIN attributions THEN HintOf(attributions[batches[b][k]]) ELSE 0]]
HintsFor(batches) ==
  [b \in DOMAIN batches |-> [k \in DOMAIN batches[b] |->
     IF Before(batches, b) + k \in DOMAIN attributions
     THEN HintOf(attributions[Before(batches, b) + k]) ELSE 0]]

\* Step 4.
Claim ==
  /\ stage = "claim"
  /\ row' = "in_progress"
  /\ Goto("open")
  /\ UNCHANGED <<source, settings, passes, history, pronouns, result, sidecar, used>>

\* The source cannot be read, decoded or batched.
Unreadable ==
  /\ stage = "open"
  /\ Uses("faults")
  /\ Quarantines("quarantined")
  /\ UNCHANGED <<source, settings, slots, history, pronouns, result, sidecar>>

\* get_or_create_series and the first load; the chunks of Pass 1.
Chunks(n) == (n + settings.chunk - 1) \div settings.chunk
Open ==
  /\ stage = "open" /\ settings.aware
  /\ LET n == IF settings.mode = "text" THEN 0 ELSE Chunks(Len(source)) IN
     Calls("analyze", [c \in 1..n |-> <<>>], [c \in 1..n |-> <<>>])
  /\ UNCHANGED <<source, settings, slots, history, pronouns, result, row, sidecar, used>>

\* Without an *arr item there is no Bible, and none of Passes 1, 2 and 4.
OpenMechanical ==
  /\ stage = "open" /\ ~ settings.aware
  /\ Calls("translate", MyBatches, NoHints(MyBatches))
  /\ UNCHANGED <<source, settings, slots, history, pronouns, result, row, sidecar, used>>

\* Every chunk failing is a BibleAnalysisError, some failing is not.
AllBad == tasks # <<>> /\ \A t \in DOMAIN tasks : tasks[t].pc = "bad"

Analyzed ==
  /\ stage = "analyze" /\ \A t \in DOMAIN tasks : tasks[t].pc \in {"ok", "bad"}
  /\ IF AllBad THEN Quarantines("quarantined") /\ UNCHANGED suggested
     ELSE /\ suggested' \in IF tasks = <<>> THEN {{}} ELSE {{}} \union {{e} : e \in CanHappen}
          /\ Goto("merge") /\ tasks' = <<>> /\ UNCHANGED row
  /\ UNCHANGED <<source, settings, slots, map, bible, pronouns, result, sidecar, used>>

\* merge_bible_analysis, step 4: pairs of the analysis get its terms, where there
\* are none or no lock forbids it.
Enters(pairs) ==
  \E new \in SUBSET pairs, t \in Terms :
    map' = [p \in Pairs |-> IF p \in new THEN [terms |-> t, locked |-> FALSE] ELSE map[p]]

\* Create or affirm: a pair that was there when the Bible was loaded keeps its terms.
Merge ==
  /\ stage = "merge"
  /\ Enters({p \in Pairs : map[p] = Vacant})
  /\ Goto("reload")
  /\ UNCHANGED <<source, settings, passes, bible, suggested, pronouns, result, row,
                 sidecar, used>>

\* That load fails, which is logged: every pair counts as new.
MergeUnloaded ==
  /\ stage = "merge"
  /\ Uses("faults")
  /\ Enters({p \in Pairs : ~ map[p].locked})
  /\ Goto("reload")
  /\ UNCHANGED <<source, settings, passes, bible, suggested, pronouns, result, row, sidecar>>

MergeFails ==
  /\ stage = "merge"
  /\ Uses("faults")
  /\ Quarantines("quarantined")
  /\ UNCHANGED <<source, settings, slots, history, pronouns, result, sidecar>>

\* A row of relationship_event has no columns for the suggested terms: what is
\* loaded again has none.
AsLoaded(e) == [e EXCEPT !.terms = NoTerms]

\* The batches of Pass 2 are smaller, but hold the same cues in the same order.
Reload ==
  LET batches == Batches(source, settings.attrCues) IN
  /\ stage = "reload"
  /\ bible' = [map |-> map, events |-> {AsLoaded(e) : e \in suggested}]
  /\ IF ~ settings.attribution
     THEN Goto("reconcile") /\ UNCHANGED <<tasks, attributions>>
     ELSE IF settings.mode = "text"
     THEN /\ Goto("reconcile") /\ UNCHANGED tasks
          /\ attributions' = FlattenSeq([b \in DOMAIN batches |->
                                           Attributed(batches[b], <<>>)])
     ELSE Calls("attribute", batches, NoHints(batches)) /\ UNCHANGED attributions
  /\ UNCHANGED <<source, settings, slots, map, suggested, resolved, result, row,
                 sidecar, used>>

AllOk == \A t \in DOMAIN tasks : tasks[t].pc = "ok"
Results == [t \in DOMAIN tasks |-> tasks[t].answer]

AttributionsDone ==
  /\ stage = "attribute" /\ AllOk
  /\ attributions' = FlattenSeq(Results)
  /\ Goto("reconcile") /\ tasks' = <<>>
  /\ UNCHANGED <<source, settings, slots, history, resolved, result, row, sidecar, used>>

MyResolved ==
  Reconciled(bible.map, bible.events, settings.dated, attributions, settings.threshold)

\* The map is resolved from the Bible as loaded, and written back pair by pair.
Reconcile ==
  /\ stage = "reconcile"
  /\ resolved' = MyResolved
  /\ map' = Upserted(map, MyResolved, Written(MyResolved))
  /\ Goto("hints")
  /\ UNCHANGED <<source, settings, passes, bible, suggested, attributions, result, row,
                 sidecar, used>>

\* One of the writes fails: those before it stay, the run ends.
ReconcileFails ==
  /\ stage = "reconcile"
  /\ Uses("faults")
  /\ \E done \in SUBSET Written(MyResolved) : map' = Upserted(map, MyResolved, done)
  /\ Stops("failed")
  /\ UNCHANGED <<source, settings, slots, bible, suggested, pronouns, result, row, sidecar>>

DispatchTranslation ==
  /\ stage = "hints"
  /\ Calls("translate", MyBatches, HintsFor(MyBatches))
  /\ UNCHANGED <<source, settings, slots, history, pronouns, result, row, sidecar, used>>

\* Step 8, and on to the review or to the gate.
TranslationsDone ==
  LET doc == Assembled(source, Results)
      batches == Batches(source, settings.reviewCues)
  IN
  /\ stage = "translate" /\ AllOk
  /\ budget' = settings.repairs
  /\ IF settings.aware /\ settings.review
     THEN Calls("review", batches, NoHints(batches)) /\ lines' = doc
     ELSE Goto("gate") /\ tasks' = <<>> /\ lines' = Enveloped(source, doc)
  /\ UNCHANGED <<source, settings, slots, history, pronouns, row, sidecar, used>>

ReviewDone ==
  /\ stage = "review" /\ AllOk
  /\ lines' = Enveloped(source, Spliced(source, lines,
                                        [t \in DOMAIN tasks |-> tasks[t].cues], Results))
  /\ Goto("gate") /\ tasks' = <<>>
  /\ UNCHANGED <<source, settings, slots, history, pronouns, budget, row, sidecar, used>>

\* One task that raises has its siblings cancelled, which gives back their slots.
\* A batch that was given up quarantines the file; an error besides it, or by
\* itself, ends the job.
GroupFails ==
  LET raised == \E t \in DOMAIN tasks : tasks[t].pc = "raised"
      bad    == stage = "translate" /\ \E t \in DOMAIN tasks : tasks[t].pc = "bad"
  IN
  /\ stage \in {"analyze", "attribute", "translate", "repair"}
  /\ raised \/ bad
  /\ slots' = slots + Cardinality(Holding)
  /\ IF bad THEN Quarantines(IF raised THEN "failed" ELSE "quarantined")
     ELSE Stops("failed") /\ UNCHANGED row
  /\ UNCHANGED <<source, settings, history, pronouns, result, sidecar, used>>

-----------------------------------------------------------------------------
(* The gate, the repairs and the end. *)

Verdict_NoLeakChecks == Gate_NoLeakChecks(source, lines)
Verdict == Gate(source, lines)

GatePasses ==
  /\ stage = "gate" /\ Verdict = Passed
  /\ Goto("write")
  /\ UNCHANGED <<source, settings, passes, history, pronouns, result, row, sidecar, used>>

ToRepair  == RepairBatch(source, Fails(lines, Verdict))
CanRepair_NoBudget == Verdict \in Repairable /\ Fails(lines, Verdict) # {}
CanRepair == Verdict \in Repairable /\ Fails(lines, Verdict) # {} /\ budget > 0

\* The hints of a repair are looked up by the index in the document, although the
\* attributions leave out raw cues: behind one they are those of another cue.
RepairHints(batch) ==
  [k \in DOMAIN batch |->
     IF batch[k] \in DOMAIN attributions THEN HintOf(attributions[batch[k]]) ELSE 0]

Spent_Never(b) == b
Spent(b) == b - 1

GateRepairs ==
  /\ stage = "gate" /\ Verdict # Passed /\ CanRepair /\ ToRepair # <<>>
  /\ budget' = Spent(budget)
  /\ Calls("repair", <<ToRepair>>, <<RepairHints(ToRepair)>>)
  /\ UNCHANGED <<source, settings, slots, history, pronouns, lines, row, sidecar, used>>

GateQuarantines ==
  /\ stage = "gate" /\ Verdict # Passed /\ ~ (CanRepair /\ ToRepair # <<>>)
  /\ Quarantines("quarantined")
  /\ UNCHANGED <<source, settings, slots, history, pronouns, result, sidecar, used>>

\* A repair may lose the brackets again.
AfterRepair_NoEnvelope == Repaired(lines, tasks[1].cues, tasks[1].answer)
AfterRepair == Enveloped(source, Repaired(lines, tasks[1].cues, tasks[1].answer))

RepairDone ==
  /\ stage = "repair" /\ AllOk
  /\ lines' = AfterRepair
  /\ Goto("gate") /\ tasks' = <<>>
  /\ UNCHANGED <<source, settings, slots, history, pronouns, budget, row, sidecar, used>>

\* _repair_failing_cues returns None.
RepairMissed ==
  /\ stage = "repair" /\ tasks[1].pc = "bad"
  /\ Quarantines("quarantined")
  /\ UNCHANGED <<source, settings, slots, history, pronouns, result, sidecar, used>>

Write ==
  /\ stage = "write"
  /\ sidecar' = <<lines>>
  /\ Goto("finish")
  /\ UNCHANGED <<source, settings, passes, history, pronouns, result, row, used>>

Finish ==
  /\ stage = "finish"
  /\ row' = "done"
  /\ Stops("done")
  /\ UNCHANGED <<source, settings, slots, history, pronouns, result, sidecar, used>>

-----------------------------------------------------------------------------
(* What happens to a run from outside. *)

\* An exception that nothing in translate_file handles, or the job is cancelled.
Breaks ==
  /\ stage # "end"
  /\ Uses("faults")
  /\ Stops("failed")
  /\ slots' = slots + Cardinality(Holding)
  /\ UNCHANGED <<source, settings, history, pronouns, result, row, sidecar>>

\* A user edits the terms of a pair, which locks or unlocks them (PATCH), or
\* enters terms where no lock forbids it (POST).
UserEdits(p) ==
  /\ stage \in EditStages
  /\ Uses("edits")
  /\ \E t \in Terms, l \in BOOLEAN :
       /\ map[p] = Vacant => ~ l
       /\ map' = [map EXCEPT ![p] = [terms |-> t, locked |-> l]]
  /\ UNCHANGED <<source, settings, stage, passes, bible, suggested, pronouns, result,
                 disk>>

Answered(t) ==
  AnalyzeAnswered(t) \/ AttributeAnswered(t) \/ TranslateAnswered(t) \/ ReviewAnswered(t)

Call == \E t \in DOMAIN tasks : Acquire(t) \/ Answered(t)

Step ==
  \/ Claim \/ Open \/ OpenMechanical \/ Analyzed \/ Merge \/ Reload \/ AttributionsDone
  \/ Reconcile \/ DispatchTranslation \/ TranslationsDone \/ ReviewDone \/ GroupFails
  \/ GatePasses \/ GateRepairs \/ GateQuarantines \/ RepairDone \/ RepairMissed
  \/ Write \/ Finish

Fault ==
  \/ \E t \in DOMAIN tasks : CallFails(t)
  \/ Unreadable \/ MergeUnloaded \/ MergeFails \/ ReconcileFails \/ Breaks

Next == Step \/ Call \/ Fault \/ \E p \in Pairs : UserEdits(p)

Spec == Init /\ [][Next]_vars

\* The event loop runs what is ready, and a call returns or times out.
FairSpec == Spec /\ WF_vars(Step) /\ WF_vars(Call)

-----------------------------------------------------------------------------
(* Properties. *)

TypeOK ==
  /\ source \in Seq(Cue) /\ settings \in Settings
  /\ stage \in Stages
  /\ tasks \in Seq(Task)
  /\ slots \in 0..Limit
  /\ map \in [Pairs -> Entry \union {Vacant}]
  /\ bible.map \in [Pairs -> Entry \union {Vacant}]
  /\ suggested \subseteq Event /\ bible.events \subseteq Event
  /\ attributions \in Seq(Attribution)
  /\ lines \in Seq(Line) /\ sidecar \in Seq(Seq(Line))
  /\ budget \in 0..settings.repairs
  /\ row \in {"none", "in_progress", "quarantined", "done"}
  /\ outcome \in {"none", "done", "quarantined", "failed"}
  /\ outcome # "none" <=> stage = "end"

\* Through assembly, review and repair every line keeps its own cue's index, a
\* text that was made of its own cue, and what is raw stays verbatim (D-98, D-99).
OwnText ==
  lines # <<>> =>
    /\ Len(lines) = Len(source)
    /\ \A i \in DOMAIN lines : /\ lines[i].cue = i /\ lines[i].of = i
                               /\ source[i].raw <=> lines[i].text = "raw"

\* A cue of Pass 3 is hinted the pronouns of its own attribution, though the
\* batches of Pass 2 have other sizes and raw cues are in neither.
HintsOwn ==
  stage = "translate" =>
    \A t \in DOMAIN tasks : \A k \in DOMAIN tasks[t].hints :
      tasks[t].hints[k] \in {0, tasks[t].cues[k]}

\* A cue that is all brackets in the source is so in the sidecar, after a
\* review and after a repair too (step 8.6).
EnvelopesKept ==
  \A doc \in Range(sidecar), i \in DOMAIN source :
    source[i].enclosed /\ ~ source[i].raw => doc[i].wrapped

\* A slot of the semaphore is free or held by a call that is under way: no
\* error, fallback or cancellation loses one for the jobs to come.
SlotsAccounted == slots + Cardinality(Holding) = Limit

\* The run itself changes established terms of a pair only if the pair is not
\* locked, and then only for a relationship event of this episode that brings
\* terms, or if a user edited them since the run loaded the Bible: those are
\* written over with what they were (D-34, D-54).  The merge changes none, except
\* where its load of the Bible failed: the `safe degrade' of analyze.py:673 has the
\* inferred terms of this episode take the place of any that are not locked.
EstablishedTermsHold ==
  [][\A p \in Pairs :
       /\ Established(map[p]) /\ map'[p].terms # map[p].terms
       /\ used'.edits = used.edits
       => /\ ~ map[p].locked
          /\ \/ stage = "merge" /\ used'.faults > used.faults
             \/ stage # "merge" /\ \/ \E e \in Transitions(bible.events, p) : e.terms # NoTerms
                                   \/ map[p] # bible.map[p]]_vars

\* A run comes to its end: neither the semaphore, nor the correction loop, nor
\* the repairs can hold it for ever.
RunEnds == <>(stage = "end")

\* A run does what Translation promises: what is published has passed the gate
\* as it is published, after in_progress and before done.
T == INSTANCE Translation WITH
       sidecar <- IF sidecar = <<>> THEN "none"
                  ELSE IF Gate(source, sidecar[1]) = Passed THEN "passed" ELSE "unchecked"
Implements == T!Spec
=============================================================================
