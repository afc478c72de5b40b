----------------------------- MODULE LibraryProofs -----------------------------
(***************************************************************************)
(* For any priority list, any lanes and any bounds: a sidecar of ours is   *)
(* the output of a row, or of a source quarantined since; a source that    *)
(* counts as translated is translated as it is now; and a foreign sidecar  *)
(* that was there first is left alone.                                     *)
(***************************************************************************)
EXTENDS Library, FiniteSetTheorems, TLAPS

\* A lane has a run, of some source, or none.
RunsOK == \A l \in Lanes : run[l] = NoRun \/ (run[l].pc # "idle" /\ run[l].source \in Sources)

\* TypeOK with what keeps the versions within their bound.
Types ==
  /\ TypeOK
  /\ \A p \in Sources : version[p] <= used["writes"]
  /\ used["writes"] <= MaxWrites
  /\ RunsOK

\* A source has one job: it waits in one lane, or runs in one (D-66).
At(p, l) == <<p, l>> \in pending \/ run[l].source = p
OneJob ==
  \A p \in Sources, l, m \in Lanes :
    /\ At(p, l) /\ At(p, m) => l = m
    /\ ~ (<<p, l>> \in pending /\ run[l].source = p)

\* From step 4 to its end a run has the row of its source to itself.
Claimed(l) == run[l].pc \in {"read", "translate", "write", "finish"}
LedgerInv ==
  /\ \A p \in Sources : ledger[p].status = "none" => ledger[p] = NoRow
  /\ \A p \in Sources : ledger[p].status \in {"in_progress", "done"} => ledger[p].out
  /\ \A l \in Lanes : Claimed(l) => ledger[run[l].source].status = "in_progress"

\* The hash is taken first, the content is read later, and both exist by then.
RunHashes ==
  \A l \in Lanes :
    run[l] # NoRun =>
      /\ run[l].hash <= version[run[l].source]
      /\ run[l].content <= version[run[l].source]
      /\ run[l].pc \in {"translate", "write", "finish"} => run[l].hash <= run[l].content

\* What the sidecar was made from is no older than what the row says of it.
SidecarInv ==
  sidecar.from \in Sources =>
    /\ sidecar.version <= version[sidecar.from]
    /\ ledger[sidecar.from].status # "none"
    /\ ledger[sidecar.from].status = "done" => ledger[sidecar.from].hash <= sidecar.version
    /\ \A l \in Lanes :
         run[l].pc = "finish" /\ run[l].source = sidecar.from => run[l].hash <= sidecar.version

\* The inductive invariant.
IInv == Types /\ OneJob /\ LedgerInv /\ RunHashes /\ SidecarInv

-----------------------------------------------------------------------------
(* Types. *)

\* A bound that is used is one of Bounds, and stays a number.
LEMMA UsesType ==
  ASSUME Types, NEW b \in DOMAIN Bounds, Uses(b)
  PROVE  used' \in [DOMAIN Bounds -> Nat] /\ used' = [used EXCEPT ![b] = used[b] + 1]
BY DEF Types, TypeOK, Uses

\* The names of the bounds.
LEMMA BoundNames ==
  DOMAIN Bounds = {"writes", "foreign", "removals", "manual", "failures", "crashes"}
BY DEF Bounds

\* NoRun, NoRow and NoSidecar are values of their types.
LEMMA Nothings == NoRow \in Row /\ NoRun \in Run /\ NoSidecar \in Sidecar
BY LibraryAssumption DEF NoRow, Row, NoRun, Run, NoSidecar, Sidecar, Statuses, Versions, RunPc

\* The other programs keep the types; a write to a source is counted.
LEMMA EnvironmentTypes ==
  ASSUME Types, Environment
  PROVE  Types'
<1> USE BoundNames
<1>1. ASSUME NEW p \in Sources, SourceWritten(p) PROVE Types'
  <2>1. used' = [used EXCEPT !["writes"] = used["writes"] + 1] /\ used["writes"] < MaxWrites
    BY <1>1 DEF SourceWritten, Uses, Bounds
  <2>2. used' \in [DOMAIN Bounds -> Nat]
    BY <2>1 DEF Types, TypeOK
  <2>3. used["writes"] \in Nat /\ MaxWrites \in Nat /\ used'["writes"] = used["writes"] + 1
    BY <2>1, LibraryAssumption DEF Types, TypeOK
  <2>4. version' = [version EXCEPT ![p] = version[p] + 1]
    BY <1>1 DEF SourceWritten
  <2>5. \A q \in Sources : version'[q] \in Versions /\ version'[q] <= used'["writes"]
    BY <2>1, <2>3, <2>4 DEF Types, TypeOK, Versions
  <2>6. version' \in [Sources -> Versions]
    BY <2>4, <2>5 DEF Types, TypeOK
  <2>7. present' \in [Sources -> BOOLEAN]
    BY <1>1 DEF SourceWritten, Types, TypeOK
  <2> QED
    BY <1>1, <2>1, <2>2, <2>3, <2>5, <2>6, <2>7 DEF SourceWritten, Types, TypeOK, RunsOK
<1>2. ASSUME NEW p \in Sources, SourceRemoved(p) PROVE Types'
  <2>1. used' \in [DOMAIN Bounds -> Nat] /\ used'["writes"] = used["writes"]
    BY <1>2 DEF SourceRemoved, Uses, Types, TypeOK
  <2> QED BY <1>2, <2>1 DEF SourceRemoved, Types, TypeOK, RunsOK
<1>3. ASSUME ForeignWritten PROVE Types'
  <2>1. used' \in [DOMAIN Bounds -> Nat] /\ used'["writes"] = used["writes"]
    BY <1>3 DEF ForeignWritten, Uses, Types, TypeOK
  <2>2. sidecar' \in Sidecar
    BY <1>3, LibraryAssumption DEF ForeignWritten, Sidecar, Versions
  <2> QED BY <1>3, <2>1, <2>2 DEF ForeignWritten, Types, TypeOK, RunsOK
<1>4. ASSUME SidecarRemoved PROVE Types'
  <2>1. used' \in [DOMAIN Bounds -> Nat] /\ used'["writes"] = used["writes"]
    BY <1>4 DEF SidecarRemoved, Uses, Types, TypeOK
  <2> QED BY <1>4, <2>1, Nothings DEF SidecarRemoved, Types, TypeOK, RunsOK
<1> QED BY <1>1, <1>2, <1>3, <1>4 DEF Environment

\* A lane whose run becomes NoRun, or goes on with the source it has.
LEMMA RunTypes ==
  ASSUME Types, NEW l \in Lanes, NEW new \in Run, RunBecomes(l, new),
         new = NoRun \/ (new.pc # "idle" /\ new.source \in Sources)
  PROVE  run' \in [Lanes -> Run] /\ RunsOK'
BY DEF Types, TypeOK, RunsOK, RunBecomes

\* A run that has begun is one of a source.
LEMMA Running ==
  ASSUME Types, NEW l \in Lanes, run[l].pc # "idle"
  PROVE  run[l] \in Run /\ run[l].source \in Sources /\ run[l] # NoRun
BY DEF Types, TypeOK, RunsOK, NoRun

\* The steps of a run keep the types.
LEMMA TranslateTypes ==
  ASSUME Types, NEW l \in Lanes, Translate(l) \/ Error(l)
  PROVE  Types'
<1> USE BoundNames DEF Types
<1>1. CASE Begin(l)
  <2>1. PICK p \in Sources : Begin(l)!(p)
    BY <1>1 DEF Begin
  <2>2. [NoRun EXCEPT !.pc = "check", !.source = p, !.hash = version[p]] \in Run
    BY Nothings DEF NoRun, Run, RunPc, TypeOK
  <2>3. run' \in [Lanes -> Run] /\ RunsOK'
    BY <2>1, <2>2, Nothings, RunTypes DEF NoRun
  <2> QED BY <2>1, <2>3 DEF TypeOK
<1>2. CASE Check(l)
  <2>1. run[l] \in Run /\ run[l].source \in Sources
    BY <1>2, Running DEF Check
  <2>2. [run[l] EXCEPT !.pc = "decide", !.entry = ledger[run[l].source]] \in Run
    BY <2>1 DEF Run, RunPc, TypeOK
  <2>3. run' \in [Lanes -> Run] /\ RunsOK'
    BY <1>2, <2>1, <2>2, RunTypes DEF Check, Run
  <2> QED BY <1>2, <2>3 DEF Check, TypeOK
<1>3. CASE Decide(l)
  <2>1. run[l] \in Run /\ run[l].source \in Sources
    BY <1>3, Running DEF Decide
  <2>2. run' \in [Lanes -> Run] /\ RunsOK'
    BY <1>3, <2>1, RunTypes, Nothings DEF Decide, Run, RunPc
  <2> QED BY <1>3, <2>2 DEF Decide, TypeOK
<1>4. CASE Prior(l)
  <2>1. run[l] \in Run /\ run[l].source \in Sources
    BY <1>4, Running DEF Prior
  <2>2. run' \in [Lanes -> Run] /\ RunsOK'
    BY <1>4, <2>1, RunTypes, Nothings DEF Prior, Run, RunPc
  <2> QED BY <1>4, <2>2 DEF Prior, TypeOK
<1>5. CASE Start(l)
  <2>1. run[l] \in Run /\ run[l].source \in Sources
    BY <1>5, Running DEF Start
  <2>2. run' \in [Lanes -> Run] /\ RunsOK'
    BY <1>5, <2>1, RunTypes DEF Start, Run, RunPc
  <2>3. ledger' \in [Sources -> Row]
    BY <1>5, <2>1 DEF Start, RecordInProgress, Record, TypeOK, Row, Run, Statuses
  <2> QED BY <1>5, <2>2, <2>3 DEF Start, TypeOK
<1>6. CASE Read(l)
  <2>1. run[l] \in Run /\ run[l].source \in Sources
    BY <1>6, Running DEF Read
  <2>2. version[run[l].source] \in Versions
    BY <2>1 DEF TypeOK
  <2>3. run' \in [Lanes -> Run] /\ RunsOK'
    BY <1>6, <2>1, <2>2, RunTypes DEF Read, Run, RunPc
  <2> QED BY <1>6, <2>3 DEF Read, TypeOK
<1>7. CASE Quarantine(l)
  <2>1. run[l] \in Run /\ run[l].source \in Sources
    BY <1>7, Running DEF Quarantine
  <2>2. run' \in [Lanes -> Run] /\ RunsOK'
    BY <1>7, RunTypes, Nothings DEF Quarantine
  <2>3. ledger' \in [Sources -> Row]
    BY <1>7, <2>1 DEF Quarantine, QuarantineRow, Record, TypeOK, Row, Run, Statuses
  <2>4. used' \in [DOMAIN Bounds -> Nat] /\ used'["writes"] = used["writes"]
    BY <1>7 DEF Quarantine, Uses, TypeOK
  <2> QED BY <1>7, <2>2, <2>3, <2>4 DEF Quarantine, TypeOK
<1>8. CASE Translated(l)
  <2>1. run[l] \in Run /\ run[l].source \in Sources
    BY <1>8, Running DEF Translated
  <2>2. run' \in [Lanes -> Run] /\ RunsOK'
    BY <1>8, <2>1, RunTypes DEF Translated, Run, RunPc
  <2> QED BY <1>8, <2>2 DEF Translated, TypeOK
<1>9. CASE Write(l)
  <2>1. run[l] \in Run /\ run[l].source \in Sources
    BY <1>9, Running DEF Write
  <2>2. run' \in [Lanes -> Run] /\ RunsOK'
    BY <1>9, <2>1, RunTypes DEF Write, Run, RunPc
  <2>3. sidecar' \in Sidecar
    BY <1>9, <2>1 DEF Write, Sidecar, Run
  <2> QED BY <1>9, <2>2, <2>3 DEF Write, TypeOK
<1>10. CASE Finish(l)
  <2>1. run[l] \in Run /\ run[l].source \in Sources
    BY <1>10, Running DEF Finish
  <2>2. run' \in [Lanes -> Run] /\ RunsOK'
    BY <1>10, RunTypes, Nothings DEF Finish
  <2>3. ledger' \in [Sources -> Row]
    BY <1>10, <2>1 DEF Finish, DoneHash, Record, TypeOK, Row, Run, Statuses
  <2> QED BY <1>10, <2>2, <2>3 DEF Finish, TypeOK
<1>11. CASE Error(l)
  <2>1. run' \in [Lanes -> Run] /\ RunsOK'
    BY <1>11, RunTypes, Nothings DEF Error
  <2>2. used' \in [DOMAIN Bounds -> Nat] /\ used'["writes"] = used["writes"]
    BY <1>11 DEF Error, Uses, TypeOK
  <2> QED BY <1>11, <2>1, <2>2 DEF Error, TypeOK
<1> QED
  BY <1>1, <1>2, <1>3, <1>4, <1>5, <1>6, <1>7, <1>8, <1>9, <1>10, <1>11 DEF Translate

\* Every step keeps the types.
LEMMA TypesKept ==
  ASSUME Types, [Next]_vars
  PROVE  Types'
<1> USE BoundNames
<1>1. CASE Sweep \/ SweepAborts
  <2>1. pending' \subseteq Sources \X Lanes
    BY <1>1, LibraryAssumption DEF Sweep, SweepAborts, Types, TypeOK
  <2>2. aborted' \in BOOLEAN /\ UNCHANGED <<version, present, sidecar, ledger, run, used>>
    BY <1>1 DEF Sweep, SweepAborts, Types, TypeOK
  <2> QED BY <2>1, <2>2 DEF Types, TypeOK, RunsOK
<1>2. ASSUME NEW p \in Sources, Manual(p) PROVE Types'
  <2>1. used' \in [DOMAIN Bounds -> Nat] /\ used'["writes"] = used["writes"]
    BY <1>2 DEF Manual, Uses, Types, TypeOK
  <2> QED BY <1>2, <2>1 DEF Manual, Types, TypeOK, RunsOK
<1>3. CASE Crash
  <2>1. used' \in [DOMAIN Bounds -> Nat] /\ used'["writes"] = used["writes"]
    BY <1>3 DEF Crash, Uses, Types, TypeOK
  <2>2. run' \in [Lanes -> Run] /\ RunsOK'
    BY <1>3, Nothings DEF Crash, RunsOK
  <2>3. pending' \subseteq Sources \X Lanes
    BY <1>3 DEF Crash, Types, TypeOK, RunsOK
  <2> QED BY <1>3, <2>1, <2>2, <2>3 DEF Crash, Types, TypeOK
<1>4. CASE UNCHANGED vars
  BY <1>4 DEF vars, Types, TypeOK, RunsOK
<1> QED
  BY <1>1, <1>2, <1>3, <1>4, EnvironmentTypes, TranslateTypes DEF Next

-----------------------------------------------------------------------------
(* One job for each source. *)

\* A job is where it was, a step before, unless a sweep or a request queued it
\* while there was none.
LEMMA OneJobKept ==
  ASSUME Types, OneJob, [Next]_vars
  PROVE  OneJob'
<1>0. \A l \in Lanes : run[l] = NoRun => run[l].source \notin Sources
  BY LibraryAssumption DEF NoRun
<1>1. ASSUME UNCHANGED <<pending, run>> PROVE OneJob'
  BY <1>1 DEF OneJob, At
<1>2. ASSUME NEW p \in Sources, NEW l \in Lanes, ~ Active(p),
             pending' = pending \union {<<p, l>>}, UNCHANGED run
      PROVE  OneJob'
  BY <1>2 DEF OneJob, At, Active
<1>3. CASE Sweep
  BY <1>2, <1>3, LibraryAssumption DEF Sweep
<1>4. ASSUME NEW p \in Sources, Manual(p) PROVE OneJob'
  BY <1>2, <1>4 DEF Manual
<1>5. ASSUME NEW l \in Lanes, NEW new, RunBecomes(l, new), UNCHANGED pending,
             new.source = run[l].source \/ new.source \notin Sources
      PROVE  OneJob'
  <2>1. run' = [run EXCEPT ![l] = new] /\ l \in DOMAIN run
    BY <1>5 DEF RunBecomes, Types, TypeOK
  <2>2. \A p \in Sources, m \in Lanes : run'[m].source = p => run[m].source = p
    BY <1>5, <2>1
  <2> QED BY <1>5, <2>2 DEF OneJob, At
<1>6. ASSUME NEW l \in Lanes, Begin(l) PROVE OneJob'
  <2>1. PICK p \in Sources : Begin(l)!(p)
    BY <1>6 DEF Begin
  <2>2. run'[l].source \in {p, Nobody} /\ \A m \in Lanes \ {l} : run'[m] = run[m]
    <3>1. l \in DOMAIN run /\ NoRun.source = Nobody
      BY DEF NoRun, Types, TypeOK
    <3> QED BY <2>1, <3>1 DEF RunBecomes, NoRun
  <2>3. Nobody \notin Sources /\ run[l].source \notin Sources
    BY <1>0, <2>1, LibraryAssumption
  <2>4. pending' = pending \ {<<p, l>>} /\ <<p, l>> \in pending
    BY <2>1
  <2>5. \A q \in Sources, m \in Lanes : At(q, m)' => At(q, m)
    BY <2>2, <2>3, <2>4 DEF At
  <2>6. \A q \in Sources, m \in Lanes :
          <<q, m>> \in pending' => <<q, m>> \in pending /\ run'[m].source # q
    BY <2>2, <2>3, <2>4 DEF OneJob
  <2> QED BY <2>5, <2>6 DEF OneJob
<1>7. ASSUME NEW l \in Lanes, Check(l) \/ Decide(l) \/ Prior(l) \/ Start(l) \/ Read(l)
                              \/ Quarantine(l) \/ Translated(l) \/ Write(l) \/ Finish(l)
                              \/ Error(l)
      PROVE  OneJob'
  <2>1. run[l] \in Run
    BY DEF Types, TypeOK
  <2>2. PICK new : RunBecomes(l, new) /\ new.source \in {run[l].source, Nobody}
    <3>0. \A pc : [run[l] EXCEPT !.pc = pc].source = run[l].source
      BY <2>1 DEF Run
    <3>1. NoRun.source = Nobody
      BY DEF NoRun
    <3>2. CASE Check(l)
      <4> DEFINE new == [run[l] EXCEPT !.pc = "decide", !.entry = ledger[run[l].source]]
      <4>1. new.source = run[l].source
        BY <2>1 DEF Run
      <4>2. RunBecomes(l, new)
        BY <3>2 DEF Check
      <4> HIDE DEF new
      <4> QED BY <4>1, <4>2
    <3>3. CASE Decide(l)
      BY <3>0, <3>1, <3>3 DEF Decide
    <3>4. CASE Prior(l)
      BY <3>0, <3>1, <3>4 DEF Prior
    <3>5. CASE Start(l)
      BY <3>0, <3>5, Zenon DEF Start
    <3>8. CASE Read(l)
      <4> DEFINE new == [run[l] EXCEPT !.pc = "translate", !.content = version[run[l].source]]
      <4>1. new.source = run[l].source
        BY <2>1 DEF Run
      <4>2. RunBecomes(l, new)
        BY <3>8 DEF Read
      <4> HIDE DEF new
      <4> QED BY <4>1, <4>2
    <3>6. CASE Translated(l) \/ Write(l)
      BY <3>0, <3>6 DEF Translated, Write
    <3>7. CASE Quarantine(l) \/ Finish(l) \/ Error(l)
      BY <3>1, <3>7 DEF Quarantine, Finish, Error
    <3> QED BY <1>7, <3>2, <3>3, <3>4, <3>5, <3>6, <3>7, <3>8
  <2>3. UNCHANGED pending
    BY <1>7 DEF Check, Decide, Prior, Start, Read, Quarantine, Translated, Write,
       Finish, Error
  <2> QED BY <1>5, <2>2, <2>3, LibraryAssumption
<1>8. CASE Crash
  <2>1. \A l \in Lanes : run'[l].source \notin Sources
    BY <1>8, LibraryAssumption DEF Crash, NoRun
  <2>2. \A p \in Sources, l \in Lanes :
          <<p, l>> \in pending' => <<p, l>> \in pending \/ run[l].source = p
    BY <1>8 DEF Crash
  <2>3. \A p \in Sources, l \in Lanes : At(p, l)' => At(p, l)
    BY <2>1, <2>2 DEF At
  <2> QED BY <2>1, <2>3 DEF OneJob
<1> QED
  BY <1>1, <1>3, <1>4, <1>6, <1>7, <1>8 DEF Next, vars, Environment, Translate,
     SourceWritten, SourceRemoved, ForeignWritten, SidecarRemoved, SweepAborts

-----------------------------------------------------------------------------
(* Rows, hashes and the sidecar. *)

\* A source runs in one lane only.
LEMMA OneLane ==
  ASSUME Types, OneJob, NEW l \in Lanes, NEW m \in Lanes, run[l].pc # "idle",
         run[l].source = run[m].source
  PROVE  l = m
BY Running DEF OneJob, At

\* A step of a run after its first leaves the other lanes alone.  The run ends,
\* or goes on with source, hash and content, but for the content that is read.
LEMMA RunSteps ==
  ASSUME Types, NEW l \in Lanes,
         Check(l) \/ Decide(l) \/ Prior(l) \/ Start(l) \/ Quarantine(l)
           \/ Translated(l) \/ Write(l) \/ Finish(l) \/ Error(l)
  PROVE  /\ run[l].pc # "idle" /\ run[l] # NoRun
         /\ \A m \in Lanes \ {l} : run'[m] = run[m]
         /\ \/ run'[l] = NoRun
            \/ /\ run'[l].source = run[l].source
               /\ run'[l].hash = run[l].hash /\ run'[l].content = run[l].content
               /\ run'[l].pc \in {"translate", "write", "finish"}
                    => run[l].pc \in {"translate", "write", "finish"}
               /\ Start(l) \/ (Claimed(l)' => Claimed(l))
<1>1. run[l] \in Run /\ run \in [Lanes -> Run]
  BY DEF Types, TypeOK
<1>2. run[l].pc # "idle" /\ run[l] # NoRun
  BY Running DEF Check, Decide, Prior, Start, Quarantine, Translated, Write, Finish, Error
<1>3. CASE Check(l) BY <1>1, <1>2, <1>3 DEF Check, RunBecomes, Run, Claimed
<1>4. CASE Decide(l) BY <1>1, <1>2, <1>4 DEF Decide, RunBecomes, Run, Claimed
<1>5. CASE Prior(l) BY <1>1, <1>2, <1>5 DEF Prior, RunBecomes, Run, Claimed
<1>6. CASE Start(l) BY <1>1, <1>2, <1>6 DEF Start, RunBecomes, Run
<1>7. CASE Quarantine(l) BY <1>1, <1>2, <1>7 DEF Quarantine, RunBecomes
<1>8. CASE Translated(l) BY <1>1, <1>2, <1>8 DEF Translated, RunBecomes, Run, Claimed
<1>9. CASE Write(l) BY <1>1, <1>2, <1>9 DEF Write, RunBecomes, Run, Claimed
<1>10. CASE Finish(l) BY <1>1, <1>2, <1>10 DEF Finish, RunBecomes
<1>11. CASE Error(l) BY <1>1, <1>2, <1>11 DEF Error, RunBecomes
<1> QED
  BY <1>3, <1>4, <1>5, <1>6, <1>7, <1>8, <1>9, <1>10, <1>11

\* The row of a source that a run has claimed is changed by that run alone.
LEMMA LedgerKept ==
  ASSUME Types, OneJob, LedgerInv, [Next]_vars
  PROVE  LedgerInv'
<1>1. ASSUME UNCHANGED ledger,
             \A l \in Lanes : Claimed(l)' => Claimed(l) /\ run'[l].source = run[l].source
      PROVE  LedgerInv'
  BY <1>1 DEF LedgerInv
<1>2. ASSUME NEW l \in Lanes, Begin(l) \/ Check(l) \/ Decide(l) \/ Prior(l) \/ Read(l)
                              \/ Translated(l) \/ Write(l) \/ Error(l)
      PROVE  LedgerInv'
  <2>1. UNCHANGED ledger
    BY <1>2 DEF Begin, Check, Decide, Prior, Read, Translated, Write, Error
  <2>2. CASE Begin(l)
    <3>1. PICK p \in Sources : Begin(l)!(p)
      BY <2>2 DEF Begin
    <3>2. ~ Claimed(l)' /\ \A m \in Lanes \ {l} : run'[m] = run[m]
      BY <3>1 DEF RunBecomes, NoRun, Claimed, Types, TypeOK
    <3> QED BY <1>1, <2>1, <3>2 DEF Claimed
  <2>3. CASE Read(l)
    <3>1. run[l] \in Run /\ run \in [Lanes -> Run]
      BY DEF Types, TypeOK
    <3>2. Claimed(l) /\ run'[l].source = run[l].source
          /\ \A m \in Lanes \ {l} : run'[m] = run[m]
      BY <2>3, <3>1 DEF Read, RunBecomes, Claimed, Run
    <3> QED BY <1>1, <2>1, <3>2 DEF Claimed
  <2>4. CASE Check(l) \/ Decide(l) \/ Prior(l) \/ Translated(l) \/ Write(l)
    <3>1. ~ Start(l)
      BY <2>4 DEF Check, Decide, Prior, Translated, Write, Start
    <3>2. /\ \A m \in Lanes \ {l} : run'[m] = run[m]
          /\ run'[l] = NoRun \/ ((Claimed(l)' => Claimed(l)) /\ run'[l].source = run[l].source)
      BY <2>4, <3>1, RunSteps
    <3>3. run'[l] = NoRun => ~ Claimed(l)'
      BY DEF NoRun, Claimed
    <3> QED BY <1>1, <2>1, <3>2, <3>3 DEF Claimed
  <2>5. CASE Error(l)
    <3>1. ~ Claimed(l)' /\ \A m \in Lanes \ {l} : run'[m] = run[m]
      BY <2>5 DEF Error, RunBecomes, NoRun, Claimed, Types, TypeOK
    <3> QED BY <1>1, <2>1, <3>1 DEF Claimed
  <2> QED BY <1>2, <2>2, <2>3, <2>4, <2>5
<1>3. ASSUME NEW l \in Lanes, NEW row, NEW new,
             run[l].pc # "idle", RunBecomes(l, new), Record(run[l].source, row),
             row.status # "none", row.status \in {"in_progress", "done"} => row.out,
             new.pc = "idle" \/ (row.status = "in_progress" /\ new.source = run[l].source)
      PROVE  LedgerInv'
  <2>1. \A p \in Sources : ledger'[p] = IF p = run[l].source THEN row ELSE ledger[p]
    BY <1>3 DEF Record, Types, TypeOK
  <2>2. \A m \in Lanes : run'[m] = IF m = l THEN new ELSE run[m]
    BY <1>3 DEF RunBecomes, Types, TypeOK
  <2>3. ASSUME NEW m \in Lanes, Claimed(m)'
        PROVE  ledger'[run'[m].source].status = "in_progress"
    <3>1. CASE m = l
      BY <1>3, <2>1, <2>2, <2>3, <3>1, Running DEF Claimed
    <3>2. CASE m # l
      <4>1. run'[m] = run[m] /\ Claimed(m)
        BY <2>2, <2>3, <3>2 DEF Claimed
      <4>2. run[m].source \in Sources
        BY <4>1, Running DEF Claimed
      <4>3. run[m].source # run[l].source
        BY <1>3, <3>2, OneLane
      <4> QED BY <2>1, <4>1, <4>2, <4>3 DEF LedgerInv
    <3> QED BY <3>1, <3>2
  <2> QED BY <1>3, <2>1, <2>3 DEF LedgerInv
<1>4. ASSUME NEW l \in Lanes, Start(l) PROVE LedgerInv'
  <2>1. run[l] \in Run
    BY DEF Types, TypeOK
  <2> QED BY <1>3, <1>4, <2>1 DEF Start, RecordInProgress, Run
<1>5. ASSUME NEW l \in Lanes, Quarantine(l) \/ Finish(l) PROVE LedgerInv'
  BY <1>3, <1>5 DEF Quarantine, QuarantineRow, Finish, NoRun
<1>6. CASE Crash
  <2>1. \A l \in Lanes : ~ Claimed(l)'
    BY <1>6 DEF Crash, Claimed, NoRun
  <2> QED BY <1>1, <1>6, <2>1 DEF Crash
<1>7. CASE UNCHANGED <<ledger, run>>
  BY <1>1, <1>7 DEF Claimed
<1> QED
  BY <1>2, <1>4, <1>5, <1>6, <1>7 DEF Next, vars, Environment, Translate, SourceWritten,
     SourceRemoved, ForeignWritten, SidecarRemoved, Sweep, SweepAborts, Manual

\* A source file never goes back to an older content.
LEMMA VersionsGrow ==
  ASSUME Types, [Next]_vars
  PROVE  \A p \in Sources : version[p] <= version'[p] /\ version[p] \in Nat
<1>1. \A p \in Sources : version[p] \in Nat
  BY LibraryAssumption DEF Types, TypeOK, Versions
<1>2. ASSUME NEW q \in Sources, SourceWritten(q)
      PROVE  \A p \in Sources : version[p] <= version'[p]
  BY <1>1, <1>2 DEF SourceWritten, Types, TypeOK
<1>3. CASE UNCHANGED version
  BY <1>1, <1>3
<1> QED
  BY <1>1, <1>2, <1>3 DEF Next, vars, Environment, Translate, SourceRemoved,
     ForeignWritten, SidecarRemoved, Sweep, SweepAborts, Manual, Begin, Check, Decide,
     Prior, Start, Read, Quarantine, Translated, Write, Finish, Error, Crash

\* Hash and content of a run are versions of its source, in the order they were read.
LEMMA RunHashesKept ==
  ASSUME Types, RunHashes, [Next]_vars
  PROVE  RunHashes'
<1>0. \A p \in Sources : /\ version[p] \in Nat /\ version'[p] \in Nat
                         /\ version[p] <= version'[p]
  BY VersionsGrow, TypesKept, LibraryAssumption DEF Types, TypeOK, Versions
<1>1. \A l \in Lanes : run[l] \in Run /\ run[l].hash \in Nat /\ run[l].content \in Nat
  BY LibraryAssumption DEF Types, TypeOK, Run, Versions
<1>2. ASSUME NEW l \in Lanes, run[l] # NoRun
      PROVE  /\ run[l].source \in Sources
             /\ run[l].hash <= version'[run[l].source]
             /\ run[l].content <= version'[run[l].source]
  BY <1>0, <1>1, <1>2 DEF RunHashes, Types, RunsOK
<1>3. CASE UNCHANGED run
  BY <1>2, <1>3 DEF RunHashes
<1>4. ASSUME NEW l \in Lanes, NEW new, RunBecomes(l, new),
             new # NoRun =>
               /\ new.hash <= version'[new.source] /\ new.content <= version'[new.source]
               /\ new.pc \in {"translate", "write", "finish"} => new.hash <= new.content
      PROVE  RunHashes'
  <2>1. \A m \in Lanes : run'[m] = IF m = l THEN new ELSE run[m]
    BY <1>4 DEF RunBecomes, Types, TypeOK
  <2> QED BY <1>2, <1>4, <2>1 DEF RunHashes
<1>5. ASSUME NEW l \in Lanes, Begin(l) PROVE RunHashes'
  <2>1. PICK p \in Sources : Begin(l)!(p)
    BY <1>5 DEF Begin
  <2>2. version'[p] = version[p]
    BY <2>1
  <2> DEFINE new == [NoRun EXCEPT !.pc = "check", !.source = p, !.hash = version[p]]
  <2>3. new.source = p /\ new.hash = version[p] /\ new.content = 0 /\ new.pc = "check"
    BY DEF NoRun
  <2>4. RunBecomes(l, new) \/ RunBecomes(l, NoRun)
    BY <2>1
  <2> HIDE DEF new
  <2> QED BY <1>0, <1>4, <2>2, <2>3, <2>4
<1>6. ASSUME NEW l \in Lanes, Check(l) \/ Decide(l) \/ Prior(l) \/ Start(l) \/ Quarantine(l)
                              \/ Translated(l) \/ Write(l) \/ Finish(l) \/ Error(l)
      PROVE  RunHashes'
  <2>1. /\ run[l] # NoRun /\ \A m \in Lanes \ {l} : run'[m] = run[m]
        /\ \/ run'[l] = NoRun
           \/ /\ run'[l].source = run[l].source
              /\ run'[l].hash = run[l].hash /\ run'[l].content = run[l].content
              /\ run'[l].pc \in {"translate", "write", "finish"}
                   => run[l].pc \in {"translate", "write", "finish"}
    BY <1>6, RunSteps
  <2> QED BY <1>2, <2>1 DEF RunHashes
<1>7. ASSUME NEW l \in Lanes, Read(l) PROVE RunHashes'
  <2>1. run[l] \in Run /\ run[l] # NoRun /\ run[l].source \in Sources
    BY <1>7, Running DEF Read
  <2> DEFINE new == [run[l] EXCEPT !.pc = "translate", !.content = version[run[l].source]]
  <2>2. new.source = run[l].source /\ new.hash = run[l].hash
        /\ new.content = version[run[l].source]
    BY <2>1 DEF Run
  <2>3. RunBecomes(l, new) /\ UNCHANGED version
    BY <1>7 DEF Read
  <2> HIDE DEF new
  <2>4. new.hash <= new.content /\ new.hash <= version'[new.source]
        /\ new.content <= version'[new.source]
    BY <1>0, <2>1, <2>2, <2>3 DEF RunHashes
  <2> QED BY <1>4, <2>3, <2>4
<1>8. CASE Crash
  BY <1>8 DEF Crash, RunHashes
<1> QED
  BY <1>3, <1>5, <1>6, <1>7, <1>8 DEF Next, vars, Environment, Translate, SourceWritten,
     SourceRemoved, ForeignWritten, SidecarRemoved, Sweep, SweepAborts, Manual

\* A sidecar of ours, a row that knows it, and the run that has just written it.
LEMMA SidecarKept ==
  ASSUME Types, OneJob, LedgerInv, RunHashes, SidecarInv, [Next]_vars
  PROVE  SidecarInv'
<1>0. \A p \in Sources : version[p] \in Nat /\ version'[p] \in Nat /\ version[p] <= version'[p]
  BY VersionsGrow, TypesKept, LibraryAssumption DEF Types, TypeOK, Versions
<1>1. sidecar.version \in Nat /\ \A l \in Lanes : run[l] \in Run /\ run[l].hash \in Nat
  BY LibraryAssumption DEF Types, TypeOK, Sidecar, Run, Versions
<1>2. ASSUME sidecar'.from \notin Sources PROVE SidecarInv'
  BY <1>2 DEF SidecarInv
<1>3. ASSUME UNCHANGED <<sidecar, ledger>>,
             \A l \in Lanes : run'[l].pc = "finish" => run'[l] = run[l]
      PROVE  SidecarInv'
  BY <1>0, <1>1, <1>3 DEF SidecarInv
<1>4. ASSUME NEW l \in Lanes, Write(l) PROVE SidecarInv'
  <2>1. /\ run[l] \in Run /\ run[l].source \in Sources /\ run[l] # NoRun
        /\ run[l].pc = "write"
    BY <1>4, Running DEF Write
  <2>2. sidecar'.from = run[l].source /\ sidecar'.version = run[l].content
    BY <1>4 DEF Write
  <2>3. run[l].content <= version[run[l].source] /\ run[l].hash <= run[l].content
    BY <2>1 DEF RunHashes
  <2>4. ledger' = ledger /\ version' = version /\ ledger[run[l].source].status = "in_progress"
    BY <1>4, <2>1 DEF Write, LedgerInv, Claimed
  <2>5. ASSUME NEW m \in Lanes, run'[m].pc = "finish", run'[m].source = sidecar'.from
        PROVE  run'[m].hash <= sidecar'.version
    <3>1. CASE m = l
      <4>1. run'[m].hash = run[l].hash
        BY <1>4, <2>1, <3>1 DEF Write, RunBecomes, Run, Types, TypeOK
      <4> QED BY <2>2, <2>3, <4>1
    <3>2. CASE m # l
      <4>1. run'[m] = run[m]
        BY <1>4, <3>2 DEF Write, RunBecomes, Types, TypeOK
      <4>2. run[m].source = run[l].source
        BY <2>2, <2>5, <4>1
      <4> QED BY <2>1, <3>2, <4>2, OneLane
    <3> QED BY <3>1, <3>2
  <2> QED BY <2>2, <2>3, <2>4, <2>5 DEF SidecarInv
<1>5. ASSUME NEW l \in Lanes, Finish(l) PROVE SidecarInv'
  <2>1. run[l].source \in Sources /\ run[l].pc = "finish"
    BY <1>5, Running DEF Finish
  <2>2. sidecar' = sidecar /\ version' = version
    BY <1>5 DEF Finish
  <2>3. \A p \in Sources :
          ledger'[p] = IF p = run[l].source
                       THEN [status |-> "done", hash |-> run[l].hash, out |-> TRUE]
                       ELSE ledger[p]
    BY <1>5 DEF Finish, DoneHash, Record, Types, TypeOK
  <2>4. \A m \in Lanes : run'[m] = IF m = l THEN NoRun ELSE run[m]
    BY <1>5 DEF Finish, RunBecomes, Types, TypeOK
  <2>5. \A m \in Lanes : run'[m].pc = "finish" => run'[m] = run[m]
    BY <2>4 DEF NoRun
  <2> QED BY <2>1, <2>2, <2>3, <2>5 DEF SidecarInv
<1>6. ASSUME NEW l \in Lanes, Start(l) \/ Quarantine(l) PROVE SidecarInv'
  <2>1. run[l].source \in Sources /\ run[l].pc # "finish" /\ run[l] \in Run
    BY <1>1, <1>6, Running DEF Start, Quarantine
  <2>2. sidecar' = sidecar /\ version' = version
    BY <1>6 DEF Start, Quarantine
  <2>3. PICK row : Record(run[l].source, row) /\ row.status \in {"in_progress", "quarantined"}
    BY <1>6 DEF Start, RecordInProgress, Quarantine, QuarantineRow
  <2>4. \A p \in Sources : ledger'[p] = IF p = run[l].source THEN row ELSE ledger[p]
    BY <2>3 DEF Record, Types, TypeOK
  <2>5. \A m \in Lanes : m # l => run'[m] = run[m]
    BY <1>6 DEF Start, Quarantine, RunBecomes, Types, TypeOK
  <2>6. run'[l].pc # "finish"
    BY <1>6, <2>1 DEF Start, Quarantine, RunBecomes, NoRun, Run, Types, TypeOK
  <2> QED BY <2>1, <2>2, <2>3, <2>4, <2>5, <2>6 DEF SidecarInv
<1>7. ASSUME NEW l \in Lanes, Begin(l) \/ Check(l) \/ Decide(l) \/ Prior(l) \/ Read(l)
                              \/ Translated(l) \/ Error(l)
      PROVE  SidecarInv'
  <2>1. UNCHANGED <<sidecar, ledger>>
    BY <1>7 DEF Begin, Check, Decide, Prior, Read, Translated, Error
  <2>2. \A m \in Lanes : m # l => run'[m] = run[m]
    BY <1>7 DEF Begin, Check, Decide, Prior, Read, Translated, Error, RunBecomes,
       Types, TypeOK
  <2>3. run'[l].pc # "finish"
    <3>1. CASE Begin(l) BY <3>1 DEF Begin, RunBecomes, NoRun, Types, TypeOK
    <3>2. run[l] \in Run /\ run \in [Lanes -> Run]
      BY DEF Types, TypeOK
    <3>3. NoRun.pc # "finish"
      BY DEF NoRun
    <3>4. CASE Check(l) BY <3>2, <3>4 DEF Check, RunBecomes, Run
    <3>5. CASE Decide(l) BY <3>2, <3>3, <3>5 DEF Decide, RunBecomes, Run
    <3>6. CASE Prior(l) BY <3>2, <3>3, <3>6 DEF Prior, RunBecomes, Run
    <3>7. CASE Read(l) BY <3>2, <3>7 DEF Read, RunBecomes, Run
    <3>8. CASE Translated(l) BY <3>2, <3>8 DEF Translated, RunBecomes, Run
    <3>9. CASE Error(l) BY <3>2, <3>3, <3>9 DEF Error, RunBecomes
    <3> QED BY <1>7, <3>1, <3>4, <3>5, <3>6, <3>7, <3>8, <3>9
  <2> QED BY <1>3, <2>1, <2>2, <2>3
<1>8. CASE Crash
  <2>1. \A l \in Lanes : run'[l].pc # "finish"
    BY <1>8 DEF Crash, NoRun
  <2> QED BY <1>3, <1>8, <2>1 DEF Crash
<1>9. CASE ForeignWritten \/ SidecarRemoved
  BY <1>2, <1>9, LibraryAssumption DEF ForeignWritten, SidecarRemoved, NoSidecar
<1>10. CASE UNCHANGED <<sidecar, ledger, run>>
  BY <1>3, <1>10
<1> QED
  BY <1>4, <1>5, <1>6, <1>7, <1>8, <1>9, <1>10 DEF Next, vars, Environment, Translate,
     SourceWritten, SourceRemoved, Sweep, SweepAborts, Manual

-----------------------------------------------------------------------------
(* The theorems. *)

\* There is no file, no row and no run at first.
LEMMA InitIInv == Init => IInv
<1> SUFFICES ASSUME Init PROVE IInv
  OBVIOUS
<1>1. Types
  <2>1. /\ used \in [DOMAIN Bounds -> Nat] /\ used["writes"] = 0
        /\ MaxWrites \in Nat /\ 0 \in Versions
    BY BoundNames, LibraryAssumption DEF Init, Versions
  <2>2. /\ version \in [Sources -> Versions] /\ present \in [Sources -> BOOLEAN]
        /\ \A p \in Sources : version[p] = 0
    BY <2>1 DEF Init
  <2>3. /\ sidecar \in Sidecar /\ ledger \in [Sources -> Row] /\ run \in [Lanes -> Run]
        /\ pending \subseteq Sources \X Lanes /\ aborted \in BOOLEAN
    BY Nothings DEF Init
  <2>4. RunsOK
    BY DEF Init, RunsOK
  <2> QED BY <2>1, <2>2, <2>3, <2>4 DEF Types, TypeOK
<1>2. \A l \in Lanes : run[l].source \notin Sources /\ run[l].pc = "idle"
  BY LibraryAssumption DEF Init, NoRun
<1>3. OneJob
  BY <1>2 DEF Init, OneJob, At
<1>4. LedgerInv /\ RunHashes
  BY <1>2 DEF Init, LedgerInv, Claimed, RunHashes, NoRow
<1>5. SidecarInv
  BY LibraryAssumption DEF Init, SidecarInv, NoSidecar
<1> QED BY <1>1, <1>3, <1>4, <1>5 DEF IInv

\* Every step, of ours or of another program, keeps IInv.
LEMMA NextIInv == IInv /\ [Next]_vars => IInv'
BY TypesKept, OneJobKept, LedgerKept, RunHashesKept, SidecarKept DEF IInv

\* IInv holds in every state that is reached.
THEOREM Invariant == Spec => []IInv
BY InitIInv, NextIInv, PTL DEF Spec

\* Files, ledger and runs stay within their types.
THEOREM TypeCorrect == Spec => []TypeOK
<1>1. IInv => TypeOK
  BY DEF IInv, Types
<1> QED BY <1>1, Invariant, PTL

\* A sidecar of ours is the output of a row of the ledger, so not taken for another
\* program's, unless its source was quarantined since: translate_file records
\* in_progress and the output path before it writes, no row ever goes away, and only
\* a quarantine clears the path (D-28, engine.py:1724).
THEOREM OwnOutputKnownAlways == Spec => []OwnOutputKnown
<1>1. ASSUME IInv, NEW p \in Sources, sidecar.from = p, ledger[p].status # "quarantined"
      PROVE  p \in Writers
  <2>1. ledger[p].status \in {"in_progress", "done"}
    BY <1>1 DEF IInv, SidecarInv, Types, TypeOK, Row, Statuses
  <2> QED BY <1>1, <2>1 DEF IInv, LedgerInv, Writers
<1>2. IInv => OwnOutputKnown
  BY <1>1 DEF OwnOutputKnown
<1> QED BY <1>2, Invariant, PTL

\* A row that says done with the current hash tells the truth: the hash is taken
\* before the content is read, so a change in between is translated again (D-27).
THEOREM SkippedIsCurrentAlways == Spec => []SkippedIsCurrent
<1>1. ASSUME IInv, NEW p \in Sources, ledger[p].status = "done",
             ledger[p].hash = version[p], sidecar.from = p
      PROVE  sidecar.version = version[p]
  <2>1. version[p] \in Nat /\ sidecar.version \in Nat
    BY <1>1, LibraryAssumption DEF IInv, Types, TypeOK, Versions, Sidecar
  <2>2. version[p] <= sidecar.version /\ sidecar.version <= version[p]
    BY <1>1 DEF IInv, SidecarInv
  <2> QED BY <2>1, <2>2
<1>2. IInv => SkippedIsCurrent
  BY <1>1 DEF SkippedIsCurrent
<1> QED BY <1>2, Invariant, PTL

\* While the ledger is silent nobody is known to have written the sidecar.
LEMMA NoWriters ==
  ASSUME LedgerInv, \A p \in Sources : ledger[p].status = "none"
  PROVE  Writers = {} /\ ~ MayOverwrite
<1>1. Writers = {}
  BY DEF LedgerInv, Writers, NoRow
<1>2. Cardinality({}) = 0
  BY FS_EmptySet
<1> QED BY <1>1, <1>2 DEF MayOverwrite

\* A foreign sidecar of which the ledger knows nothing is left alone: every run
\* ends before it writes, for it finds no row that has the sidecar as its output
\* (check_by_output_path, D-26).
THEOREM UntouchedStaysAlways == Spec => UntouchedStays
<1>1. ASSUME IInv, [Next]_vars, Untouched PROVE Untouched' \/ sidecar'.from = Nobody
  <2>0. /\ Types /\ LedgerInv /\ sidecar.from = Foreign /\ ~ MayOverwrite
        /\ \A p \in Sources : ledger[p] = NoRow
        /\ \A l \in Lanes : run[l] \in Run /\ run \in [Lanes -> Run]
    BY <1>1, NoWriters DEF IInv, LedgerInv, Untouched, Types, TypeOK
  <2>1. NoRun.pc = "idle" /\ NoRun.entry = NoRow /\ SidecarExists
    BY <2>0, LibraryAssumption DEF NoRun, SidecarExists
  <2>2. ASSUME UNCHANGED ledger, sidecar' = sidecar \/ sidecar'.from = Foreign,
               \A l \in Lanes : /\ run'[l].pc \in {"idle", "check", "decide", "prior"}
                               /\ run'[l].entry = NoRow
        PROVE  Untouched'
    BY <1>1, <2>2 DEF Untouched
  <2>3. CASE UNCHANGED <<ledger, run>> /\ (sidecar' = sidecar \/ sidecar'.from = Foreign)
    BY <1>1, <2>2, <2>3 DEF Untouched
  <2>4. ASSUME NEW l \in Lanes, NEW new, RunBecomes(l, new),
               new.pc \in {"idle", "check", "decide", "prior"}, new.entry = NoRow,
               UNCHANGED <<sidecar, ledger>>
        PROVE  Untouched'
    <3>1. \A m \in Lanes : run'[m] = IF m = l THEN new ELSE run[m]
      BY <2>0, <2>4 DEF RunBecomes
    <3> QED BY <1>1, <2>2, <2>4, <3>1 DEF Untouched
  <2>5. ASSUME NEW l \in Lanes, Begin(l) PROVE Untouched'
    <3>1. PICK p \in Sources : Begin(l)!(p)
      BY <2>5 DEF Begin
    <3> DEFINE new == [NoRun EXCEPT !.pc = "check", !.source = p, !.hash = version[p]]
    <3>2. new.pc = "check" /\ new.entry = NoRow
      BY DEF NoRun
    <3>3. RunBecomes(l, new) \/ RunBecomes(l, NoRun)
      BY <3>1
    <3>4. UNCHANGED <<sidecar, ledger>>
      BY <3>1
    <3> HIDE DEF new
    <3> QED BY <2>1, <2>4, <3>2, <3>3, <3>4
  <2>6. ASSUME NEW l \in Lanes, Check(l) PROVE Untouched'
    <3> DEFINE new == [run[l] EXCEPT !.pc = "decide", !.entry = ledger[run[l].source]]
    <3>1. run[l].source \in Sources
      BY <2>0, <2>6, Running DEF Check
    <3>2. new.pc = "decide" /\ new.entry = NoRow
      BY <2>0, <3>1 DEF Run
    <3>3. RunBecomes(l, new) /\ UNCHANGED <<sidecar, ledger>>
      BY <2>6 DEF Check
    <3> HIDE DEF new
    <3> QED BY <2>4, <3>2, <3>3
  <2>7. ASSUME NEW l \in Lanes, Decide(l) PROVE Untouched'
    <3> DEFINE new == [run[l] EXCEPT !.pc = "prior"]
    <3>1. run[l].entry = NoRow /\ run[l].entry.status = "none"
      BY <1>1 DEF Untouched, NoRow
    <3>2. new.pc = "prior" /\ new.entry = NoRow
      BY <2>0, <3>1 DEF Run
    <3>3. RunBecomes(l, new) /\ UNCHANGED <<sidecar, ledger>>
      BY <2>1, <2>7, <3>1 DEF Decide, AlreadyDone
    <3> HIDE DEF new
    <3> QED BY <2>4, <3>2, <3>3
  <2>8. ASSUME NEW l \in Lanes, Prior(l) \/ Error(l) PROVE Untouched'
    BY <2>0, <2>1, <2>4, <2>8 DEF Prior, Error
  <2>9. ASSUME NEW l \in Lanes
        PROVE  ~ (Start(l) \/ Read(l) \/ Quarantine(l) \/ Translated(l) \/ Write(l) \/ Finish(l))
    BY <1>1 DEF Untouched, Start, Read, Quarantine, Translated, Write, Finish
  <2>10. CASE Crash
    BY <2>1, <2>2, <2>10 DEF Crash
  <2>11. CASE ForeignWritten
    BY <2>3, <2>11 DEF ForeignWritten
  <2>12. CASE SidecarRemoved
    BY <2>12 DEF SidecarRemoved, NoSidecar
  <2> QED
    BY <1>1, <2>3, <2>5, <2>6, <2>7, <2>8, <2>9, <2>10, <2>11, <2>12 DEF Next, vars,
       Environment, Translate, SourceWritten, SourceRemoved, Sweep, SweepAborts, Manual
<1> QED BY <1>1, Invariant, PTL DEF Spec, UntouchedStays
=============================================================================
