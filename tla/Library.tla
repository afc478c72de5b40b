-------------------------------- MODULE Library --------------------------------
(***************************************************************************)
(* One media file of the library: its source subtitles, the one Vietnamese *)
(* sidecar they all translate to, and the ledger that tells our sidecar    *)
(* from a foreign one.  trezarr/discover (scan, gap), trezarr/output       *)
(* (ledger_sqla, write) and the steps of translate_file around the         *)
(* translation itself.                                                     *)
(*                                                                         *)
(* Files and ledger survive a crash; the runs of translate_file do not.    *)
(* Other programs (Bazarr, a user) write and delete files at any time.     *)
(* The jobs themselves are JobQueue's: here `pending' is the set of        *)
(* sources with an active job, and a lane is a series lock, under which    *)
(* one translate_file runs at a time.  A step ends at an await.            *)
(***************************************************************************)
EXTENDS Naturals, Sequences, FiniteSets, Functions

CONSTANTS
  Priority,      \* settings.source_lang_priority: the sources, best first
  Lanes,         \* the series locks that jobs of this media file may run under
  Home,          \* the lane of its *arr series
  MaxWrites,     \* times a source file is written (bound)
  MaxForeign,    \* sidecars written by others (bound)
  MaxRemovals,   \* files deleted by others (bound)
  MaxManual,     \* POST /translate requests (bound)
  MaxFailures, MaxCrashes,  \* failures of a translation (bounds)
  Nobody, Foreign  \* whom the sidecar is from: no sidecar; another program

Sources == Range(Priority)

ASSUME LibraryAssumption ==
  /\ Home \in Lanes
  /\ Foreign # Nobody
  /\ {Foreign, Nobody} \intersect Sources = {}
  /\ {MaxWrites, MaxForeign, MaxRemovals, MaxManual, MaxFailures, MaxCrashes}
       \subseteq Nat

VARIABLES
  version,  \* the newest content each source file ever had, 0 before the first
  present,  \* whether the source file exists
  sidecar,  \* the file <stem>.vi.<ext>: whom it is from, of which version
  ledger,   \* the ProcessedFile row of each source
  pending,  \* sources with a job waiting to run, and its lane
  run,      \* the translate_file running in each lane
  aborted,  \* a sweep of the scheduler ended with an exception
  used      \* how much of each bound is used up

vars == <<version, present, sidecar, ledger, pending, run, aborted, used>>

-----------------------------------------------------------------------------
Versions == 0..MaxWrites

Statuses == {"none", "in_progress", "done", "quarantined"}

\* out: the row's output_path is the sidecar (else NULL).
Row   == [status: Statuses, hash: Versions, out: BOOLEAN]
NoRow == [status |-> "none", hash |-> 0, out |-> FALSE]

Sidecar == [from: Sources \union {Nobody, Foreign}, version: Versions]
NoSidecar == [from |-> Nobody, version |-> 0]

\* hash: content_hash, taken first; entry: what ledger.check returned; content:
\* the version that was parsed and translated.
RunPc == {"idle", "check", "decide", "prior", "record", "read", "translate",
          "write", "finish"}
Run == [pc: RunPc, source: Sources \union {Nobody}, hash: Versions, entry: Row,
        content: Versions]
NoRun == [pc |-> "idle", source |-> Nobody, hash |-> 0, entry |-> NoRow, content |-> 0]

Bounds == [writes |-> MaxWrites, foreign |-> MaxForeign, removals |-> MaxRemovals,
           manual |-> MaxManual, failures |-> MaxFailures, crashes |-> MaxCrashes]

Uses(b) == used[b] < Bounds[b] /\ used' = [used EXCEPT ![b] = @ + 1]

SidecarExists == sidecar.from # Nobody

\* Rows whose output_path is the sidecar: check_by_output_path.
Writers == {p \in Sources : ledger[p].out}

RunBecomes(l, new) == run' = [run EXCEPT ![l] = new]
Record(p, row)     == ledger' = [ledger EXCEPT ![p] = row]

Init ==
  /\ version = [p \in Sources |-> 0]
  /\ present = [p \in Sources |-> FALSE]
  /\ sidecar = NoSidecar
  /\ ledger = [p \in Sources |-> NoRow]
  /\ pending = {}
  /\ run = [l \in Lanes |-> NoRun]
  /\ aborted = FALSE
  /\ used = [b \in DOMAIN Bounds |-> 0]

-----------------------------------------------------------------------------
(* The other programs. *)

\* A source file appears or changes, always to new content.
SourceWritten(p) ==
  /\ Uses("writes")
  /\ version' = [version EXCEPT ![p] = @ + 1]
  /\ present' = [present EXCEPT ![p] = TRUE]
  /\ UNCHANGED <<sidecar, ledger, pending, run, aborted>>

SourceRemoved(p) ==
  /\ present[p]
  /\ Uses("removals")
  /\ present' = [present EXCEPT ![p] = FALSE]
  /\ UNCHANGED <<version, sidecar, ledger, pending, run, aborted>>

ForeignWritten ==
  /\ Uses("foreign")
  /\ sidecar' = [from |-> Foreign, version |-> 0]
  /\ UNCHANGED <<version, present, ledger, pending, run, aborted>>

SidecarRemoved ==
  /\ SidecarExists
  /\ Uses("removals")
  /\ sidecar' = NoSidecar
  /\ UNCHANGED <<version, present, ledger, pending, run, aborted>>

-----------------------------------------------------------------------------
(* The sweep: find_source_sub and is_eligible.  Nothing is written.         *)

\* find_source_sub: the first source of the priority list that exists.
Finds(p) ==
  /\ present[p]
  /\ \E i \in DOMAIN Priority :
       p = Priority[i] /\ \A j \in 1..(i - 1) : ~ present[Priority[j]]

\* Is the job for p one that enqueue_job would let through (D-66)?
Active(p) == (\E l \in Lanes : <<p, l>> \in pending) \/ (\E l \in Lanes : run[l].source = p)

\* is_eligible, cases 1 and 1.5: a sidecar, and no row for this source.
Unknown(p) == ledger[p].status = "none" /\ SidecarExists

Eligible_NoHash(p) == ~ (Unknown(p) /\ Writers = {}) /\ ledger[p].status # "done"
Eligible(p) ==
  /\ ~ (Unknown(p) /\ Writers = {})
  /\ ~ (ledger[p].status = "done" /\ SidecarExists /\ ledger[p].hash = version[p])

\* check_by_output_path raises when more than one row has the output path, and
\* nothing between it and the scheduler catches that.
Raises(p) == Unknown(p) /\ Cardinality(Writers) > 1

Sweep ==
  /\ \E p \in Sources :
       /\ Finds(p)
       /\ ~ Raises(p)
       /\ Eligible(p)
       /\ ~ Active(p)
       /\ pending' = pending \union {<<p, Home>>}
  /\ UNCHANGED <<version, present, sidecar, ledger, run, aborted, used>>

SweepAborts ==
  /\ \E p \in Sources : Finds(p) /\ Raises(p)
  /\ aborted' = TRUE
  /\ UNCHANGED <<version, present, sidecar, ledger, pending, run, used>>

\* POST /translate: any source that exists, eligible or not, under any lane.
Manual(p) ==
  /\ present[p]
  /\ ~ Active(p)
  /\ Uses("manual")
  /\ \E l \in Lanes : pending' = pending \union {<<p, l>>}
  /\ UNCHANGED <<version, present, sidecar, ledger, run, aborted>>

-----------------------------------------------------------------------------
(* translate_file. *)

\* Step 1: read the bytes and hash them.  A file that is gone fails the job.
Begin(l) ==
  \E p \in Sources :
    /\ <<p, l>> \in pending
    /\ run[l] = NoRun
    /\ pending' = pending \ {<<p, l>>}
    /\ RunBecomes(l, IF present[p]
                     THEN [NoRun EXCEPT !.pc = "check", !.source = p, !.hash = version[p]]
                     ELSE NoRun)
    /\ UNCHANGED <<version, present, sidecar, ledger, aborted, used>>

\* Step 3: ledger.check.
Check(l) ==
  /\ run[l].pc = "check"
  /\ RunBecomes(l, [run[l] EXCEPT !.pc = "decide", !.entry = ledger[run[l].source]])
  /\ UNCHANGED <<version, present, sidecar, ledger, pending, aborted, used>>

\* The entry is compared with the files after the await that fetched it.
AlreadyDone(r) == r.entry.status = "done" /\ SidecarExists /\ r.entry.hash = r.hash

Decide(l) ==
  LET next == IF run[l].entry.status = "none" /\ SidecarExists THEN "prior" ELSE "record" IN
  /\ run[l].pc = "decide"
  /\ RunBecomes(l, IF AlreadyDone(run[l]) THEN NoRun ELSE [run[l] EXCEPT !.pc = next])
  /\ UNCHANGED <<version, present, sidecar, ledger, pending, aborted, used>>

\* check_by_output_path: no row, a foreign sidecar, skip; one, an upgrade to a
\* richer source; more, an exception that fails the job.
MayOverwrite_Always == TRUE
MayOverwrite == Cardinality(Writers) = 1

Prior(l) ==
  /\ run[l].pc = "prior"
  /\ RunBecomes(l, IF MayOverwrite THEN [run[l] EXCEPT !.pc = "record"] ELSE NoRun)
  /\ UNCHANGED <<version, present, sidecar, ledger, pending, aborted, used>>

\* Step 4: the row says in_progress before anything is written.
RecordInProgress_Skipped(r) == UNCHANGED ledger
RecordInProgress(r) ==
  Record(r.source, [status |-> "in_progress", hash |-> r.hash, out |-> TRUE])

Start(l) ==
  /\ run[l].pc = "record"
  /\ RecordInProgress(run[l])
  /\ RunBecomes(l, [run[l] EXCEPT !.pc = "read"])
  /\ UNCHANGED <<version, present, sidecar, pending, aborted, used>>

\* Step 5: the file is read again, to parse it.
Read(l) ==
  LET p == run[l].source IN
  /\ run[l].pc = "read"
  /\ present[p]
  /\ RunBecomes(l, [run[l] EXCEPT !.pc = "translate", !.content = version[p]])
  /\ UNCHANGED <<version, present, sidecar, ledger, pending, aborted, used>>

\* Every failure that quarantines: unreadable source, Pass 1, a batch, the gate.
\* The row loses its output path; a sidecar of an earlier run stays.
QuarantineRow_JobStatus(r) == [status |-> "failed", hash |-> r.hash, out |-> FALSE]
QuarantineRow(r) == [status |-> "quarantined", hash |-> r.hash, out |-> FALSE]

Quarantine(l) ==
  LET r == run[l] IN
  /\ \/ r.pc = "read" /\ ~ present[r.source] /\ UNCHANGED used
     \/ r.pc \in {"read", "translate"} /\ Uses("failures")
  /\ Record(r.source, QuarantineRow(r))
  /\ RunBecomes(l, NoRun)
  /\ UNCHANGED <<version, present, sidecar, pending, aborted>>

\* Any other exception leaves files and ledger as they are and fails the job.
Error(l) ==
  /\ run[l].pc # "idle"
  /\ Uses("failures")
  /\ RunBecomes(l, NoRun)
  /\ UNCHANGED <<version, present, sidecar, ledger, pending, aborted>>

\* The passes and the gate end well.
Translated(l) ==
  /\ run[l].pc = "translate"
  /\ RunBecomes(l, [run[l] EXCEPT !.pc = "write"])
  /\ UNCHANGED <<version, present, sidecar, ledger, pending, aborted, used>>

\* Step 10, write_vi_sidecar: one atomic rename.
Write(l) ==
  /\ run[l].pc = "write"
  /\ sidecar' = [from |-> run[l].source, version |-> run[l].content]
  /\ RunBecomes(l, [run[l] EXCEPT !.pc = "finish"])
  /\ UNCHANGED <<version, present, ledger, pending, aborted, used>>

\* Step 11: the hash is the one of step 1.
DoneHash_Current(r) == version[r.source]
DoneHash(r) == r.hash

Finish(l) ==
  LET r == run[l] IN
  /\ r.pc = "finish"
  /\ Record(r.source, [status |-> "done", hash |-> DoneHash(r), out |-> TRUE])
  /\ RunBecomes(l, NoRun)
  /\ UNCHANGED <<version, present, sidecar, pending, aborted, used>>

\* The process stops; its restart queues the jobs that were running (JobQueue).
Crash ==
  /\ \E l \in Lanes : run[l].pc # "idle"
  /\ Uses("crashes")
  /\ run' = [l \in Lanes |-> NoRun]
  /\ pending' = pending \union {<<run[l].source, l>> : l \in {x \in Lanes : run[x] # NoRun}}
  /\ UNCHANGED <<version, present, sidecar, ledger, aborted>>

-----------------------------------------------------------------------------
Environment ==
  \/ \E p \in Sources : SourceWritten(p) \/ SourceRemoved(p)
  \/ ForeignWritten
  \/ SidecarRemoved

Translate(l) ==
  \/ Begin(l) \/ Check(l) \/ Decide(l) \/ Prior(l) \/ Start(l)
  \/ Read(l) \/ Quarantine(l) \/ Translated(l) \/ Write(l) \/ Finish(l)

Next ==
  \/ Environment
  \/ Sweep \/ SweepAborts
  \/ \E p \in Sources : Manual(p)
  \/ \E l \in Lanes : Translate(l) \/ Error(l)
  \/ Crash

Spec == Init /\ [][Next]_vars

(***************************************************************************)
(* The scheduler sweeps for ever, and a job that is queued runs to its     *)
(* end, as JobQueue's fairness has it.  Failures are finitely many, fewer  *)
(* than the cap that would stop the sweep from enqueueing the source again.*)
(***************************************************************************)
FairSpec == Spec /\ WF_vars(Sweep) /\ \A l \in Lanes : WF_vars(Translate(l))

-----------------------------------------------------------------------------
(* Properties. *)

\* The state stays within its types.
TypeOK ==
  /\ version \in [Sources -> Versions]
  /\ present \in [Sources -> BOOLEAN]
  /\ sidecar \in Sidecar
  /\ ledger \in [Sources -> Row]
  /\ pending \subseteq Sources \X Lanes
  /\ run \in [Lanes -> Run]
  /\ aborted \in BOOLEAN
  /\ used \in [DOMAIN Bounds -> Nat]

\* D-28: a sidecar of ours is the output of a row of the ledger, also between the
\* rename and the record of its completion, and after any crash: else is_eligible
\* takes it for another program's and no better source is ever translated.  The
\* exception is in the code: a quarantine of the source it is from clears that
\* row's output path (engine.py:1724).
OwnOutputKnown ==
  sidecar.from \in Sources =>
    sidecar.from \in Writers \/ ledger[sidecar.from].status = "quarantined"

\* D-27: a source that counts as already translated has its current content in
\* the sidecar, however the file changed while it was being translated.
SkippedIsCurrent ==
  \A p \in Sources :
    /\ ledger[p].status = "done"
    /\ ledger[p].hash = version[p]
    /\ sidecar.from = p
    => sidecar.version = version[p]

\* A media file we have nothing to do with yet, with a sidecar of another program.
Untouched ==
  /\ sidecar.from = Foreign
  /\ \A p \in Sources : ledger[p].status = "none"
  /\ \A l \in Lanes : run[l].pc \in {"idle", "check", "decide", "prior"} /\ run[l].entry = NoRow

\* D-26 as far as the code keeps it: a foreign sidecar that was there first is
\* left alone, by sweeps, manual requests and the runs already under way.
UntouchedStays == [][Untouched => Untouched' \/ sidecar'.from = Nobody]_vars

\* Nothing an item does ends the sweep for all the others (D-30).
SweepsSurvive == ~ aborted

\* A source whose row is done with its content is not translated again while there
\* is a sidecar, whomever that is from: another program may have replaced ours, or a
\* job of another source, asked for by hand, retried or overtaken on its way to the
\* lock.
Replaced(p) == sidecar.from \notin {p, Nobody}

\* The sidecar ends up with the translation of the best source there is, as that is
\* then, except for what is_eligible does not see: a sidecar that replaced it, and one
\* in the way whose origin the ledger does not tell, another program's, ours after a
\* quarantine, or one that two rows claim.
Settled ==
  \/ \A p \in Sources : ~ present[p]
  \/ \E p \in Sources : Finds(p) /\ Unknown(p) /\ Cardinality(Writers) # 1
  \/ \E p \in Sources :
       /\ Finds(p)
       /\ ledger[p].status = "done" /\ ledger[p].hash = version[p]
       /\ sidecar = [from |-> p, version |-> version[p]] \/ Replaced(p)

Converges == <>[]Settled
=============================================================================
