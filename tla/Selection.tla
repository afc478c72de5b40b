------------------------------- MODULE Selection -------------------------------
(***************************************************************************)
(* Which subtitle of a media file is translated.  A run (`run --once', or  *)
(* a sweep and its job) decides twice and by two orders: the scan takes    *)
(* the first language of the configured priority and asks the ledger about *)
(* that file; process_one_item then selects again, by the series' override *)
(* or by how much a language says of the relations between speakers, and   *)
(* translates what it selected.                                            *)
(*                                                                         *)
(* trezarr/discover (scan, gap), trezarr/source_selection and              *)
(* process_one_item in trezarr/cli.py.  A run of translate_file is one     *)
(* step here: its steps, and the sidecars of other programs, are Library's.*)
(***************************************************************************)
EXTENDS Naturals, Sequences, FiniteSets, FiniteSetsExt, Functions

CONSTANTS
  Alphabet,   \* the language codes in alphabetical order, Vi among them
  Vi,         \* the code of our own output: <stem>.vi.srt matches as well
  Tier,       \* rank._TIER with its default: 1 says most
  Original,   \* the code of the media item's original language, or none of these
  Priority,   \* settings.source_lang_priority
  Overrides,  \* the lists a user may set for the series
  Reported,   \* codes Bazarr reports for files that are there under another name
  LocalPath,  \* does the item carry its path?  TRUE: run --once; FALSE: a job's
              \* snapshot, whose fields leave it out
  MaxWrites, MaxRemovals, MaxOverrides, MaxFailures, \* bounds
  MaxTimes,   \* translations of a translation (bound)
  Absent      \* no file, no code, no content

Codes == Range(Alphabet)
Langs == Codes \ {Vi}

ASSUME SelectionAssumption ==
  /\ Vi \in Codes /\ Absent \notin Codes
  /\ Alphabet \in Seq(Codes) /\ Priority \in Seq(Codes)
  /\ Overrides \subseteq Seq(Codes) /\ Reported \subseteq Codes
  /\ Tier \in [Codes -> 1..3]
  /\ LocalPath \in BOOLEAN
  /\ {MaxWrites, MaxRemovals, MaxOverrides, MaxFailures, MaxTimes} \subseteq Nat

VARIABLES
  file,      \* the content of <stem>.<code>.srt
  ledger,    \* the ProcessedFile row of each of these paths
  override,  \* Series.source_lang_override; empty: NULL
  item,      \* the run's item: the path the scan found, the override and the
             \* language the selection went by, the path that is translated
  fresh,     \* nobody but the run has changed anything since its scan
  paid,      \* the texts translated since our output was last removed
  used       \* how much of each bound is used up

vars == <<file, ledger, override, item, fresh, paid, used>>

-----------------------------------------------------------------------------
\* A text: the source it goes back to, that source's version, and how often it
\* was translated on the way.  Two texts have one hash only if they are equal.
Content == [root: Langs, version: 1..MaxWrites, times: 0..MaxTimes]

ASSUME ContentAssumption == Absent \notin Content

Row == [status: {"none", "in_progress", "done", "quarantined"},
        hash: Content \union {Absent}, out: BOOLEAN]
NoRow == [status |-> "none", hash |-> Absent, out |-> FALSE]

Item == [pc: {"idle", "select", "translate"}, found: Codes \union {Absent},
         list: Overrides \union {<<>>}, best: Codes \union {Absent},
         chosen: Codes \union {Absent}, result: {"none", "done", "skipped", "failed"}]
NoItem == [pc |-> "idle", found |-> Absent, list |-> <<>>, best |-> Absent,
           chosen |-> Absent, result |-> "none"]

Bounds == [writes |-> MaxWrites, removals |-> MaxRemovals,
           overrides |-> MaxOverrides, failures |-> MaxFailures]

Uses(b) == used[b] < Bounds[b] /\ used' = [used EXCEPT ![b] = @ + 1]

OnDisk == {c \in Codes : file[c] # Absent}

\* The first entry of a list of codes that is in S.
Hits(list, S) == {i \in DOMAIN list : list[i] \in S}
FirstOf(list, S) == IF Hits(list, S) = {} THEN Absent ELSE list[Min(Hits(list, S))]

Init ==
  /\ file = [c \in Codes |-> Absent]
  /\ ledger = [c \in Codes |-> NoRow]
  /\ override = <<>>
  /\ item = NoItem
  /\ fresh = TRUE
  /\ paid = {}
  /\ used = [b \in DOMAIN Bounds |-> 0]

-----------------------------------------------------------------------------
(* Other programs and the user. *)

SourceWritten(c) ==
  /\ Uses("writes")
  /\ file' = [file EXCEPT ![c] =
                [root |-> c, version |-> used["writes"] + 1, times |-> 0]]
  /\ fresh' = FALSE
  /\ UNCHANGED <<ledger, override, item, paid>>

FileRemoved(c) ==
  /\ file[c] # Absent
  /\ Uses("removals")
  /\ file' = [file EXCEPT ![c] = Absent]
  /\ fresh' = FALSE
  /\ paid' = IF c = Vi THEN {} ELSE paid
  /\ UNCHANGED <<ledger, override, item>>

\* PATCH /bible/series/{id}/overrides: set_series_overrides.
SetOverride ==
  /\ Uses("overrides")
  /\ override' \in Overrides
  /\ fresh' = FALSE
  /\ UNCHANGED <<file, ledger, item, paid>>

-----------------------------------------------------------------------------
(* The scan. *)

\* is_eligible; the sidecar of every source is <stem>.vi.srt, its own included.
SidecarExists == file[Vi] # Absent

Writers == {c \in Codes : ledger[c].out}

Unknown(c) == ledger[c].status = "none" /\ SidecarExists

UpToDate(c) == ledger[c].status = "done" /\ SidecarExists /\ ledger[c].hash = file[c]

\* check_by_output_path raises when two rows have the path, and so ends the scan.
Eligible(c) == /\ file[c] # Absent
               /\ Unknown(c) => Cardinality(Writers) = 1
               /\ ~ UpToDate(c)

Scan ==
  LET c == FirstOf(Priority, OnDisk) IN
  /\ item.pc = "idle"
  /\ c # Absent
  /\ Eligible(c)
  /\ item' = [NoItem EXCEPT !.pc = "select", !.found = c]
  /\ fresh' = TRUE
  /\ UNCHANGED <<file, ledger, override, paid, used>>

-----------------------------------------------------------------------------
(* The selection in process_one_item. *)

\* sort_key: the original language before all others, then by tier.
SortKey(c) == IF c = Original THEN 0 ELSE Tier[c]

\* rank_sources: ties go by the alphabet.
Ranked(c, d) ==
  \/ SortKey(c) < SortKey(d)
  \/ SortKey(c) = SortKey(d) /\ FirstOf(Alphabet, {c, d}) = c

Best(S) == IF S = {} THEN Absent
           ELSE CHOOSE c \in S : \A d \in S \ {c} : Ranked(c, d)

\* select_source_for_item over what is there or reported, by the series' list
\* unless that is the global one, which is dropped and not tried first.
SelectSource(list, S) ==
  LET first == IF list = Priority THEN Absent ELSE FirstOf(list, S)
  IN  IF first # Absent THEN first ELSE Best(S)

\* The code is turned back into a path; without one the scan's choice stays.
Resolved_ScanChoice(c) == item.found
Resolved(c) == IF LocalPath /\ c \in OnDisk THEN c ELSE item.found

\* Bazarr's inventory is empty as well when Bazarr cannot be reached.
SelectBy(list) ==
  \E inventory \in SUBSET Reported :
    LET best == SelectSource(list, inventory \union (IF LocalPath THEN OnDisk ELSE {}))
    IN  item' = [item EXCEPT !.pc = "translate", !.list = list, !.best = best,
                             !.chosen = Resolved(best)]

\* D-104: without the series' row its override is not known; whatever else fails,
\* the scan's choice stays.
Select ==
  /\ item.pc = "select"
  /\ \/ SelectBy(override) /\ UNCHANGED used
     \/ /\ Uses("failures")
        /\ \/ SelectBy(<<>>)
           \/ item' = [item EXCEPT !.pc = "translate", !.chosen = item.found]
  /\ UNCHANGED <<file, ledger, override, fresh, paid>>

-----------------------------------------------------------------------------
(* translate_file on the selected path. *)

Ends(result) == item' = [item EXCEPT !.pc = "idle", !.result = result]

\* What is written, and what the row says from then on.
Translation(c) == [file[c] EXCEPT !.times = @ + 1]
RowFor_JobStatus(c, status) ==
  [status |-> IF status = "quarantined" THEN "failed" ELSE status,
   hash |-> file[c], out |-> status # "quarantined"]
RowFor_NoHash(c, status) == [status |-> status, hash |-> Absent, out |-> status # "quarantined"]
RowFor(c, status) == [status |-> status, hash |-> file[c], out |-> status # "quarantined"]

\* Step 3: nothing to do, or a sidecar whose origin no row tells.
Skips(c) == UpToDate(c) \/ (Unknown(c) /\ Writers = {})

TranslateSkips ==
  /\ item.pc = "translate"
  /\ file[item.chosen] # Absent
  /\ Skips(item.chosen)
  /\ Ends("skipped")
  /\ UNCHANGED <<file, ledger, override, fresh, paid, used>>

\* The file is gone, or check_by_output_path raises.
TranslateRaises ==
  /\ item.pc = "translate"
  /\ \/ file[item.chosen] = Absent
     \/ Unknown(item.chosen) /\ Cardinality(Writers) > 1
  /\ Ends("failed")
  /\ UNCHANGED <<file, ledger, override, fresh, paid, used>>

\* May step 4 be reached, and is there room for one more translation?
Proceeds(c) ==
  /\ item.pc = "translate"
  /\ file[c] # Absent
  /\ ~ Skips(c)
  /\ ~ (Unknown(c) /\ Cardinality(Writers) > 1)
  /\ file[c].times < MaxTimes

TranslateDone ==
  LET c == item.chosen IN
  /\ Proceeds(c)
  /\ file' = [file EXCEPT ![Vi] = Translation(c)]
  /\ ledger' = [ledger EXCEPT ![c] = RowFor(c, "done")]
  /\ paid' = paid \union {file[c]}
  /\ Ends("done")
  /\ UNCHANGED <<override, fresh, used>>

\* A quarantine, or the end of the process before or after the rename.
TranslateFails ==
  LET c == item.chosen IN
  /\ Proceeds(c)
  /\ Uses("failures")
  /\ \/ ledger' = [ledger EXCEPT ![c] = RowFor(c, "quarantined")] /\ UNCHANGED file
     \/ /\ ledger' = [ledger EXCEPT ![c] = RowFor(c, "in_progress")]
        /\ file' \in {file, [file EXCEPT ![Vi] = Translation(c)]}
  /\ Ends("failed")
  /\ UNCHANGED <<override, fresh, paid>>

-----------------------------------------------------------------------------
Next ==
  \/ \E c \in Langs : SourceWritten(c)
  \/ \E c \in Codes : FileRemoved(c)
  \/ SetOverride
  \/ Scan
  \/ Select
  \/ TranslateSkips \/ TranslateRaises \/ TranslateDone \/ TranslateFails

Spec == Init /\ [][Next]_vars

-----------------------------------------------------------------------------
(* Properties. *)

\* The state stays within its types.
TypeOK ==
  /\ file \in [Codes -> Content \union {Absent}]
  /\ ledger \in [Codes -> Row]
  /\ override \in Overrides \union {<<>>}
  /\ item \in Item
  /\ fresh \in BOOLEAN
  /\ paid \subseteq Content
  /\ used \in [DOMAIN Bounds -> Nat]

\* A run has just ended with this result and nothing has changed since its scan.
Ended(result) == item.pc = "idle" /\ item.result = result /\ fresh

\* What a list asks for: its first language that has a file, and without one the
\* original language, or the richest (D-107, D-109); never our own output.
Wanted(list) ==
  LET sources == OnDisk \ {Vi}
      asked == IF list = Priority THEN Absent ELSE FirstOf(list, sources)
  IN  IF asked # Absent THEN asked
      ELSE IF Original \in sources THEN Original
      ELSE CHOOSE c \in sources : \A d \in sources :
             /\ Tier[c] <= Tier[d]
             /\ Tier[c] = Tier[d] => FirstOf(Alphabet, {c, d}) = c

\* D-107, D-109: the sidecar a run writes is the translation of the present
\* content of the wanted source, although the scan looked for another, Bazarr
\* reports files under other names and our own output lies among the sources.
\* Where the language taken for the best has no file, where the selection fails
\* (D-104), and for a job, it is the translation of what the scan found.  Not so
\* where our own output is what is chosen: its language, of tier 2, ranks before
\* English, of tier 3, and the code translates it once more.
ResultIsWanted ==
  Ended("done") /\ item.chosen # Vi =>
    LET source == IF LocalPath /\ item.best \in OnDisk \ {Vi} THEN Wanted(item.list)
                  ELSE item.found
    IN  file[Vi] = [file[source] EXCEPT !.times = 1]

\* D-27, D-110 ("no loop", gap.py): as long as our output is there, no text of a
\* source is translated twice, however often the scan takes one file for new and
\* the selection takes another, and whatever fails in between.  The scan itself
\* may find the same file again and again, and our own output, chosen as above,
\* is translated again and again.
TranslatedOnce ==
  [][TranslateDone /\ item.chosen # Vi => file[item.chosen] \notin paid]_vars

\* D-112: an override of the series wins over the global list.
OverrideWins ==
  Ended("done") /\ override \notin {<<>>, Priority} =>
    LET first == FirstOf(override, OnDisk)
    IN  first # Absent => item.chosen = first
=============================================================================
