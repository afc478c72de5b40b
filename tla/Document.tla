-------------------------------- MODULE Document --------------------------------
(***************************************************************************)
(* What translate_file computes of a subtitle document without awaiting    *)
(* anything: batches, the reading of a numbered reply, inline tags, the    *)
(* assembly of the answers, the splices of the review and of a repair, the *)
(* bracket envelopes, and the gate.                                        *)
(*                                                                         *)
(* A source is a sequence of cues.  An output line remembers the cue it    *)
(* sits at (index and timecodes) and the cue its text was made of, so that *)
(* a text that lands at another cue shows.  Characters are abstracted to   *)
(* what the checks of the gate tell apart.                                 *)
(***************************************************************************)
EXTENDS Naturals, Sequences, FiniteSets, SequencesExt

CONSTANTS
  Budget,     \* characters of a batch (_compute_budget_chars)
  ViPercent   \* translate_vi_diacritic_ratio, in percent

\* raw: an opaque pass-through cue (karaoke, drawing); gap: the pause before it
\* is a scene gap; tagged: it has inline tags; enclosed: one bracket pair
\* around it all.
Cue == [raw: BOOLEAN, gap: BOOLEAN, size: Nat, tagged: BOOLEAN, enclosed: BOOLEAN]

\* The text of a line, by the check of the gate that rejects it.
Rejects == [blank |-> 2, token |-> 6, hint |-> 8, scaffold |-> 8, script |-> 9,
            echo |-> 10, honorific |-> 11, gloss |-> 12]
TextKinds == DOMAIN Rejects \union {"vi", "plain", "symbols", "raw"}

Line == [cue: Nat, of: Nat, text: TextKinds, wrapped: BOOLEAN]

-----------------------------------------------------------------------------
(* Batches. *)

Translatable(source) == {i \in DOMAIN source : ~ source[i].raw}

\* The place of cue i among those that are translated.
Rank(source, i) == Cardinality({j \in Translatable(source) : j <= i})

\* The elements of a finite set of numbers in ascending order.
Nth(S, k) == CHOOSE x \in S : Cardinality({y \in S : y <= x}) = k
Ascending(S) == [k \in 1..Cardinality(S) |-> Nth(S, k)]

\* The cues that are translated, in order.
Todo(source) == Ascending(Translatable(source))

Size(source, batch) == FoldLeft(LAMBDA n, i : n + source[i].size, 0, batch)

\* Before cue i the current batch is full, or a new scene begins.
Closes(source, batch, i, maxCues) ==
  \/ source[i].gap
  \/ Size(source, batch) + source[i].size > Budget
  \/ Len(batch) >= maxCues

\* The walk over the cues: where in Todo the batch of the r-th begins.
Begins(source, maxCues) ==
  LET todo == Todo(source)
      begin[r \in 1..Len(todo)] ==
        IF r = 1 \/ Closes(source, SubSeq(todo, begin[r - 1], r - 1), todo[r], maxCues)
        THEN r ELSE begin[r - 1]
  IN  begin

\* Every batch is a sequence of cues; there is none if all cues are raw.
Batches(source, maxCues) ==
  LET todo   == Todo(source)
      starts == {r \in DOMAIN todo : Begins(source, maxCues)[r] = r}
      cut    == Ascending(starts \union {Len(todo) + 1})
  IN  [b \in 1..Cardinality(starts) |-> SubSeq(todo, cut[b], cut[b + 1] - 1)]

-----------------------------------------------------------------------------
(* Replies: numbered lines, each with a text and perhaps sentinel tokens. *)

\* A reply has `numbers', the line numbers as the model wrote them, and `say',
\* for each cue its text, the tokens in it and whether it is in brackets.
Tokens == {"none", "own", "orphan"}

\* parse_numbered_response: every number once, none beyond, no line empty.
Parses(reply, n) ==
  /\ IsInjective(reply.numbers)
  /\ Range(reply.numbers) = 1..n
  /\ \A k \in 1..n : reply.say[k].text # "blank" \/ reply.say[k].tokens # "none"

\* reinsert_sentinels: the tokens of an untagged cue are strangers and are
\* stripped; a tagged cue needs its own, once.
KeepsTags(content, tagged) == tagged => content.tokens = "own"

WellFormed(reply, batch, source) ==
  /\ Parses(reply, Len(batch))
  /\ \A k \in DOMAIN batch : KeepsTags(reply.say[k], source[batch[k]].tagged)

\* The texts of a well-formed reply, one for each cue of the batch.
Text == [of: Nat, text: TextKinds, wrapped: BOOLEAN]
Texts(reply, batch) ==
  [k \in DOMAIN batch |-> [of |-> batch[k], text |-> reply.say[k].text,
                           wrapped |-> reply.say[k].wrapped]]

-----------------------------------------------------------------------------
(* Assembly and splices. *)

At(i, t) == [cue |-> i, of |-> t.of, text |-> t.text, wrapped |-> t.wrapped]
RawLine(i) == [cue |-> i, of |-> i, text |-> "raw", wrapped |-> FALSE]

\* Step 8: raw cues verbatim, the others from the queue of translated texts.
Assembled(source, results) ==
  LET queue == FlattenSeq(results) IN
  [i \in DOMAIN source |->
     IF source[i].raw THEN RawLine(i) ELSE At(i, queue[Rank(source, i)])]

\* A correction that echoes the scaffolding of the review prompt is dropped.
Correction(t, line) == IF t.text = "scaffold" THEN line ELSE At(line.cue, t)

\* _splice_review_corrections; `Kept' is a batch without corrections.
Kept == <<>>
Corrections(batches, results) ==
  FlattenSeq([b \in DOMAIN batches |->
                IF results[b] = Kept THEN [k \in DOMAIN batches[b] |-> <<>>]
                ELSE [k \in DOMAIN batches[b] |-> <<batches[b][k], results[b][k]>>]])

Spliced_ByOffset(source, lines, batches, results) ==
  LET corr == Corrections(batches, results) IN
  [i \in DOMAIN lines |->
     IF i \notin DOMAIN corr \/ corr[i] = <<>> THEN lines[i]
     ELSE At(corr[i][1], Correction(corr[i][2], lines[corr[i][1]]))]
Spliced(source, lines, batches, results) ==
  LET corr == Corrections(batches, results) IN
  [i \in DOMAIN lines |->
     LET c == corr[Rank(source, i)] IN
     IF source[i].raw \/ c = <<>> THEN lines[i]
     ELSE At(c[1], Correction(c[2], lines[c[1]]))]

\* _preserve_source_envelopes: what the source has in brackets stays so.
Enveloped(source, lines) ==
  [i \in DOMAIN lines |->
     [lines[i] EXCEPT !.wrapped = @ \/ (source[i].enclosed /\ ~ source[i].raw)]]

\* _repair_failing_cues: the failing cues as a batch, raw ones left out.
RepairBatch(source, failing) == Ascending(failing \intersect Translatable(source))

Repaired(lines, batch, texts) ==
  [i \in DOMAIN lines |->
     IF \E k \in DOMAIN batch : batch[k] = i
     THEN At(lines[i].cue, texts[CHOOSE k \in DOMAIN batch : batch[k] = i])
     ELSE lines[i]]

-----------------------------------------------------------------------------
(* The gate: validate_subdoc. *)

\* Checks 2, 6 and 8 to 12 look at one line each.
Failing(lines, check) ==
  {i \in DOMAIN lines : lines[i].text \in DOMAIN Rejects /\ Rejects[lines[i].text] = check}

\* Check 3, over the lines that have something to translate.
Counted(lines) == {i \in DOMAIN lines : lines[i].text \notin {"raw", "symbols", "blank"}}
NoDiacritics(lines) == {i \in Counted(lines) : lines[i].text \in {"plain", "echo", "script"}}
Untranslated(lines) ==
  IF 100 * Cardinality(Counted(lines) \ NoDiacritics(lines))
       < ViPercent * Cardinality(Counted(lines))
  THEN NoDiacritics(lines) ELSE {}

\* Checks 4 and 5: index and timecodes are those of the source.
Moved(lines) == {i \in DOMAIN lines : lines[i].cue # i}

Fails(lines, check) ==
  CASE check = 3        -> Untranslated(lines)
    [] check \in {4, 5} -> Moved(lines)
    [] OTHER            -> Failing(lines, check)

\* The first failure counts; checks 9 to 12 in the order of their gravity.
Checks == <<2, 3, 4, 5, 6, 8, 9, 11, 12, 10>>
Passed == 0

Gate_NoLeakChecks(source, lines) ==
  LET bad == SelectSeq(<<2, 3, 4, 5, 6, 8>>, LAMBDA c : Fails(lines, c) # {}) IN
  IF Len(lines) # Len(source) THEN 1 ELSE IF bad = <<>> THEN Passed ELSE Head(bad)
Gate(source, lines) ==
  LET bad == SelectSeq(Checks, LAMBDA c : Fails(lines, c) # {}) IN
  IF Len(lines) # Len(source) THEN 1 ELSE IF bad = <<>> THEN Passed ELSE Head(bad)

\* Only a wrong text can be repaired, not a wrong structure.
Repairable == {3, 9, 10, 11, 12}
=============================================================================
