-------------------------------- MODULE Pronouns --------------------------------
(***************************************************************************)
(* Who speaks to whom, and with which pronouns: the attribution of Pass 2  *)
(* (translate/attribute.py) and its reconciliation with the Address Map of *)
(* the Series Bible (translate/reconcile.py).                              *)
(*                                                                         *)
(* A pair is an ordered pair of characters, and its terms what the first   *)
(* calls himself and the second.                                           *)
(***************************************************************************)
EXTENDS Naturals, Sequences, FiniteSets, SequencesExt

CONSTANTS
  Characters,
  Terms,       \* pairs of a self term and an address term
  NoTerms,     \* an entry whose terms are NULL
  SafeTerms,   \* get_safe_default: the neutral terms
  Reciprocal,  \* KINSHIP_RECIPROCAL: a function on some of the terms
  NoPair       \* speaker or addressee unknown

Pairs == {p \in Characters \X Characters : p[1] # p[2]}

Back(p) == <<p[2], p[1]>>

ASSUME PronounsAssumption ==
  /\ SafeTerms \in Terms
  /\ NoTerms \notin Terms
  /\ NoPair \notin Pairs
  /\ DOMAIN Reciprocal \subseteq Terms
  /\ \A t \in DOMAIN Reciprocal : Reciprocal[t] \in Terms

-----------------------------------------------------------------------------
(* Attributions. *)

Confidence == 1..3  \* low, medium, high

\* cue: the cue that the model was asked about.
Attribution == [cue: Nat, pair: Pairs \union {NoPair}, confidence: Confidence]

\* _all_low_unknown, and the filler of _fill_missing_indices.
Unknown(i) == [cue |-> i, pair |-> NoPair, confidence |-> 1]

\* _apply_name_matching: names that the Bible does not know count for nothing.
Matched(a) == IF a.pair = NoPair THEN [a EXCEPT !.confidence = 1] ELSE a

\* The attributions of a batch from an answer that may lack some of its lines:
\* answer is a function on a subset of the line numbers of the batch.
Attributed(batch, answer) ==
  [k \in DOMAIN batch |->
     IF k \in DOMAIN answer THEN Matched([answer[k] EXCEPT !.cue = batch[k]])
     ELSE Unknown(batch[k])]

-----------------------------------------------------------------------------
(* Reconciliation. *)

Entry  == [terms: Terms \union {NoTerms}, locked: BOOLEAN]
Vacant == [terms |-> <<>>, locked |-> FALSE]  \* no row

\* A relationship event of this episode between two characters, in either
\* direction, with the terms that Pass 1 suggests for the change or none.
Event == [pair: Pairs, terms: Terms \union {NoTerms}]

Transitions(events, p) == {e \in events : e.pair \in {p, Back(p)}}

Established(entry) == entry # Vacant /\ entry.terms # NoTerms

\* The terms to use, and whether they are written back.
Resolution(terms, write) == [terms |-> terms, write |-> write]

\* _derive_transition_terms: suggested, else established, else safe.
Derived_NoCarry(e, entry, sure) ==
  IF e.terms # NoTerms THEN e.terms
  ELSE IF sure /\ Established(entry) THEN entry.terms ELSE SafeTerms
Derived(e, entry, sure) ==
  IF e.terms # NoTerms THEN e.terms
  ELSE IF Established(entry) THEN entry.terms ELSE SafeTerms

\* A pair of the map or of this episode: the lock first, then an event, then
\* the established terms, else the safe ones.  `dated' is whether the episode's
\* key is known: events under S00E00 are not applied.
Resolved1(map, events, dated, sure, p) ==
  LET here == IF dated THEN Transitions(events, p) ELSE {} IN
  IF map[p].locked /\ Established(map[p]) THEN Resolution(map[p].terms, FALSE)
  ELSE IF here # {}
       THEN Resolution(Derived(CHOOSE e \in here : TRUE, map[p], p \in sure), TRUE)
  ELSE IF Established(map[p]) THEN Resolution(map[p].terms, p \in sure)
  ELSE Resolution(SafeTerms, p \in sure)

\* The pairs seen with enough confidence, and all that are processed.
Sure(attributions, threshold) ==
  {a.pair : a \in {b \in Range(attributions) : b.confidence >= threshold}} \ {NoPair}
Processed(map, attributions) ==
  ({a.pair : a \in Range(attributions)} \ {NoPair})
    \union {p \in Pairs : map[p] # Vacant}

Directly(map, events, dated, attributions, threshold) ==
  [p \in Processed(map, attributions) |->
     Resolved1(map, events, dated, Sure(attributions, threshold), p)]

\* The way back of a pair that nothing is known of follows from the way there.
Completed(direct) ==
  LET ways == {p \in DOMAIN direct : /\ direct[p].terms \in DOMAIN Reciprocal
                                     /\ Back(p) \notin DOMAIN direct}
  IN [q \in DOMAIN direct \union {Back(p) : p \in ways} |->
        IF q \in DOMAIN direct THEN direct[q]
        ELSE Resolution(Reciprocal[direct[Back(q)].terms], TRUE)]

Reconciled(map, events, dated, attributions, threshold) ==
  Completed(Directly(map, events, dated, attributions, threshold))

\* upsert_address_pair: what is locked by now stays.
Upserted(map, resolved, written) ==
  [p \in Pairs |-> IF p \notin written \/ map[p].locked THEN map[p]
                   ELSE [terms |-> resolved[p].terms, locked |-> FALSE]]

Written(resolved) == {p \in DOMAIN resolved : resolved[p].write}
=============================================================================
