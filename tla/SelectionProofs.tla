---------------------------- MODULE SelectionProofs ----------------------------
(***************************************************************************)
(* Theorems about Selection: its types; that no text of a source is        *)
(* translated twice while our output is there (TranslatedOnce); and that   *)
(* what a run writes is the wanted translation (ResultIsWanted).  They     *)
(* hold for every setting, the defaults included.                          *)
(***************************************************************************)
EXTENDS Selection, FiniteSetTheorems, WellFoundedInduction, TLAPS

-----------------------------------------------------------------------------
(* The order of the sources. *)

\* Min of a non-empty set of natural numbers is its least element.
LEMMA MinIs ==
  ASSUME NEW S \in SUBSET Nat, S # {}
  PROVE  Min(S) \in S /\ \A y \in S : Min(S) <= y
<1>1. PICK x \in S : \A y \in S : ~ (<<y, x>> \in OpToRel(<, Nat))
  BY WFMin, NatLessThanWellFounded, Zenon
<1>2. \A y \in S : ~ (y < x)
  BY <1>1 DEF OpToRel
<1>3. \E m \in S : \A y \in S : m <= y
  BY <1>2
<1> QED BY <1>3 DEF Min

\* find_source_sub finds nothing, or the first of the list that is there.
LEMMA FirstIs ==
  ASSUME NEW list \in Seq(Codes), NEW S
  PROVE  \/ FirstOf(list, S) = Absent /\ \A i \in DOMAIN list : list[i] \notin S
         \/ \E i \in DOMAIN list :
              /\ FirstOf(list, S) = list[i]
              /\ list[i] \in S /\ list[i] \in Codes
              /\ \A j \in DOMAIN list : list[j] \in S => i <= j
<1>1. CASE Hits(list, S) = {}
  BY <1>1 DEF FirstOf, Hits
<1>2. CASE Hits(list, S) # {}
  <2> DEFINE m == Min(Hits(list, S))
  <2>1. Hits(list, S) \in SUBSET Nat
    BY DEF Hits
  <2>2. m \in Hits(list, S) /\ \A j \in Hits(list, S) : m <= j
    BY <1>2, <2>1, MinIs
  <2>3. FirstOf(list, S) = list[m]
    BY <1>2 DEF FirstOf
  <2>4. m \in DOMAIN list /\ list[m] \in S /\ list[m] \in Codes
    BY <2>2 DEF Hits
  <2>5. \A j \in DOMAIN list : list[j] \in S => m <= j
    BY <2>2 DEF Hits
  <2> HIDE DEF m
  <2> QED BY <2>3, <2>4, <2>5
<1> QED BY <1>1, <1>2

\* What it finds is one of the codes it was asked for, or nothing.
LEMMA FirstIn ==
  ASSUME NEW list \in Seq(Codes), NEW S
  PROVE  /\ FirstOf(list, S) \in Codes \union {Absent}
         /\ FirstOf(list, S) # Absent => FirstOf(list, S) \in S
         /\ FirstOf(list, S) # Absent => FirstOf(list, S) \in Range(list)
<1>1. CASE FirstOf(list, S) = Absent
  BY <1>1
<1>2. CASE FirstOf(list, S) # Absent
  BY <1>2, FirstIs DEF Range
<1> QED BY <1>1, <1>2

\* The place of a code in the alphabet.
Pos(c) == Min(Hits(Alphabet, {c}))

\* Every code has its place, and no two have the same.
LEMMA PosIs ==
  ASSUME NEW c \in Codes
  PROVE  Pos(c) \in DOMAIN Alphabet /\ Pos(c) \in Nat /\ Alphabet[Pos(c)] = c
<1>1. Hits(Alphabet, {c}) \in SUBSET Nat
  BY SelectionAssumption DEF Hits
<1>2. Hits(Alphabet, {c}) # {}
  BY DEF Hits, Codes, Range
<1>3. Pos(c) \in Hits(Alphabet, {c})
  BY <1>1, <1>2, MinIs DEF Pos
<1> QED BY <1>1, <1>3 DEF Hits

\* The tie-break of sorted: the first of two codes is the one with the lower place.
LEMMA PosOrders ==
  ASSUME NEW c \in Codes, NEW d \in Codes
  PROVE  FirstOf(Alphabet, {c, d}) = c <=> Pos(c) <= Pos(d)
<1>1. /\ Pos(c) \in DOMAIN Alphabet /\ Pos(c) \in Nat /\ Alphabet[Pos(c)] = c
      /\ Pos(d) \in DOMAIN Alphabet /\ Pos(d) \in Nat /\ Alphabet[Pos(d)] = d
  BY PosIs
<1>2. PICK i \in DOMAIN Alphabet :
         /\ FirstOf(Alphabet, {c, d}) = Alphabet[i] /\ Alphabet[i] \in {c, d}
         /\ \A j \in DOMAIN Alphabet : Alphabet[j] \in {c, d} => i <= j
  BY <1>1, FirstIs, SelectionAssumption
<1>3. i \in Nat /\ i <= Pos(c) /\ i <= Pos(d)
  BY <1>1, <1>2, SelectionAssumption
<1>4. ASSUME NEW e \in Codes, Alphabet[i] = e
      PROVE  Pos(e) <= i
  <2>1. i \in Hits(Alphabet, {e}) /\ Hits(Alphabet, {e}) \in SUBSET Nat
    BY <1>2, <1>4, SelectionAssumption DEF Hits
  <2> QED BY <2>1, MinIs DEF Pos
<1>5. CASE Alphabet[i] = c
  BY <1>1, <1>2, <1>3, <1>4, <1>5
<1>6. CASE Alphabet[i] = d
  <2>1. Pos(d) = i
    BY <1>1, <1>3, <1>4, <1>6
  <2> QED BY <1>1, <1>2, <1>3, <1>6, <2>1
<1> QED BY <1>2, <1>5, <1>6

\* A key is a number: 0 for the original language, else the tier.
LEMMA KeyIs ==
  ASSUME NEW c \in Codes
  PROVE  SortKey(c) \in Nat /\ SortKey(c) \in 0..3
BY SelectionAssumption DEF SortKey

\* Of two codes at most one ranks before the other.
LEMMA RankedOneWay ==
  ASSUME NEW c \in Codes, NEW d \in Codes, Ranked(c, d), Ranked(d, c)
  PROVE  c = d
<1>1. {c, d} = {d, c}
  OBVIOUS
<1>2. FirstOf(Alphabet, {c, d}) = c /\ FirstOf(Alphabet, {d, c}) = d
  BY KeyIs DEF Ranked
<1> QED BY <1>1, <1>2

\* rank_sources: any non-empty set of codes has one that ranks before all others.
LEMMA BestExists ==
  ASSUME NEW S \in SUBSET Codes, S # {}
  PROVE  \E c \in S : \A d \in S \ {c} : Ranked(c, d)
<1> DEFINE K == {SortKey(c) : c \in S}
           T == {c \in S : SortKey(c) = Min(K)}
           P == {Pos(c) : c \in T}
<1>1. K \in SUBSET Nat /\ K # {}
  BY KeyIs
<1>2. Min(K) \in K /\ \A k \in K : Min(K) <= k
  BY <1>1, MinIs
<1>3. T # {}
  BY <1>2
<1>4. P \in SUBSET Nat /\ P # {}
  BY <1>3, PosIs
<1>5. Min(P) \in P /\ \A p \in P : Min(P) <= p
  BY <1>4, MinIs
<1>6. PICK c \in T : Pos(c) = Min(P)
  BY <1>5
<1>7. ASSUME NEW d \in S \ {c}
      PROVE  Ranked(c, d)
  <2>1. SortKey(c) <= SortKey(d) /\ SortKey(c) \in Nat /\ SortKey(d) \in Nat
    BY <1>2, KeyIs
  <2>2. CASE SortKey(c) = SortKey(d)
    <3>1. Pos(c) <= Pos(d)
      BY <1>5, <1>6, <2>2
    <3> QED BY <2>2, <3>1, PosOrders DEF Ranked
  <2> QED BY <2>1, <2>2 DEF Ranked
<1> QED BY <1>7

\* Best of a set is in it and ranks before all others; nothing else does.
LEMMA BestIs ==
  ASSUME NEW S \in SUBSET Codes, S # {}
  PROVE  /\ Best(S) \in S
         /\ \A d \in S \ {Best(S)} : Ranked(Best(S), d)
         /\ \A c \in S : (\A d \in S \ {c} : Ranked(c, d)) => Best(S) = c
<1>1. /\ Best(S) \in S
      /\ \A d \in S \ {Best(S)} : Ranked(Best(S), d)
  BY BestExists DEF Best
<1>2. ASSUME NEW c \in S, \A d \in S \ {c} : Ranked(c, d)
      PROVE  Best(S) = c
  <2>1. CASE Best(S) # c
    BY <1>1, <1>2, <2>1, RankedOneWay
  <2> QED BY <2>1
<1> QED BY <1>1, <1>2

\* select_source_for_item answers with a language of the set, or with none.
LEMMA SelectIs ==
  ASSUME NEW S \in SUBSET Codes, NEW list \in Seq(Codes)
  PROVE  SelectSource(list, S) \in S \union {Absent}
<1> DEFINE first == IF list = Priority THEN Absent ELSE FirstOf(list, S)
<1>1. first # Absent => first \in S
  BY FirstIn
<1>2. CASE first # Absent
  BY <1>1, <1>2 DEF SelectSource
<1>3. CASE first = Absent
  <2>1. SelectSource(list, S) = Best(S)
    BY <1>3 DEF SelectSource
  <2>2. CASE S = {}
    BY <2>1, <2>2 DEF Best
  <2> QED BY <2>1, <2>2, BestIs
<1> QED BY <1>2, <1>3

-----------------------------------------------------------------------------
(* Types. *)

\* A run past its scan has found a language, none is the best before the
\* selection, and one that is past its selection has chosen one.
Runs ==
  /\ item.pc # "idle" => item.found \in Codes
  /\ item.pc = "select" => item.best = Absent
  /\ item.pc = "translate" => item.chosen \in Codes

TInv == TypeOK /\ Runs

\* The user's list is one of codes, whoever set it.
LEMMA OverrideIs ==
  ASSUME TypeOK
  PROVE  override \in Seq(Codes)
<1>1. <<>> \in Seq(Codes)
  OBVIOUS
<1> QED BY <1>1, SelectionAssumption DEF TypeOK

\* The names of the bounds, and that each is a number.
LEMMA BoundsAre ==
  /\ DOMAIN Bounds = {"writes", "removals", "overrides", "failures"}
  /\ \A b \in DOMAIN Bounds : Bounds[b] \in Nat
  /\ Bounds["writes"] = MaxWrites
BY SelectionAssumption DEF Bounds

\* Using up a bound leaves a number, below it before.
LEMMA UsesType ==
  ASSUME used \in [DOMAIN Bounds -> Nat], NEW b \in DOMAIN Bounds, Uses(b)
  PROVE  used' \in [DOMAIN Bounds -> Nat] /\ used[b] < Bounds[b]
BY DEF Uses

\* A source that arrives has a new version, within the bound.
LEMMA SourceWrittenTypes ==
  ASSUME TInv, NEW c \in Langs, SourceWritten(c)
  PROVE  TInv'
<1>0. "writes" \in DOMAIN Bounds /\ Uses("writes")
  BY BoundsAre DEF SourceWritten
<1>1. used' \in [DOMAIN Bounds -> Nat] /\ used["writes"] < MaxWrites
  <2>1. used \in [DOMAIN Bounds -> Nat]
    BY DEF TInv, TypeOK
  <2>2. used' \in [DOMAIN Bounds -> Nat] /\ used["writes"] < Bounds["writes"]
    BY <1>0, <2>1, UsesType
  <2> QED BY <2>2, BoundsAre
<1>2. used["writes"] + 1 \in 1..MaxWrites
  BY <1>0, <1>1, SelectionAssumption DEF TInv, TypeOK
<1>3. [root |-> c, version |-> used["writes"] + 1, times |-> 0] \in Content
  BY <1>2, SelectionAssumption DEF Content
<1>4. file' \in [Codes -> Content \union {Absent}]
  BY <1>3 DEF SourceWritten, TInv, TypeOK, Langs
<1> QED BY <1>1, <1>4 DEF SourceWritten, TInv, TypeOK, Runs

\* A file that goes leaves Absent behind.
LEMMA FileRemovedTypes ==
  ASSUME TInv, NEW c \in Codes, FileRemoved(c)
  PROVE  TInv'
<1>1. used' \in [DOMAIN Bounds -> Nat]
  BY UsesType, BoundsAre DEF FileRemoved, TInv, TypeOK
<1>2. file' \in [Codes -> Content \union {Absent}] /\ paid' \subseteq Content
  BY DEF FileRemoved, TInv, TypeOK
<1> QED BY <1>1, <1>2 DEF FileRemoved, TInv, TypeOK, Runs

\* A user's list is one of Overrides.
LEMMA SetOverrideTypes ==
  ASSUME TInv, SetOverride
  PROVE  TInv'
<1>1. used' \in [DOMAIN Bounds -> Nat]
  BY UsesType, BoundsAre DEF SetOverride, TInv, TypeOK
<1> QED BY <1>1 DEF SetOverride, TInv, TypeOK, Runs

\* The scan finds a language of the configured list.
LEMMA ScanTypes ==
  ASSUME TInv, Scan
  PROVE  TInv'
<1> DEFINE c == FirstOf(Priority, OnDisk)
<1>1. c # Absent /\ item' = [NoItem EXCEPT !.pc = "select", !.found = c]
  BY DEF Scan
<1>2. c \in Codes
  BY <1>1, FirstIn, SelectionAssumption
<1> HIDE DEF c
<1>3. item' \in Item /\ item'.pc = "select" /\ item'.found = c /\ item'.best = Absent
  BY <1>1, <1>2 DEF Item, NoItem
<1> QED BY <1>2, <1>3 DEF Scan, TInv, TypeOK, Runs

\* A selection goes by the series' list or, where that is not known, by none, and
\* by a set of codes that holds those of the files if it sees them; or it fails.
LEMMA SelectCases ==
  ASSUME TInv, Select
  PROVE  \/ \E list \in {override, <<>>}, S \in SUBSET Codes :
              /\ LocalPath => OnDisk \subseteq S
              /\ item' = [item EXCEPT !.pc = "translate", !.list = list,
                             !.best = SelectSource(list, S),
                             !.chosen = Resolved(SelectSource(list, S))]
         \/ item' = [item EXCEPT !.pc = "translate", !.chosen = item.found]
<1>1. ASSUME NEW list \in {override, <<>>}, SelectBy(list)
      PROVE  \E S \in SUBSET Codes :
               /\ LocalPath => OnDisk \subseteq S
               /\ item' = [item EXCEPT !.pc = "translate", !.list = list,
                              !.best = SelectSource(list, S),
                              !.chosen = Resolved(SelectSource(list, S))]
  <2>1. PICK inventory \in SUBSET Reported :
          LET S == inventory \union (IF LocalPath THEN OnDisk ELSE {})
          IN  item' = [item EXCEPT !.pc = "translate", !.list = list,
                         !.best = SelectSource(list, S),
                         !.chosen = Resolved(SelectSource(list, S))]
    BY <1>1 DEF SelectBy
  <2> DEFINE S == inventory \union (IF LocalPath THEN OnDisk ELSE {})
  <2>2. S \in SUBSET Codes /\ (LocalPath => OnDisk \subseteq S)
    BY SelectionAssumption DEF OnDisk
  <2> QED BY <2>1, <2>2, Zenon
<1> QED BY <1>1 DEF Select

\* What it decides: the code it chooses has a file or is the scan's.
LEMMA SelectTypes ==
  ASSUME TInv, Select
  PROVE  TInv'
<1>1. item.found \in Codes /\ item \in Item
  BY DEF Select, TInv, TypeOK, Runs
<1>2. used' \in [DOMAIN Bounds -> Nat]
  BY UsesType, BoundsAre DEF Select, TInv, TypeOK
<1>3. item' \in Item /\ item'.pc = "translate" /\ item'.found = item.found
      /\ item'.chosen \in Codes
  <2>1. ASSUME NEW list \in {override, <<>>}, NEW S \in SUBSET Codes,
               item' = [item EXCEPT !.pc = "translate", !.list = list,
                          !.best = SelectSource(list, S),
                          !.chosen = Resolved(SelectSource(list, S))]
        PROVE  item' \in Item /\ item'.pc = "translate" /\ item'.found = item.found
               /\ item'.chosen \in Codes
    <3>0. <<>> \in Seq(Codes) /\ override \in Seq(Codes)
      BY OverrideIs DEF TInv
    <3>1. list \in Seq(Codes) /\ list \in Overrides \union {<<>>}
      <4>1. CASE list = override
        BY <3>0, <4>1 DEF TInv, TypeOK
      <4>2. CASE list = <<>>
        BY <3>0, <4>2
      <4> QED BY <4>1, <4>2
    <3>2. PICK b : b = SelectSource(list, S)
      OBVIOUS
    <3>3. b \in Codes \union {Absent}
      BY <3>1, <3>2, SelectIs
    <3>4. PICK c : c = Resolved(b)
      OBVIOUS
    <3>5. c \in Codes
      BY <1>1, <3>4 DEF Resolved, OnDisk
    <3>6. item' = [item EXCEPT !.pc = "translate", !.list = list, !.best = b, !.chosen = c]
      BY <2>1, <3>2, <3>4
    <3> QED BY <1>1, <3>1, <3>3, <3>5, <3>6 DEF Item
  <2>2. CASE item' = [item EXCEPT !.pc = "translate", !.chosen = item.found]
    BY <1>1, <2>2 DEF Item
  <2> QED BY <2>1, <2>2, SelectCases
<1> QED BY <1>1, <1>2, <1>3 DEF Select, TInv, TypeOK, Runs

\* A run that ends forgets nothing of what it found and chose.
LEMMA EndsTypes ==
  ASSUME TInv, NEW result \in {"done", "skipped", "failed"}, Ends(result)
  PROVE  /\ item' \in Item /\ item'.pc = "idle" /\ item'.result = result
         /\ item'.found = item.found /\ item'.best = item.best
         /\ item'.list = item.list /\ item'.chosen = item.chosen
BY DEF Ends, TInv, TypeOK, Item

\* One more translation of a text is a text.
LEMMA TranslationIs ==
  ASSUME TInv, NEW c \in Codes, Proceeds(c)
  PROVE  /\ Translation(c) \in Content /\ file[c] \in Content
         /\ Translation(c) # Absent
<1>1. file[c] \in Content /\ file[c].times < MaxTimes
  BY DEF Proceeds, TInv, TypeOK
<1>2. Translation(c) \in Content
  BY <1>1, SelectionAssumption DEF Translation, Content
<1> QED BY <1>1, <1>2, ContentAssumption

\* The rows that translate_file writes are rows.
LEMMA RowForIs ==
  ASSUME NEW c \in Codes, file[c] \in Content,
         NEW status \in {"in_progress", "done", "quarantined"}
  PROVE  RowFor(c, status) \in Row
BY DEF RowFor, Row

\* The end of a successful run.
LEMMA TranslateDoneTypes ==
  ASSUME TInv, TranslateDone
  PROVE  TInv'
<1> DEFINE c == item.chosen
<1>1. c \in Codes /\ Proceeds(c)
  BY DEF TranslateDone, Proceeds, TInv, Runs
<1>2. Translation(c) \in Content /\ file[c] \in Content
  BY <1>1, TranslationIs
<1>3. RowFor(c, "done") \in Row
  BY <1>1, <1>2, RowForIs
<1>4. file' \in [Codes -> Content \union {Absent}]
  BY <1>2, SelectionAssumption DEF TranslateDone, TInv, TypeOK
<1>5. ledger' \in [Codes -> Row]
  BY <1>1, <1>3 DEF TranslateDone, TInv, TypeOK
<1>6. item' \in Item /\ item'.pc = "idle"
  BY EndsTypes DEF TranslateDone
<1>7. paid' \subseteq Content
  BY <1>2 DEF TranslateDone, TInv, TypeOK
<1> QED BY <1>4, <1>5, <1>6, <1>7 DEF TranslateDone, TInv, TypeOK, Runs

\* A quarantine, or the end of the process.
LEMMA TranslateFailsTypes ==
  ASSUME TInv, TranslateFails
  PROVE  TInv'
<1> DEFINE c == item.chosen
<1>1. c \in Codes /\ Proceeds(c)
  BY DEF TranslateFails, Proceeds, TInv, Runs
<1>2. Translation(c) \in Content /\ file[c] \in Content
  BY <1>1, TranslationIs
<1>3. RowFor(c, "quarantined") \in Row /\ RowFor(c, "in_progress") \in Row
  BY <1>1, <1>2, RowForIs
<1>4. file' \in [Codes -> Content \union {Absent}]
  <2>1. file \in [Codes -> Content \union {Absent}] /\ Vi \in Codes
    BY SelectionAssumption DEF TInv, TypeOK
  <2>2. file' \in {file, [file EXCEPT ![Vi] = Translation(c)]}
    BY DEF TranslateFails
  <2> QED BY <1>2, <2>1, <2>2
<1>5. ledger' \in [Codes -> Row]
  BY <1>1, <1>3 DEF TranslateFails, TInv, TypeOK
<1>6. item' \in Item /\ item'.pc = "idle"
  BY EndsTypes DEF TranslateFails
<1>7. used' \in [DOMAIN Bounds -> Nat]
  BY UsesType, BoundsAre DEF TranslateFails, TInv, TypeOK
<1> QED BY <1>4, <1>5, <1>6, <1>7 DEF TranslateFails, TInv, TypeOK, Runs

\* Every step keeps the types.
LEMMA NextTypes ==
  ASSUME TInv, [Next]_vars
  PROVE  TInv'
<1>1. CASE TranslateSkips
  <2>1. item' \in Item /\ item'.pc = "idle"
    BY <1>1, EndsTypes DEF TranslateSkips
  <2> QED BY <1>1, <2>1 DEF TranslateSkips, TInv, TypeOK, Runs
<1>2. CASE TranslateRaises
  <2>1. item' \in Item /\ item'.pc = "idle"
    BY <1>2, EndsTypes DEF TranslateRaises
  <2> QED BY <1>2, <2>1 DEF TranslateRaises, TInv, TypeOK, Runs
<1>3. CASE UNCHANGED vars
  BY <1>3 DEF vars, TInv, TypeOK, Runs
<1> QED
  BY <1>1, <1>2, <1>3, SourceWrittenTypes, FileRemovedTypes, SetOverrideTypes, ScanTypes,
     SelectTypes, TranslateDoneTypes, TranslateFailsTypes DEF Next

\* The initial state has its types.
LEMMA InitTypes ==
  Init => TInv
<1> SUFFICES ASSUME Init PROVE TInv
  OBVIOUS
<1>1. /\ file \in [Codes -> Content \union {Absent}]
      /\ ledger \in [Codes -> Row]
      /\ override \in Overrides \union {<<>>}
      /\ fresh \in BOOLEAN /\ paid \subseteq Content
      /\ used \in [DOMAIN Bounds -> Nat]
  BY DEF Init, Row, NoRow
<1>2. item \in Item /\ item.pc = "idle"
  BY DEF Init, Item, NoItem
<1> QED BY <1>1, <1>2 DEF TInv, TypeOK, Runs

\* The types hold in every state, with what a run has found and chosen.
THEOREM TypesHold == Spec => []TInv
<1> QED BY InitTypes, NextTypes, PTL DEF Spec

\* The model of source selection stays within its types.
THEOREM TypeCorrect == Spec => []TypeOK
<1>1. TInv => TypeOK
  BY DEF TInv
<1> QED BY <1>1, TypesHold, PTL

-----------------------------------------------------------------------------
(* No text of a source is translated twice. *)

\* What is in the files: versions that were written; a source is its own text, and
\* our output a translation.
Texts ==
  \A c \in Codes : file[c] # Absent =>
    /\ file[c].version <= used["writes"]
    /\ c # Vi => file[c].root = c /\ file[c].times = 0
    /\ c = Vi => file[c].times > 0

\* Why a text that is paid for is not translated again: while our output is there
\* it is that of a version already written, and a source that still has it is one
\* whose row is done with its hash.
Paid ==
  /\ \A x \in paid : x.version <= used["writes"]
  /\ paid # {} => file[Vi] # Absent
  /\ \A c \in Langs : file[c] \in paid =>
       ledger[c].status = "done" /\ ledger[c].hash = file[c]

PInv == TInv /\ Texts /\ Paid

\* A source arrives with a text that nobody has translated.
LEMMA SourceWrittenPaid ==
  ASSUME PInv, TInv', NEW c \in Langs, SourceWritten(c)
  PROVE  Texts' /\ Paid'
<1>1. "writes" \in DOMAIN Bounds /\ used \in [DOMAIN Bounds -> Nat]
  BY BoundsAre DEF PInv, TInv, TypeOK
<1>2. PICK w \in Nat : w = used["writes"]
  BY <1>1
<1>3. used'["writes"] = w + 1
  BY <1>1, <1>2 DEF SourceWritten, Uses
<1>4. PICK t : t = [root |-> c, version |-> w + 1, times |-> 0]
  OBVIOUS
<1>5. t.root = c /\ t.version = w + 1 /\ t.times = 0
  BY <1>4
<1>6. /\ file'[c] = t /\ \A d \in Codes : d # c => file'[d] = file[d]
      /\ UNCHANGED <<ledger, paid>> /\ c \in Codes /\ c # Vi
  BY <1>2, <1>4 DEF SourceWritten, PInv, TInv, TypeOK, Langs
<1>7. \A d \in Codes : file[d] # Absent => file[d].version \in Nat
  BY DEF PInv, TInv, TypeOK, Content
<1>8. \A x \in paid : x.version \in Nat
  BY DEF PInv, TInv, TypeOK, Content
<1>9. \A x \in paid : x.version <= w /\ x.version <= w + 1 /\ x # t
  BY <1>2, <1>5, <1>8 DEF PInv, Paid
<1>10. Texts'
  <2>1. \A d \in Codes : d # c => (file'[d] # Absent => file'[d].version <= w + 1)
    BY <1>2, <1>6, <1>7 DEF PInv, Texts
  <2> QED BY <1>3, <1>5, <1>6, <2>1 DEF PInv, Texts
<1>11. Paid'
  <2>1. paid' # {} => file'[Vi] # Absent
    BY <1>6, SelectionAssumption DEF PInv, Paid
  <2>2. ASSUME NEW d \in Langs, file'[d] \in paid'
        PROVE  ledger'[d].status = "done" /\ ledger'[d].hash = file'[d]
    <3>1. d # c
      BY <1>6, <1>9, <2>2
    <3> QED BY <1>6, <2>2, <3>1 DEF PInv, Paid, Langs
  <2> QED BY <1>3, <1>6, <1>9, <2>1, <2>2 DEF Paid
<1> QED BY <1>10, <1>11

\* With our output goes what was paid for; a source that goes leaves no text.
LEMMA FileRemovedPaid ==
  ASSUME PInv, NEW c \in Codes, FileRemoved(c)
  PROVE  Texts' /\ Paid'
<1>1. /\ file'[c] = Absent /\ \A d \in Codes : d # c => file'[d] = file[d]
      /\ ledger' = ledger /\ paid' = IF c = Vi THEN {} ELSE paid
  BY DEF FileRemoved, PInv, TInv, TypeOK
<1>2. used'["writes"] = used["writes"]
  BY BoundsAre DEF FileRemoved, Uses, PInv, TInv, TypeOK
<1>3. Absent \notin paid /\ Vi \in Codes
  BY ContentAssumption, SelectionAssumption DEF PInv, TInv, TypeOK
<1>4. Texts'
  BY <1>1, <1>2 DEF PInv, Texts
<1>5. CASE c = Vi
  <2>1. paid' = {} /\ \A x : x \notin paid'
    BY <1>1, <1>5
  <2>2. /\ \A x \in paid' : x.version <= used'["writes"]
        /\ paid' # {} => file'[Vi] # Absent
        /\ \A d \in Langs : file'[d] \in paid' =>
             ledger'[d].status = "done" /\ ledger'[d].hash = file'[d]
    BY <2>1, Zenon
  <2> QED BY <1>4, <2>2 DEF Paid
<1>6. CASE c # Vi
  <2>1. paid' = paid /\ file'[Vi] = file[Vi]
    BY <1>1, <1>3, <1>6
  <2>2. ASSUME NEW d \in Langs, file'[d] \in paid
        PROVE  ledger'[d].status = "done" /\ ledger'[d].hash = file'[d]
    <3>1. file'[d] = file[d]
      BY <1>1, <1>3, <2>2 DEF Langs
    <3> QED BY <1>1, <2>2, <3>1 DEF PInv, Paid
  <2>3. \A x \in paid' : x.version <= used'["writes"]
    BY <1>2, <2>1 DEF PInv, Paid
  <2>4. paid' # {} => file'[Vi] # Absent
    BY <2>1 DEF PInv, Paid
  <2>5. \A d \in Langs : file'[d] \in paid' =>
          ledger'[d].status = "done" /\ ledger'[d].hash = file'[d]
    BY <2>1, <2>2
  <2> QED BY <1>4, <2>3, <2>4, <2>5 DEF Paid
<1> QED BY <1>5, <1>6

\* What a run that proceeds does: only our output and the row of its source change.
LEMMA Writes ==
  ASSUME PInv, NEW c \in Codes, c = item.chosen, Proceeds(c),
         file' \in {file, [file EXCEPT ![Vi] = Translation(c)]}
  PROVE  /\ \A d \in Langs : file'[d] = file[d]
         /\ file[Vi] # Absent => file'[Vi] # Absent
         /\ used'["writes"] = used["writes"] => Texts'
<1>1. /\ Translation(c) # Absent /\ file[c] \in Content
      /\ Translation(c).version = file[c].version /\ Translation(c).times = file[c].times + 1
      /\ Translation(c).times > 0
  <2>1. PICK x : x = file[c]
    OBVIOUS
  <2>2. x \in Content /\ Translation(c) # Absent /\ Translation(c) = [x EXCEPT !.times = @ + 1]
    BY <2>1, TranslationIs DEF Translation, PInv
  <2>3. x.times \in Nat /\ Translation(c).version = x.version /\ Translation(c).times = x.times + 1
    BY <2>2 DEF Content
  <2> QED BY <2>1, <2>2, <2>3
<1>2. file \in [Codes -> Content \union {Absent}] /\ Vi \in Codes
  BY SelectionAssumption DEF PInv, TInv, TypeOK
<1>3. PICK t : t = Translation(c)
  OBVIOUS
<1>4. t # Absent /\ t.version = file[c].version /\ t.times > 0 /\ file[c] # Absent
  BY <1>1, <1>3, ContentAssumption
<1>5. file' = file \/ file' = [file EXCEPT ![Vi] = t]
  BY <1>3
<1>6. /\ \A d \in Codes : d # Vi => file'[d] = file[d]
      /\ file'[Vi] = file[Vi] \/ file'[Vi] = t
  BY <1>2, <1>5
<1>7. t.version <= used["writes"]
  BY <1>4 DEF PInv, Texts
<1>8. ASSUME used'["writes"] = used["writes"]
      PROVE  Texts'
  <2>1. ASSUME NEW d \in Codes, d # Vi, file'[d] # Absent
        PROVE  file'[d].version <= used'["writes"] /\ file'[d].root = d /\ file'[d].times = 0
    BY <1>6, <1>8, <2>1 DEF PInv, Texts
  <2>2. CASE file'[Vi] = t
    BY <1>4, <1>7, <1>8, <2>1, <2>2 DEF Texts
  <2>3. CASE file'[Vi] = file[Vi]
    BY <1>2, <1>8, <2>1, <2>3 DEF PInv, Texts
  <2> QED BY <1>6, <2>2, <2>3
<1> QED BY <1>4, <1>6, <1>8 DEF Langs

\* The end of a successful run: its source's row is done with the hash of its text.
LEMMA TranslateDonePaid ==
  ASSUME PInv, TranslateDone
  PROVE  Texts' /\ Paid'
<1>1. PICK c : c = item.chosen
  OBVIOUS
<1>2. c \in Codes /\ Proceeds(c)
  BY <1>1 DEF TranslateDone, Proceeds, PInv, TInv, Runs
<1>3. /\ used' = used /\ paid' = paid \union {file[c]}
      /\ file' = [file EXCEPT ![Vi] = Translation(c)]
      /\ ledger' = [ledger EXCEPT ![c] = RowFor(c, "done")]
  BY <1>1 DEF TranslateDone
<1>4. Texts' /\ \A d \in Langs : file'[d] = file[d]
  BY <1>1, <1>2, <1>3, Writes
<1>5. file'[Vi] # Absent
  BY <1>2, <1>3, TranslationIs, SelectionAssumption DEF PInv, TInv, TypeOK
<1>6. file[c] # Absent /\ file[c].version <= used["writes"]
  BY <1>2 DEF Proceeds, PInv, Texts
<1>7. /\ ledger'[c].status = "done" /\ ledger'[c].hash = file[c]
      /\ \A d \in Codes : d # c => ledger'[d] = ledger[d]
  <2>1. RowFor(c, "done").status = "done" /\ RowFor(c, "done").hash = file[c]
    BY DEF RowFor
  <2> QED BY <1>2, <1>3, <2>1 DEF PInv, TInv, TypeOK
<1>8. ASSUME NEW d \in Langs, file'[d] \in paid'
      PROVE  ledger'[d].status = "done" /\ ledger'[d].hash = file'[d]
  <2>1. CASE d = c
    BY <1>4, <1>7, <2>1
  <2>2. CASE d # c
    <3>1. file[d] # file[c]
      BY <1>2, <1>6, <2>2 DEF PInv, Texts, Langs
    <3> QED BY <1>3, <1>4, <1>7, <1>8, <2>2, <3>1 DEF PInv, Paid, Langs
  <2> QED BY <2>1, <2>2
<1>9. \A x \in paid' : x.version <= used'["writes"]
  BY <1>3, <1>6 DEF PInv, Paid
<1> QED BY <1>4, <1>5, <1>8, <1>9 DEF Paid

\* A run that proceeds does so with a source of which nobody has paid the text.
LEMMA ProceedsUnpaid ==
  ASSUME PInv, NEW c \in Langs, Proceeds(c)
  PROVE  file[c] \notin paid
<1>1. file[Vi] # Absent /\ file[c] \in paid => UpToDate(c)
  BY DEF PInv, Paid, UpToDate, SidecarExists
<1> QED BY <1>1 DEF Proceeds, Skips, PInv, Paid

\* A run that fails takes back a row of which the text is not paid.
LEMMA TranslateFailsPaid ==
  ASSUME PInv, TranslateFails
  PROVE  Texts' /\ Paid'
<1>1. PICK c : c = item.chosen
  OBVIOUS
<1>2. c \in Codes /\ Proceeds(c)
  BY <1>1 DEF TranslateFails, Proceeds, PInv, TInv, Runs
<1>3. /\ paid' = paid /\ file' \in {file, [file EXCEPT ![Vi] = Translation(c)]}
      /\ \E row : ledger' = [ledger EXCEPT ![c] = row]
  BY <1>1 DEF TranslateFails
<1>4. used'["writes"] = used["writes"]
  BY BoundsAre DEF TranslateFails, Uses, PInv, TInv, TypeOK
<1>5. /\ Texts' /\ \A d \in Langs : file'[d] = file[d]
      /\ file[Vi] # Absent => file'[Vi] # Absent
  BY <1>1, <1>2, <1>3, <1>4, Writes
<1>6. \A d \in Codes : d # c => ledger'[d] = ledger[d]
  BY <1>3 DEF PInv, TInv, TypeOK
<1>7. ASSUME NEW d \in Langs, file'[d] \in paid
      PROVE  ledger'[d].status = "done" /\ ledger'[d].hash = file'[d]
  <2>1. d # c
    BY <1>2, <1>5, <1>7, ProceedsUnpaid
  <2> QED BY <1>5, <1>6, <1>7, <2>1 DEF PInv, Paid, Langs
<1> QED BY <1>3, <1>4, <1>5, <1>7 DEF PInv, Paid

\* Every step keeps the texts and what is paid for.
LEMMA NextPaid ==
  ASSUME PInv, [Next]_vars
  PROVE  PInv'
<1>1. TInv'
  BY NextTypes DEF PInv
<1>2. ASSUME UNCHANGED <<file, ledger, paid>>, used'["writes"] = used["writes"]
      PROVE  Texts' /\ Paid'
  BY <1>2 DEF PInv, Texts, Paid
<1>3. ASSUME NEW c \in Langs, SourceWritten(c)
      PROVE  PInv'
  BY <1>1, <1>3, SourceWrittenPaid DEF PInv
<1>4. ASSUME NEW c \in Codes, FileRemoved(c)
      PROVE  PInv'
  BY <1>1, <1>4, FileRemovedPaid DEF PInv
<1>5. CASE SetOverride
  <2>1. used'["writes"] = used["writes"]
    BY <1>5, BoundsAre DEF SetOverride, Uses, PInv, TInv, TypeOK
  <2> QED BY <1>1, <1>2, <1>5, <2>1 DEF SetOverride, PInv
<1>6. CASE Select
  <2>1. used'["writes"] = used["writes"]
    BY <1>6, BoundsAre DEF Select, Uses, PInv, TInv, TypeOK
  <2> QED BY <1>1, <1>2, <1>6, <2>1 DEF Select, PInv
<1>7. CASE Scan \/ TranslateSkips \/ TranslateRaises \/ UNCHANGED vars
  <2>1. UNCHANGED <<file, ledger, paid, used>>
    BY <1>7 DEF Scan, TranslateSkips, TranslateRaises, vars
  <2> QED BY <1>1, <1>2, <2>1 DEF PInv
<1>8. CASE TranslateDone
  BY <1>1, <1>8, TranslateDonePaid DEF PInv
<1>9. CASE TranslateFails
  BY <1>1, <1>9, TranslateFailsPaid DEF PInv
<1> QED BY <1>3, <1>4, <1>5, <1>6, <1>7, <1>8, <1>9 DEF Next

\* The texts and what is paid for hold in every state.
THEOREM PaidHolds == Spec => []PInv
<1>1. Init => PInv
  <2> SUFFICES ASSUME Init PROVE PInv
    OBVIOUS
  <2>1. \A c \in Codes : file[c] = Absent
    BY DEF Init
  <2>2. paid = {} /\ Absent \notin paid
    BY DEF Init
  <2> QED BY <2>1, <2>2, InitTypes DEF PInv, Texts, Paid, Langs
<1> QED BY <1>1, NextPaid, PTL DEF Spec

\* D-27, D-110: as long as our output is there, no text of a source is translated
\* twice, whatever the scan and the selections choose and whatever fails.
THEOREM TranslatedOnceAlways == Spec => TranslatedOnce
<1>1. PInv /\ [Next]_vars => [TranslateDone /\ item.chosen # Vi => file[item.chosen] \notin paid]_vars
  <2> SUFFICES ASSUME PInv, TranslateDone, item.chosen # Vi
               PROVE  file[item.chosen] \notin paid
    OBVIOUS
  <2>1. item.chosen \in Langs /\ Proceeds(item.chosen)
    BY DEF TranslateDone, Proceeds, PInv, TInv, Runs, Langs
  <2> QED BY <2>1, ProceedsUnpaid
<1> QED BY <1>1, PaidHolds, PTL DEF Spec, TranslatedOnce

-----------------------------------------------------------------------------
(* What a run writes is what was wanted. *)

\* Wanted as a function of the list and of the sources that are there.
WantedFrom(list, sources) ==
  LET asked == IF list = Priority THEN Absent ELSE FirstOf(list, sources)
  IN  IF asked # Absent THEN asked
      ELSE IF Original \in sources THEN Original
      ELSE CHOOSE c \in sources : \A d \in sources :
             /\ Tier[c] <= Tier[d]
             /\ Tier[c] = Tier[d] => FirstOf(Alphabet, {c, d}) = c

Source == IF LocalPath /\ item.best \in OnDisk \ {Vi}
          THEN WantedFrom(item.list, OnDisk \ {Vi})
          ELSE item.found

\* A run that nobody disturbs has chosen, if not our own output, the wanted source
\* or, where the best has no file, what it found.
ResultInv ==
  /\ fresh /\ item.pc = "translate" /\ item.chosen # Vi => item.chosen = Source
  /\ fresh /\ item.pc = "idle" /\ item.result = "done" /\ item.chosen # Vi =>
       file[Vi] = [file[Source] EXCEPT !.times = 1]

\* Without an entry of the override, the best of the sources is the original
\* language, or the one of the least tier, ties by the alphabet.
LEMMA BestIsWanted ==
  ASSUME NEW list, NEW sources \in SUBSET Codes, sources # {},
         list # Priority => FirstOf(list, sources) = Absent
  PROVE  WantedFrom(list, sources) = Best(sources)
<1> DEFINE b == Best(sources)
           P(c) == \A d \in sources : /\ Tier[c] <= Tier[d]
                                      /\ Tier[c] = Tier[d] => FirstOf(Alphabet, {c, d}) = c
<1>1. b \in sources /\ \A d \in sources \ {b} : Ranked(b, d)
  BY BestIs
<1> HIDE DEF b
<1>2. WantedFrom(list, sources) = IF Original \in sources THEN Original
                                  ELSE CHOOSE c \in sources : P(c)
  BY DEF WantedFrom
<1> HIDE DEF P
<1>3. CASE Original \in sources
  <2>1. SortKey(Original) = 0
    BY DEF SortKey
  <2>2. b # Original => Ranked(b, Original) /\ SortKey(b) \in 1..3
    BY <1>1, <1>3, SelectionAssumption DEF SortKey
  <2>3. b = Original
    BY <2>1, <2>2 DEF Ranked
  <2> QED BY <1>2, <1>3, <2>3 DEF b
<1>4. CASE Original \notin sources
  <2>1. \A c \in sources : SortKey(c) = Tier[c] /\ Tier[c] \in 1..3
    BY <1>4, SelectionAssumption DEF SortKey
  <2>2. FirstOf(Alphabet, {b, b}) = b
    BY <1>1, PosOrders, PosIs
  <2>3. P(b)
    BY <1>1, <2>1, <2>2 DEF Ranked, P
  <2>4. ASSUME NEW c \in sources, P(c)
        PROVE  c = b
    <3>1. {c, b} = {b, c}
      OBVIOUS
    <3>2. Tier[c] = Tier[b]
      <4>1. Tier[c] <= Tier[b]
        BY <1>1, <2>4 DEF P
      <4>2. Tier[b] <= Tier[c]
        BY <2>3 DEF P
      <4>3. Tier[b] \in 1..3 /\ Tier[c] \in 1..3
        BY <1>1, <2>1
      <4> QED BY <4>1, <4>2, <4>3
    <3>3. FirstOf(Alphabet, {c, b}) = c /\ FirstOf(Alphabet, {b, c}) = b
      BY <1>1, <2>3, <2>4, <3>2 DEF P
    <3> QED BY <3>1, <3>3
  <2>5. (CHOOSE c \in sources : P(c)) = b
    BY <1>1, <2>3, <2>4
  <2> QED BY <1>2, <1>4, <2>5 DEF b
<1> QED BY <1>3, <1>4

\* What the selection takes for the best is the wanted source, if it has a file
\* and is not our own output.
LEMMA SelectsWanted ==
  ASSUME NEW S \in SUBSET Codes, OnDisk \subseteq S, NEW list \in Seq(Codes),
         SelectSource(list, S) \in OnDisk \ {Vi}
  PROVE  WantedFrom(list, OnDisk \ {Vi}) = SelectSource(list, S)
<1> DEFINE first == IF list = Priority THEN Absent ELSE FirstOf(list, S)
           sources == OnDisk \ {Vi}
<1>0. PICK b : b = SelectSource(list, S)
  OBVIOUS
<1>1. /\ sources \in SUBSET Codes /\ sources \subseteq S /\ b \in sources
      /\ b # Absent
  BY <1>0, SelectionAssumption DEF OnDisk
<1> HIDE DEF sources
<1>3. CASE first # Absent
  <2>1. b = FirstOf(list, S) /\ list # Priority
    BY <1>0, <1>3 DEF SelectSource
  <2>2. PICK i \in DOMAIN list :
          /\ b = list[i] /\ list[i] \in S
          /\ \A j \in DOMAIN list : list[j] \in S => i <= j
    BY <1>1, <2>1, FirstIs
  <2>3. list[i] \in sources
    BY <1>1, <2>2
  <2>4. PICK k \in DOMAIN list :
          /\ FirstOf(list, sources) = list[k]
          /\ list[k] \in sources /\ list[k] \in Codes
          /\ \A j \in DOMAIN list : list[j] \in sources => k <= j
    BY <2>3, FirstIs
  <2>5. k <= i /\ i <= k
    BY <1>1, <2>2, <2>3, <2>4
  <2>6. k = i
    BY <2>5
  <2>7. FirstOf(list, sources) = b
    BY <2>2, <2>4, <2>6
  <2>8. WantedFrom(list, sources) = b
    BY <1>1, <2>1, <2>7 DEF WantedFrom
  <2> QED BY <1>0, <2>8 DEF sources
<1>4. CASE first = Absent
  <2>1. b = Best(S)
    BY <1>0, <1>4 DEF SelectSource
  <2>2. b \in S /\ \A d \in S \ {b} : Ranked(b, d)
    BY <1>1, <2>1, BestIs
  <2>3. Best(sources) = b
    BY <1>1, <2>2, BestIs
  <2>4. list # Priority => FirstOf(list, sources) = Absent
    <3>1. list # Priority => \A i \in DOMAIN list : list[i] \notin S
      <4>1. ASSUME list # Priority
            PROVE  FirstOf(list, S) = Absent
        BY <1>4, <4>1
      <4> QED BY <4>1, FirstIs, SelectionAssumption
    <3> QED BY <1>1, <3>1, FirstIs
  <2>5. WantedFrom(list, sources) = b
    BY <1>1, <2>3, <2>4, BestIsWanted
  <2> QED BY <1>0, <2>5 DEF sources
<1> QED BY <1>3, <1>4

\* The selection: by a list, or none.
LEMMA SelectResult ==
  ASSUME PInv, ResultInv, Select
  PROVE  ResultInv'
<1>1. UNCHANGED <<file, override, fresh>> /\ item.pc = "select" /\ item.best = Absent
  BY DEF Select, PInv, TInv, Runs
<1>2. OnDisk' = OnDisk /\ Absent \notin OnDisk
  BY <1>1, SelectionAssumption DEF OnDisk
<1>3. <<>> \in Seq(Codes) /\ override \in Seq(Codes) /\ item \in Item
  BY OverrideIs DEF PInv, TInv, TypeOK
<1>4. item'.pc = "translate" /\ (item'.chosen # Vi => item'.chosen = Source')
  <2>1. ASSUME NEW list \in {override, <<>>}, NEW S \in SUBSET Codes,
               LocalPath => OnDisk \subseteq S,
               item' = [item EXCEPT !.pc = "translate", !.list = list,
                          !.best = SelectSource(list, S),
                          !.chosen = Resolved(SelectSource(list, S))]
        PROVE  item'.pc = "translate" /\ (item'.chosen # Vi => item'.chosen = Source')
    <3>1. list \in Seq(Codes)
      <4>1. CASE list = override
        BY <1>3, <4>1
      <4>2. CASE list = <<>>
        BY <1>3, <4>2
      <4> QED BY <4>1, <4>2
    <3>2. PICK b : b = SelectSource(list, S)
      OBVIOUS
    <3>3. PICK c : c = Resolved(b)
      OBVIOUS
    <3>4. item' = [item EXCEPT !.pc = "translate", !.list = list, !.best = b, !.chosen = c]
      BY <2>1, <3>2, <3>3
    <3>5. /\ item'.pc = "translate" /\ item'.list = list /\ item'.best = b
          /\ item'.chosen = c /\ item'.found = item.found
      BY <1>3, <3>4 DEF Item
    <3>6. PICK w : w = WantedFrom(list, OnDisk \ {Vi})
      OBVIOUS
    <3>7. Source' = IF LocalPath /\ b \in OnDisk \ {Vi} THEN w ELSE item.found
      <4>1. WantedFrom(item.list, OnDisk \ {Vi})' = w
        BY <1>2, <3>5, <3>6 DEF WantedFrom
      <4> QED BY <1>2, <3>5, <4>1 DEF Source
    <3>8. LocalPath /\ b \in OnDisk \ {Vi} => w = b
      BY <2>1, <3>1, <3>2, <3>6, SelectsWanted
    <3> QED BY <3>3, <3>5, <3>7, <3>8 DEF Resolved
  <2>2. ASSUME item' = [item EXCEPT !.pc = "translate", !.chosen = item.found]
        PROVE  item'.pc = "translate" /\ (item'.chosen # Vi => item'.chosen = Source')
    <3>1. /\ item'.pc = "translate" /\ item'.best = Absent
          /\ item'.chosen = item.found /\ item'.found = item.found
      BY <1>1, <1>3, <2>2 DEF Item
    <3> QED BY <1>2, <3>1 DEF Source
  <2>3. TInv
    BY DEF PInv
  <2> QED BY <2>1, <2>2, <2>3, SelectCases
<1> QED BY <1>4 DEF ResultInv

\* The end of a run: the sidecar is the translation of what was chosen, which is
\* still the wanted source.
LEMMA TranslateDoneResult ==
  ASSUME PInv, ResultInv, TranslateDone
  PROVE  ResultInv'
<1>1. PICK c : c = item.chosen
  OBVIOUS
<1>2. c \in Codes /\ Proceeds(c)
  BY <1>1 DEF TranslateDone, Proceeds, PInv, TInv, Runs
<1>3. /\ item'.pc = "idle" /\ item'.found = item.found /\ item'.best = item.best
      /\ item'.list = item.list /\ item'.chosen = c
  BY <1>1, EndsTypes DEF TranslateDone, PInv
<1>4. UNCHANGED <<override, fresh>> /\ file' = [file EXCEPT ![Vi] = Translation(c)]
  BY <1>1 DEF TranslateDone
<1>5. /\ file'[Vi] = Translation(c)
      /\ \A d \in Codes : d # Vi => file'[d] = file[d]
  BY <1>4, SelectionAssumption DEF PInv, TInv, TypeOK
<1>6. PICK w : w = WantedFrom(item.list, OnDisk \ {Vi})
  OBVIOUS
<1>7. PICK sources : sources = OnDisk \ {Vi}
  OBVIOUS
<1>8. OnDisk' \ {Vi} = sources
  <2>1. \A d : d \in OnDisk' \ {Vi} <=> d \in OnDisk \ {Vi}
    BY <1>5 DEF OnDisk
  <2>2. OnDisk' \ {Vi} = OnDisk \ {Vi}
    BY <2>1
  <2> QED BY <1>7, <2>2
<1>9. Source' = IF LocalPath /\ item.best \in sources THEN w ELSE item.found
  <2>1. WantedFrom(item.list, OnDisk \ {Vi})' = w
    <3>1. WantedFrom(item.list, OnDisk \ {Vi})' = WantedFrom(item'.list, OnDisk' \ {Vi})
      BY DEF WantedFrom
    <3> QED BY <1>3, <1>6, <1>7, <1>8, <3>1
  <2> QED BY <1>3, <1>8, <2>1 DEF Source
<1>10. ASSUME fresh, c # Vi
       PROVE  file'[Vi] = [file'[Source'] EXCEPT !.times = 1]
  <2>1. c = Source'
    BY <1>1, <1>2, <1>6, <1>7, <1>9, <1>10 DEF ResultInv, Proceeds, Source
  <2>2. file'[c] = file[c] /\ file[c].times = 0
    BY <1>2, <1>5, <1>10 DEF PInv, Texts, Proceeds
  <2>3. Translation(c) = [file[c] EXCEPT !.times = 1]
    BY <2>2 DEF Translation
  <2> QED BY <1>5, <2>1, <2>2, <2>3
<1> QED BY <1>3, <1>4, <1>10 DEF ResultInv

\* Every step keeps it.
LEMMA NextResult ==
  ASSUME PInv, ResultInv, [Next]_vars
  PROVE  ResultInv'
<1>0. TInv
  BY DEF PInv
<1>1. CASE TranslateSkips \/ TranslateRaises \/ TranslateFails
  <2>1. item'.pc = "idle" /\ item'.result \in {"skipped", "failed"}
    BY <1>0, <1>1, EndsTypes DEF TranslateSkips, TranslateRaises, TranslateFails
  <2> QED BY <2>1 DEF ResultInv
<1>2. CASE Scan
  <2>1. item'.pc = "select"
    BY <1>2 DEF Scan, NoItem
  <2> QED BY <2>1 DEF ResultInv
<1>3. CASE UNCHANGED vars
  BY <1>3 DEF vars, ResultInv, Source, WantedFrom, OnDisk
<1>4. CASE \/ \E c \in Langs : SourceWritten(c)
           \/ \E c \in Codes : FileRemoved(c)
           \/ SetOverride
  <2>1. ~ fresh'
    BY <1>4 DEF SourceWritten, FileRemoved, SetOverride
  <2> QED BY <2>1 DEF ResultInv
<1> QED BY <1>1, <1>2, <1>3, <1>4, SelectResult, TranslateDoneResult DEF Next

\* D-107, D-109: a run that ends done without anybody's interference has written,
\* unless it chose our own output, the translation of the wanted source or, where
\* the code says so, of what the scan found.
THEOREM ResultIsWantedAlways == Spec => []ResultIsWanted
<1>1. Init => ResultInv
  BY DEF Init, ResultInv, NoItem
<1>2. PInv /\ ResultInv /\ [Next]_vars => ResultInv'
  BY NextResult
<1>3. ResultInv => ResultIsWanted
  <2>1. WantedFrom(item.list, OnDisk \ {Vi}) = Wanted(item.list)
    BY DEF Wanted, WantedFrom
  <2> QED BY <2>1 DEF ResultInv, ResultIsWanted, Ended, Source
<1> QED BY <1>1, <1>2, <1>3, PaidHolds, PTL DEF Spec
=============================================================================
