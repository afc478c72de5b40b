--------------------------------- MODULE Bible ---------------------------------
(***************************************************************************)
(* The Series Bible of one series: the rows that trezarr/bible/store.py    *)
(* writes, the merge of an episode's analysis by a worker (analyze.py,     *)
(* merge_bible_analysis) and the edits of a user (web/routes/bible.py).    *)
(*                                                                         *)
(* A store call opens a session, SELECTs, computes, and writes at commit.  *)
(* SQLite's write transaction begins with the first write, not with the    *)
(* SELECT: what another call commits in between is not seen, and an UPDATE *)
(* sets only the columns that changed with respect to the row as read.     *)
(* locked_fields is one column: a call that changes it writes the whole    *)
(* list, made from the list that it read.  So a call is two steps, the     *)
(* read and the commit, with its effect kept in between as a transaction   *)
(* record; `None' is no transaction.                                       *)
(*                                                                         *)
(* Callers may hold a lock of _series_locks: the worker that of its *arr   *)
(* series, some routes that of the Bible's primary key, others none.       *)
(***************************************************************************)
EXTENDS Naturals, Sequences, FiniteSets, FiniteSetsExt

CONSTANTS
  Workers,        \* translate_file runs of episodes of this series
  Lane,           \* the key of _series_locks each worker runs under
  PrimaryKey,     \* series.id, the key that the routes lock
  Requests,       \* HTTP requests that run at one time
  Title, Names,   \* the series; spellings of names of characters and terms
  Key,            \* the .strip().lower() of each spelling
  Plain,          \* spellings whose SQLite lower(), ASCII and unstripped, is that
  Values, Blank,  \* what a field may hold; NULL or blank
  Given,          \* what an analysis or an added row may hold, field by field
  Typed,          \* what a user may set each field to
  Nobody,         \* no lock holder
  MaxMerges, MaxWrites,         \* merges, and what all of them write (bounds)
  MaxRequests, MaxFailures       \* edits; store calls that fail and crashes (bounds)

LockKeys == {PrimaryKey} \union {Lane[w] : w \in Workers}

\* A row has a main field (the register, a character's gender, a term's rendering,
\* a pair's self_term) and a minor one (a role, a category, an address_term; none
\* in a series).
Fields == {"main", "minor"}

ASSUME BibleAssumption ==
  /\ IsFiniteSet(Workers)
  /\ Nobody \notin Workers \union Requests
  /\ Workers \intersect Requests = {}
  /\ Plain \subseteq Names
  /\ Blank \notin Values
  /\ Given \subseteq [Fields -> Values \union {Blank}]
  /\ \A f \in Fields : Typed[f] \subseteq Values \union {Blank}
  /\ {MaxMerges, MaxWrites, MaxRequests, MaxFailures} \subseteq Nat

VARIABLES
  rows,     \* the tables, in the order of the ids
  holder,   \* who holds each lock
  worker,   \* the merge each worker runs
  request,  \* the edit each request runs
  used      \* how much of each bound is used up

vars == <<rows, holder, worker, request, used>>

-----------------------------------------------------------------------------
(* Rows and transactions. *)

Stored  == Values \union {Blank}
Content == [Fields -> Stored]
Empty   == [f \in Fields |-> Blank]

\* A pair is one character speaking to the lead: its speaker_character_id.
Series == <<"series", Title>>
RowKeys == {Series} \union ({"character", "term"} \X Names) \union ({"pair"} \X Nat)

\* told: new_value of the newest bible_event of each field, the inferences that a
\* carry-forward suppressed (and logs too) left aside.
Row == [key: RowKeys, value: Content, locks: SUBSET Fields, told: Content]

OfKind(kind) == {i \in DOMAIN rows : rows[i].key[1] = kind}

\* WHERE func.lower(stored) = given.strip().lower(), in this order of identity:
\* a stored name that is not plain is found under no spelling, its own included.
SameName(stored, given) == stored \in Plain /\ Key[stored] = Key[given]

Found(k) ==
  {i \in OfKind(k[1]) : IF k[1] \in {"character", "term"} THEN SameName(rows[i].key[2], k[2])
                                                        ELSE rows[i].key = k}

\* What a transaction will write: a new row if id = 0, else what it changed in the
\* row as read (old, seen).  event: the fields that a bible_event is added for.
Tx == [id: Nat, key: RowKeys, old: Content, new: Content, seen: SUBSET Fields,
       locks: SUBSET Fields, event: SUBSET Fields]
None == [id |-> 0, key |-> <<"none">>, old |-> Empty, new |-> Empty, seen |-> {},
         locks |-> {}, event |-> {}]

Insert(k, new, locks) ==
  [id |-> 0, key |-> k, old |-> Empty, new |-> new, seen |-> {}, locks |-> locks,
   event |-> {f \in Fields : new[f] # Blank}]
Update(i, new, locks, event) ==
  [id |-> i, key |-> rows[i].key, old |-> rows[i].value, new |-> new,
   seen |-> rows[i].locks, locks |-> locks, event |-> event]

Writes(tx) ==
  /\ tx # None
  /\ tx.id = 0 \/ tx.new # tx.old \/ tx.locks # tx.seen \/ tx.event # {}

Dirty_Swapped(tx, row) ==
  [row EXCEPT !.value = [f \in Fields |-> IF tx.new[f] # tx.old[f] THEN tx.new[f] ELSE @[f]],
              !.locks = tx.event,
              !.told  = [f \in Fields |-> IF f \in tx.event THEN tx.locks ELSE @[f]]]
Dirty(tx, row) ==
  [row EXCEPT !.value = [f \in Fields |-> IF tx.new[f] # tx.old[f] THEN tx.new[f] ELSE @[f]],
              !.locks = IF tx.locks # tx.seen THEN tx.locks ELSE @,
              !.told  = [f \in Fields |-> IF f \in tx.event THEN tx.new[f] ELSE @[f]]]
Committed(tx) ==
  IF tx.id = 0
  THEN Append(rows, [key |-> tx.key, value |-> tx.new, locks |-> tx.locks, told |-> tx.new])
  ELSE [rows EXCEPT ![tx.id] = Dirty(tx, @)]

\* The id of the row that a transaction has written, once it is committed.
IdOf(tx) == IF tx.id = 0 THEN Len(rows) + 1 ELSE tx.id

\* A human's or an import's rendering of a term is written whatever was there; an
\* inference never replaces one (carry-forward).
CarriesForward(row, f, source) ==
  row.key[1] = "term" /\ f = "main" /\ source = "inference" /\ row.value[f] # Blank

\* compute_field_changes and the mergeable fields of a pair: what is locked stays,
\* and what the caller does not pass.  add_term always passes a rendering, "" if
\* the body has none.
Passed(row, given, f, source) ==
  given[f] # Blank \/ (row.key[1] = "term" /\ f = "main" /\ source = "import")

Merged_IgnoresLock(row, given, source) ==
  [f \in Fields |-> IF Passed(row, given, f, source) /\ ~ CarriesForward(row, f, source)
                    THEN given[f] ELSE row.value[f]]
Merged(row, given, source) ==
  [f \in Fields |-> IF /\ Passed(row, given, f, source)
                       /\ f \notin row.locks
                       /\ ~ CarriesForward(row, f, source)
                    THEN given[f] ELSE row.value[f]]

Changed(i, new) == {f \in Fields : new[f] # rows[i].value[f]}

\* An upsert: scalar_one_or_none raises when it selects two rows; a term's takes
\* the oldest, .first().
Upsert(k, given, source) ==
  IF Found(k) = {} THEN Insert(k, given, {})
  ELSE IF k[1] # "term" /\ Cardinality(Found(k)) > 1 THEN None
  ELSE LET i == Min(Found(k))  new == Merged(rows[i], given, source)
       IN Update(i, new, rows[i].locks, Changed(i, new))

Registers == {[g EXCEPT !["minor"] = Blank] : g \in {x \in Given : x["main"] # Blank}}

InferRegister(g)              == Upsert(Series, g, "inference")
UpsertCharacter(n, g, source) == Upsert(<<"character", n>>, g, source)
UpsertTerm(n, g, source)      == Upsert(<<"term", n>>, g, source)
UpsertPair(id, g, source)     == Upsert(<<"pair", id>>, g, source)

\* apply_human_edit_*: one field set as given and locked or unlocked, with an event
\* whether or not the value is new.
LockList(i, f, lock) == IF lock THEN rows[i].locks \union {f} ELSE rows[i].locks \ {f}

EditField(i, f, v, lock) ==
  Update(i, [rows[i].value EXCEPT ![f] = v], LockList(i, f, lock), {f})

\* A pair is edited and locked as a unit; an event only for a term that changes.
EditPair_LogsMinor(i, new, lock) ==
  Update(i, new, IF lock THEN Fields ELSE {}, Changed(i, new) \ {"main"})
EditPair(i, new, lock) ==
  Update(i, new, IF lock THEN Fields ELSE {}, Changed(i, new))

-----------------------------------------------------------------------------
(* State. *)

MergePc == {"idle", "series", "register", "load", "character", "term", "plan",
            "lock", "pair"}
\* known: the pairs there were when the Bible was loaded, none if that failed; ids:
\* name_to_id (0: no such key); cast: the characters of the analysis; todo: the
\* names of this step not yet tried; listed: the terms that step 3.5 knows of.
FoldedNames == {Key[n] : n \in Names}
NoIds   == [k \in FoldedNames |-> 0]
Merge == [pc: MergePc, tx: Tx \union {None}, known: SUBSET Nat, ids: [FoldedNames -> Nat],
          cast: SUBSET Names, todo: SUBSET Names, listed: SUBSET Nat,
          ok: BOOLEAN, bad: BOOLEAN]
NoMerge == [pc |-> "idle", tx |-> None, known |-> {}, ids |-> NoIds, cast |-> {},
            todo |-> {}, listed |-> {}, ok |-> FALSE, bad |-> FALSE]

PatchRoutes == {"patch_character", "patch_term", "patch_register", "patch_address_map"}
Routes      == PatchRoutes \union {"add_character", "add_term", "add_address_pair"}

\* A request that waits for the lock has done nothing yet: it counts from when it
\* has the lock.
Request == [route: Routes \union {"none"}, tx: Tx \union {None}]
NoRequest == [route |-> "none", tx |-> None]

Bounds == [merges |-> MaxMerges, writes |-> MaxWrites, requests |-> MaxRequests,
           failures |-> MaxFailures]

Uses(b) == used[b] < Bounds[b] /\ used' = [used EXCEPT ![b] = @ + 1]

Init ==
  /\ rows = <<>>
  /\ holder = [k \in LockKeys |-> Nobody]
  /\ worker = [w \in Workers |-> NoMerge]
  /\ request = [r \in Requests |-> NoRequest]
  /\ used = [b \in DOMAIN Bounds |-> 0]

WorkerBecomes(w, new) == worker' = [worker EXCEPT ![w] = new]

Acquire(k, who) == holder[k] = Nobody /\ holder' = [holder EXCEPT ![k] = who]
Freed(who) == [k \in LockKeys |-> IF holder[k] = who THEN Nobody ELSE holder[k]]

-----------------------------------------------------------------------------
(* The worker: get_or_create_series, then merge_bible_analysis.             *)
(* What the analysis holds is chosen where the merge comes to it: a model's *)
(* answer, different every time.                                            *)

Start(w) ==
  /\ worker[w] = NoMerge
  /\ Uses("merges")
  /\ Acquire(Lane[w], w)
  /\ WorkerBecomes(w, [NoMerge EXCEPT !.pc = "series"])
  /\ UNCHANGED <<rows, request>>

At(w, pc) == worker[w].pc = pc /\ worker[w].tx = None

\* The end of one step of the merge and the start of the next.
Goto(w, pc, todo) ==
  WorkerBecomes(w, [worker[w] EXCEPT !.pc = pc, !.tx = None, !.todo = todo,
                                     !.listed = {}, !.ok = FALSE, !.bad = FALSE])

\* A store call has read its row and has something to write.
Prepares(w, m, tx) == Uses("writes") /\ WorkerBecomes(w, [m EXCEPT !.tx = tx])

\* The job ends: translated, quarantined or failed.
Ends(w) == WorkerBecomes(w, NoMerge) /\ holder' = Freed(w)

GetOrCreateSeries(w) ==
  /\ At(w, "series")
  /\ IF Found(Series) = {} THEN Prepares(w, worker[w], Insert(Series, Empty, {}))
     ELSE Goto(w, "register", {}) /\ UNCHANGED used
  /\ UNCHANGED <<rows, holder, request>>

\* The analysis may have a register, or none.
MergeRegister(w) ==
  /\ At(w, "register")
  /\ \/ Goto(w, "load", {}) /\ UNCHANGED used
     \/ \E g \in Registers :
          LET tx == InferRegister(g) IN
          IF Writes(tx) THEN Prepares(w, worker[w], tx)
                        ELSE Goto(w, "load", {}) /\ UNCHANGED used
  /\ UNCHANGED <<rows, holder, request>>

\* The characters and pairs there are; of two with one key the last one counts.
NameToId ==
  [k \in FoldedNames |->
     LET named == {i \in OfKind("character") : Key[rows[i].key[2]] = k} IN
     IF named = {} THEN 0 ELSE Max(named)]

LoadBible(w) ==
  /\ At(w, "load")
  /\ WorkerBecomes(w, [worker[w] EXCEPT !.pc = "character", !.known = OfKind("pair"),
                                        !.ids = NameToId, !.todo = Names])
  /\ UNCHANGED <<rows, holder, request, used>>

\* Without them no name has an id yet, and every pair counts as new.
LoadBibleFails(w) ==
  /\ At(w, "load")
  /\ Uses("failures")
  /\ Goto(w, "character", Names)
  /\ UNCHANGED <<rows, holder, request>>

\* A store call of the current step is over, with or without an exception.
Tried(w, m, good) ==
  WorkerBecomes(w, [m EXCEPT !.tx = None, !.ok = @ \/ good, !.bad = @ \/ ~good])

\* One upsert: it raises, writes, or has nothing to write.  m: the merge by then.
Try(w, m, tx) ==
  IF Writes(tx) THEN Prepares(w, m, tx) ELSE Tried(w, m, tx # None) /\ UNCHANGED used

Without(m, n)  == [m EXCEPT !.todo = @ \ {n}]
Named(m, n, i) == [m EXCEPT !.ids[Key[n]] = i]

\* Steps 2, 3 and 4: the characters, terms and pairs of the analysis.  The id of a
\* character that needs no write is known at once.
MergeCharacter(w) ==
  /\ At(w, "character")
  /\ \E n \in worker[w].todo, g \in Given :
       LET tx == UpsertCharacter(n, g, "inference")
           m  == [Without(worker[w], n) EXCEPT !.cast = @ \union {n}]
       IN Try(w, IF tx # None /\ ~ Writes(tx) THEN Named(m, n, tx.id) ELSE m, tx)
  /\ UNCHANGED <<rows, holder, request>>

MergeTerm(w) ==
  /\ At(w, "term")
  /\ \E n \in worker[w].todo, g \in Given :
       Try(w, Without(worker[w], n), UpsertTerm(n, g, "inference"))
  /\ UNCHANGED <<rows, holder, request>>

\* Create or affirm: a pair that was there gets no new terms.  A pair whose
\* speaker has no id is skipped.
PairTerms_Always(w, id, g) == g
PairTerms(w, id, g) == IF id \in {rows[i].key[2] : i \in worker[w].known} THEN Empty ELSE g

MergePair(w) ==
  /\ At(w, "pair")
  /\ \E n \in worker[w].todo, g \in Given :
       LET id == worker[w].ids[Key[n]] IN
       /\ id # 0
       /\ Try(w, Without(worker[w], n), UpsertPair(id, PairTerms(w, id, g), "inference"))
  /\ UNCHANGED <<rows, holder, request>>

\* Any store call may fail, most often for a locked database: the row is lost.
\* The caller logs that; only get_or_create_series lets it through.
StoreFails(w) ==
  /\ worker[w].tx # None /\ worker[w].pc # "series"
  /\ Uses("failures")
  /\ IF worker[w].pc = "register" THEN Goto(w, "load", {}) ELSE Tried(w, worker[w], FALSE)
  /\ UNCHANGED <<rows, holder, request>>

After == [character |-> "term", term |-> "plan", pair |-> "end"]

\* Every row of a step failing is a BibleAnalysisError: the episode is
\* quarantined.  The rest of the analysis may hold nothing more for this step.
StepEnds(w) ==
  LET pc == worker[w].pc IN
  /\ pc \in DOMAIN After /\ At(w, pc)
  /\ \/ /\ (worker[w].bad /\ ~worker[w].ok) \/ After[pc] = "end"
        /\ Ends(w)
     \/ /\ (worker[w].bad => worker[w].ok) /\ After[pc] # "end"
        /\ Goto(w, After[pc], Names)
        /\ UNCHANGED holder
  /\ UNCHANGED <<rows, request, used>>

\* Step 3.5, plan_character_name_terms: the characters of this analysis whose key
\* is that of no term listed.  A name stands for its script form and its Latin form.
NamesToLock(cast, listed) ==
  {n \in cast : \A i \in listed : Key[rows[i].key[2]] # Key[n]}

Plans(w, listed) ==
  /\ At(w, "plan")
  /\ WorkerBecomes(w, [worker[w] EXCEPT !.pc = "lock", !.listed = listed, !.cast = {},
                                        !.todo = NamesToLock(worker[w].cast, listed)])

PlanLocks(w) == Plans(w, OfKind("term")) /\ UNCHANGED <<rows, holder, request, used>>

\* If the terms cannot be loaded the list of them is taken to be empty.
PlanLocksFails(w) == Plans(w, {}) /\ Uses("failures") /\ UNCHANGED <<rows, holder, request>>

\* apply_human_edit_term with lock=True, by source_term: an exact match.
LockTx(n, v) ==
  LET ids == {i \in OfKind("term") : rows[i].key[2] = n} IN
  IF Cardinality(ids) > 1 THEN None
  ELSE IF ids = {} THEN Insert(<<"term", n>>, [Empty EXCEPT !["main"] = v], {"main"})
  ELSE EditField(Min(ids), "main", v, TRUE)

\* Of two spellings with one key the plan has the first.
LockName(w) ==
  /\ At(w, "lock")
  /\ \E n \in worker[w].todo, v \in {g["main"] : g \in Registers} :
       LET same == {m \in worker[w].todo : Key[m] = Key[n]} IN
       Try(w, [worker[w] EXCEPT !.todo = @ \ same], LockTx(n, v))
  /\ UNCHANGED <<rows, holder, request>>

LocksDone(w) ==
  /\ At(w, "lock") /\ worker[w].todo = {}
  /\ Goto(w, "pair", Names)
  /\ UNCHANGED <<rows, holder, request, used>>

\* Of two runs that create the series, the second fails: uq_series.
Commit(w) ==
  LET pc == worker[w].pc  tx == worker[w].tx IN
  /\ tx # None
  /\ IF pc = "series" /\ Found(Series) # {} THEN Ends(w) /\ UNCHANGED rows
     ELSE /\ rows' = Committed(tx)
          /\ CASE pc = "series"    -> Goto(w, "register", {})
               [] pc = "register"  -> Goto(w, "load", {})
               [] pc = "character" -> Tried(w, Named(worker[w], tx.key[2], IdOf(tx)), TRUE)
               [] OTHER            -> Tried(w, worker[w], TRUE)
          /\ UNCHANGED holder
  /\ UNCHANGED <<request, used>>

-----------------------------------------------------------------------------
(* The routes. *)

\* What a route may ask for, as the transaction its store call prepares.
Edits(kind) ==
  UNION {{EditField(i, f, v, lock) :
            i \in OfKind(kind), v \in Typed[f], lock \in BOOLEAN} : f \in Fields}

PatchCharacter == Edits("character")
PatchTerm      == Edits("term")
\* A register without a value is refused.
PatchRegister ==
  {EditField(i, "main", v, lock) :
     i \in OfKind("series"), v \in Typed["main"] \ {Blank}, lock \in BOOLEAN}
\* So is the lock of a pair without both terms (D-87).
Full(g) == \A f \in Fields : g[f] # Blank
Pairs   == {g \in Content : \A f \in Fields : g[f] \in Typed[f]}
PatchPair ==
  UNION {{EditPair(i, g, lock) :
            i \in OfKind("pair"), lock \in {l \in BOOLEAN : l => Full(g)}} : g \in Pairs}
AddCharacter == {UpsertCharacter(n, g, "import") : n \in Names, g \in Given}
AddTerm      == {UpsertTerm(n, g, "import") : n \in Names, g \in Given}
\* A pair joins characters that exist.
AddPair      == {UpsertPair(i, g, "import") : i \in OfKind("character"), g \in Given}

Asked(route) ==
  CASE route = "patch_character"   -> PatchCharacter
    [] route = "patch_term"        -> PatchTerm
    [] route = "patch_register"    -> PatchRegister
    [] route = "patch_address_map" -> PatchPair
    [] route = "add_character"     -> AddCharacter
    [] route = "add_term"          -> AddTerm
    [] route = "add_address_pair"  -> AddPair

\* D-81: the PATCH routes and add_character take the lock of the primary key;
\* add_term and add_address_pair take none.
TakesLock_NotAdd(route)   == route \in PatchRoutes
TakesLock_NotPatch(route) == route = "add_character"
TakesLock(route) == route \in PatchRoutes \union {"add_character"}

\* The SELECT of a request.  One that raises, an error 500, and one that changes
\* nothing are answered without a trace.
Submit(r) ==
  /\ request[r] = NoRequest
  /\ Found(Series) # {}
  /\ Uses("requests")
  /\ \E route \in Routes :
       /\ IF TakesLock(route) THEN Acquire(PrimaryKey, r) ELSE UNCHANGED holder
       /\ \E tx \in Asked(route) :
            /\ Writes(tx)
            /\ request' = [request EXCEPT ![r] = [route |-> route, tx |-> tx]]
  /\ UNCHANGED <<rows, worker>>

CommitEdit(r) ==
  /\ request[r] # NoRequest
  /\ rows' = Committed(request[r].tx)
  /\ request' = [request EXCEPT ![r] = NoRequest]
  /\ holder' = Freed(r)
  /\ UNCHANGED <<worker, used>>

\* session.delete of an AsyncSession is a coroutine and is not awaited: the
\* call answers {"deleted": id} and the row stays.
Deletes(r, kind) ==
  /\ request[r] = NoRequest
  /\ OfKind(kind) # {}
  /\ Uses("requests")
  /\ UNCHANGED <<rows, holder, worker, request>>
DeleteTerm(r) == Deletes(r, "term")
DeletePair(r) == Deletes(r, "pair")

\* The process ends: what is not committed is lost.
Crash ==
  /\ Uses("failures")
  /\ worker' = [w \in Workers |-> NoMerge]
  /\ request' = [r \in Requests |-> NoRequest]
  /\ holder' = [k \in LockKeys |-> Nobody]
  /\ UNCHANGED rows

-----------------------------------------------------------------------------
Work(w) ==
  \/ GetOrCreateSeries(w) \/ MergeRegister(w) \/ LoadBible(w) \/ LoadBibleFails(w)
  \/ MergeCharacter(w) \/ MergeTerm(w) \/ MergePair(w) \/ StoreFails(w) \/ StepEnds(w)
  \/ PlanLocks(w) \/ PlanLocksFails(w) \/ LockName(w) \/ LocksDone(w) \/ Commit(w)

Next ==
  \/ \E w \in Workers : Start(w) \/ Work(w)
  \/ \E r \in Requests : Submit(r) \/ CommitEdit(r) \/ DeleteTerm(r) \/ DeletePair(r)
  \/ Crash

Spec == Init /\ [][Next]_vars

-----------------------------------------------------------------------------
(* Properties. *)

\* The state stays within its types.
TypeOK ==
  /\ rows \in Seq(Row)
  /\ holder \in [LockKeys -> Workers \union Requests \union {Nobody}]
  /\ worker \in [Workers -> Merge]
  /\ request \in [Requests -> Request]
  /\ used \in [DOMAIN Bounds -> Nat]
  /\ \A b \in DOMAIN Bounds : used[b] <= Bounds[b]

\* The fields that a step changes in a row, and those whose lock it lifts.
Overwritten(i) == {f \in Fields : rows'[i].value[f] # rows[i].value[f]}
Unlocked(i)    == rows[i].locks \ rows'[i].locks

\* The step is one of worker w, one of request r.
Moves(w)   == worker'[w] # worker[w] /\ UNCHANGED request
Answers(r) == request[r] # NoRequest /\ request'[r] = NoRequest /\ UNCHANGED worker

\* An inference never changes a field that a user has locked (D-34, merge.py:
\* human lock > prior > inference), however the merge and the edit interleave
\* (D-81).  Step 3.5 locks only names that were no terms when it listed them.
LockedKept ==
  [][\A w \in Workers, i \in DOMAIN rows :
       Moves(w) /\ Overwritten(i) \intersect rows[i].locks # {}
         => worker[w].pc = "lock" /\ i \notin worker[w].listed]_vars

\* The same as far as the code keeps it, whose worker and routes take two locks: an
\* inference changes a locked field only if the user locked it after the merge had
\* read the row.
LocksReadAreKept ==
  [][\A w \in Workers, i \in DOMAIN rows :
       Moves(w) /\ Overwritten(i) \intersect rows[i].locks # {}
         => \/ Overwritten(i) \intersect worker[w].tx.seen = {}
            \/ worker[w].pc = "lock" /\ i \notin worker[w].listed]_vars

\* A lock is lifted by the edit that asks for it and by nothing else: no merge or
\* addition, and no PATCH of another field, which writes the whole lock list.  The
\* exception is a term, whose list step 3.5 writes under another lock: there the
\* list that is written may be older than a lock.
LocksLiftedByHand ==
  [][\A i \in DOMAIN rows : \A f \in Unlocked(i) :
       \/ \E r \in Requests : LET tx == request[r].tx IN
            /\ Answers(r) /\ request[r].route \in PatchRoutes
            /\ tx.id = i /\ f \in tx.seen \ tx.locks
       \/ /\ rows[i].key[1] = "term"
          /\ \/ \E r \in Requests : Answers(r) /\ f \notin request[r].tx.seen
             \/ \E w \in Workers : Moves(w) /\ f \notin worker[w].tx.seen]_vars

\* Rows of one character are never more than there are locks under which they are
\* added: one if D-81 held, two as it is; an added row is seen by every later
\* upsert under either lock.  Names whose lower() SQLite and Python disagree on
\* are found by none (against store.py:451).
CharactersBounded ==
  \A n \in Names : Cardinality(Found(<<"character", n>>)) <= Cardinality(LockKeys)

\* The newest event of a field names its value (D-32, BIBLE-06), unless the edit that
\* logged it sent the value it had read, which writes nothing, and the field was
\* changed in between.  An edit is a PATCH, but not of a pair, or one of step 3.5.
Echoes(tx, i, f) == tx.id = i /\ tx.new[f] = tx.old[f] /\ rows[i].value[f] # tx.old[f]

HistoryFollows ==
  [][\A i \in DOMAIN rows', f \in Fields :
       \/ rows'[i].told[f] = rows'[i].value[f]
       \/ i \in DOMAIN rows /\ rows[i].told[f] # rows[i].value[f]
       \/ \E r \in Requests : /\ Answers(r) /\ Echoes(request[r].tx, i, f)
                              /\ request[r].route \in PatchRoutes \ {"patch_address_map"}
       \/ \E w \in Workers : /\ Moves(w) /\ Echoes(worker[w].tx, i, f)
                             /\ worker[w].pc = "lock"]_vars

\* A later inference keeps what an earlier one or a user established: a rendering
\* unless it read the term as blank, the terms of a pair that was there when the
\* merge loaded the Bible.  Where that load fails every pair counts as new and loses
\* its terms if they are not locked (analyze.py:672): not here, nor are the names
\* of step 3.5 that were no terms when it listed them.
EstablishedKept ==
  [][\A w \in Workers, i \in DOMAIN rows :
       Moves(w) /\ worker[w].pc # "lock"
         => /\ rows[i].key[1] = "term" /\ "main" \in Overwritten(i)
                 => worker[w].tx.old["main"] = Blank
            /\ rows[i].key[1] = "pair" /\ Overwritten(i) # {}
                 => i \notin worker[w].known]_vars
=============================================================================
