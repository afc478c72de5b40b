------------------------------ MODULE BibleProofs ------------------------------
(***************************************************************************)
(* For any workers, requests, names and values, and whichever locks the    *)
(* workers run under: an inference keeps what an earlier episode or a user *)
(* established, and a locked field whose lock its merge had read; a lock   *)
(* is lifted by hand; the newest event of a field names its value; the     *)
(* rows of one character are never more than the locks.                    *)
(***************************************************************************)
EXTENDS Bible, FiniteSetTheorems, WellFoundedInduction, TLAPS

-----------------------------------------------------------------------------
(* What a call carries from its read to its commit. *)

\* The fields that a transaction writes.
Changes(tx) == {f \in Fields : tx.new[f] # tx.old[f]}

\* An UPDATE logs every change; it tells the truth in any state if it logs nothing else.
Logs(tx)  == tx.id # 0 => Changes(tx) \subseteq tx.event
Tells(tx) == tx.id # 0 => tx.event \subseteq Changes(tx)

\* It leaves the locks alone, and every field whose lock it has read.
Respects(tx) ==
  /\ tx.locks = tx.seen
  /\ tx.id # 0 => \A f \in Changes(tx) : f \notin tx.seen

\* A transaction as its read prepared it, in the state of that read.
Prepared(tx) ==
  /\ tx \in Tx
  /\ Logs(tx)
  /\ \/ tx.id = 0 /\ tx.seen = {} /\ (tx.key[1] = "character" => Found(tx.key) = {})
     \/ /\ tx.id \in DOMAIN rows /\ tx.key = rows[tx.id].key
        /\ tx.old = rows[tx.id].value /\ tx.seen = rows[tx.id].locks

\* What is left of that at its commit: the row is there and has its key.
Fits(tx) ==
  /\ tx \in Tx
  /\ Logs(tx)
  /\ tx.id = 0 => tx.seen = {}
  /\ tx.id # 0 => tx.id \in DOMAIN rows /\ tx.key = rows[tx.id].key

\* What a merge writes at each of its steps.
StepWrites(m) ==
  /\ m.pc \in {"series", "register", "character", "term", "lock", "pair"}
  /\ m.pc \in {"series", "register"} => m.tx.key = Series
  /\ m.pc \in {"character", "term", "pair"} => m.tx.key[1] = m.pc
  /\ m.pc = "lock" => /\ m.tx.key[1] = "term"
                      /\ m.tx.seen \subseteq m.tx.locks
                      /\ m.tx.id # 0 => m.tx.id \notin m.listed
  /\ m.pc # "lock" => Respects(m.tx) /\ Tells(m.tx)
  /\ m.pc = "term" /\ m.tx.id # 0 /\ "main" \in Changes(m.tx) => m.tx.old["main"] = Blank
  /\ m.pc = "pair" /\ m.tx.id # 0 /\ m.tx.id \in m.known => Changes(m.tx) = {}

\* Step 3.5 works on names that no listed term has.
ListOK(m) ==
  m.pc = "lock" => /\ m.listed \subseteq DOMAIN rows
                   /\ \A n \in m.todo, i \in m.listed : Key[rows[i].key[2]] # Key[n]

MergeOK(m) == m \in Merge /\ ListOK(m) /\ (m.tx # None => Fits(m.tx) /\ StepWrites(m))

\* A PATCH updates a row; nothing else changes a lock or logs what it does not
\* change, except the edit of a field, which logs the value that it is given.
EditOK(route, tx) ==
  /\ route \in PatchRoutes => tx.id # 0
  /\ route \notin PatchRoutes => tx.locks = tx.seen
  /\ route \notin PatchRoutes \ {"patch_address_map"} => Tells(tx)
  /\ tx.id = 0 /\ tx.key[1] = "character" => route = "add_character"

RequestOK(q) ==
  /\ q \in Request
  /\ q # NoRequest => q.route \in Routes /\ Fits(q.tx) /\ EditOK(q.route, q.tx)

CountsOK ==
  /\ used \in [DOMAIN Bounds -> Nat]
  /\ \A b \in DOMAIN Bounds : used[b] <= Bounds[b]

\* Who runs a merge, or an edit of a route that locks, holds its lock.
Held ==
  /\ holder \in [LockKeys -> Workers \union Requests \union {Nobody}]
  /\ \A w \in Workers : worker[w].pc # "idle" => holder[Lane[w]] = w
  /\ \A r \in Requests :
       request[r] # NoRequest /\ TakesLock(request[r].route) => holder[PrimaryKey] = r

\* What a PATCH read of the locks of a row still stands, unless the row is a term,
\* where step 3.5 comes in between.
PatchSees ==
  \A r \in Requests :
    request[r] # NoRequest /\ request[r].route \in PatchRoutes /\ request[r].tx.key[1] # "term"
      => request[r].tx.seen = rows[request[r].tx.id].locks

\* The locks under which a row of this character is being added.
Adds(tx, n) == tx.id = 0 /\ tx.key[1] = "character" /\ SameName(tx.key[2], n)
AddedUnder(n) ==
  {k \in LockKeys : \/ \E w \in Workers : Lane[w] = k /\ Adds(worker[w].tx, n)
                    \/ k = PrimaryKey /\ \E r \in Requests : Adds(request[r].tx, n)}
RowsOf(n) == Found(<<"character", n>>)
RowsBounded ==
  \A n \in Names :
    /\ IsFiniteSet(RowsOf(n))
    /\ Cardinality(RowsOf(n)) + Cardinality(AddedUnder(n)) <= Cardinality(LockKeys)

\* The inductive invariant: types, what each call carries, and who holds what.
IInv ==
  /\ rows \in Seq(Row)
  /\ worker \in [Workers -> Merge] /\ \A w \in Workers : MergeOK(worker[w])
  /\ request \in [Requests -> Request] /\ \A r \in Requests : RequestOK(request[r])
  /\ CountsOK
  /\ Held

-----------------------------------------------------------------------------
(* The store calls. *)

\* A set of numbers that is not empty has a least one.
LEMMA MinIs ==
  ASSUME NEW S \in SUBSET Nat, S # {}
  PROVE  Min(S) \in S
<1>1. PICK x \in S : \A y \in S : ~ (<<y, x>> \in OpToRel(<, Nat))
  BY WFMin, NatLessThanWellFounded, Zenon
<1>2. \A y \in S : ~ (y < x)
  BY <1>1 DEF OpToRel
<1>3. \E m \in S : \A y \in S : m <= y
  BY <1>2
<1> QED BY <1>3 DEF Min

\* A set of numbers that is not empty and bounded has a greatest one.
LEMMA MaxIs ==
  ASSUME NEW N \in Nat, NEW S \in SUBSET (0..N), S # {}
  PROVE  Max(S) \in S
<1> DEFINE T == {N - x : x \in S}
<1>1. T \in SUBSET Nat /\ T # {}
  <2>1. \A x \in S : N - x \in Nat /\ N - x \in T
    OBVIOUS
  <2> QED BY <2>1
<1>2. PICK t \in T : \A y \in T : ~ (<<y, t>> \in OpToRel(<, Nat))
  BY <1>1, WFMin, NatLessThanWellFounded, Zenon
<1>3. \A y \in T : ~ (y < t)
  BY <1>1, <1>2 DEF OpToRel
<1>4. PICK x \in S : t = N - x
  OBVIOUS
<1>5. \A y \in S : x >= y
  BY <1>3, <1>4
<1>6. \E m \in S : \A y \in S : m >= y
  BY <1>5
<1> QED BY <1>6 DEF Max

\* A key has one of the four kinds.
LEMMA KeysAre ==
  /\ Series \in RowKeys /\ Series[1] = "series"
  /\ \A n \in Names : /\ <<"character", n>> \in RowKeys /\ <<"term", n>> \in RowKeys
                      /\ <<"character", n>>[1] = "character" /\ <<"term", n>>[1] = "term"
  /\ \A i \in Nat : <<"pair", i>> \in RowKeys /\ <<"pair", i>>[1] = "pair"
  /\ \A k \in RowKeys : k[1] \in {"character", "term"} => k[2] \in Names
BY DEF RowKeys, Series

\* The rows of a key are numbered, and are of its kind.
LEMMA FoundIs ==
  ASSUME rows \in Seq(Row), NEW k
  PROVE  /\ DOMAIN rows \subseteq Nat \ {0}
         /\ \A i \in DOMAIN rows : rows[i] \in Row
         /\ \A i \in Found(k) : i \in DOMAIN rows /\ rows[i].key[1] = k[1]
         /\ Found(k) # {} => Min(Found(k)) \in Found(k)
<1>1. DOMAIN rows \subseteq Nat \ {0} /\ \A i \in DOMAIN rows : rows[i] \in Row
  OBVIOUS
<1>2. \A i \in Found(k) : i \in DOMAIN rows /\ rows[i].key[1] = k[1]
  BY DEF Found, OfKind
<1>3. Found(k) \in SUBSET Nat
  BY <1>1, <1>2
<1> QED BY <1>1, <1>2, <1>3, MinIs

\* What was prepared fits.
LEMMA PreparedFits ==
  ASSUME rows \in Seq(Row), NEW tx, Prepared(tx)
  PROVE  Fits(tx)
BY DEF Prepared, Fits

\* An INSERT is a transaction.
LEMMA InsertIs ==
  ASSUME NEW k \in RowKeys, NEW new \in Content, NEW locks \in SUBSET Fields,
         k[1] = "character" => Found(k) = {}
  PROVE  LET tx == Insert(k, new, locks) IN
         /\ Prepared(tx) /\ Tells(tx)
         /\ tx.id = 0 /\ tx.key = k /\ tx.seen = {} /\ tx.locks = locks
<1> DEFINE tx == Insert(k, new, locks)
<1>1. /\ tx.id = 0 /\ tx.key = k /\ tx.seen = {} /\ tx.locks = locks
  BY DEF Insert
<1>2. tx \in Tx
  BY DEF Insert, Tx, Empty, Content, Stored
<1> QED BY <1>1, <1>2 DEF Prepared, Logs, Tells

\* So is an UPDATE, of a row as it is.
LEMMA UpdateIs ==
  ASSUME rows \in Seq(Row), NEW i \in DOMAIN rows, NEW new \in Content,
         NEW locks \in SUBSET Fields, NEW event \in SUBSET Fields,
         Changed(i, new) \subseteq event
  PROVE  LET tx == Update(i, new, locks, event) IN
         /\ Prepared(tx) /\ tx.id = i /\ tx.id # 0 /\ tx.key = rows[i].key
         /\ tx.new = new /\ tx.old = rows[i].value
         /\ tx.seen = rows[i].locks /\ tx.locks = locks
         /\ Changes(tx) = Changed(i, new)
         /\ event = Changed(i, new) => Tells(tx)
<1> DEFINE tx == Update(i, new, locks, event)
<1>1. rows[i] \in Row /\ i \in Nat /\ i # 0
  OBVIOUS
<1>2. /\ tx.id = i /\ tx.key = rows[i].key /\ tx.new = new /\ tx.old = rows[i].value
      /\ tx.seen = rows[i].locks /\ tx.locks = locks /\ tx.event = event
  BY DEF Update
<1>3. tx \in Tx
  BY <1>1 DEF Update, Tx, Row
<1>4. Changes(tx) = Changed(i, new)
  BY <1>2 DEF Changes, Changed
<1> HIDE DEF tx
<1> QED BY <1>1, <1>2, <1>3, <1>4 DEF Prepared, Logs, Tells, tx

\* An upsert that does not raise inserts a row, or updates one of its kind without
\* its locks; it keeps what is locked, carried forward or not given.
LEMMA UpsertIs ==
  ASSUME rows \in Seq(Row), NEW k \in RowKeys, NEW given \in Content, NEW source,
         NEW tx, tx = Upsert(k, given, source), tx # None
  PROVE  /\ Prepared(tx) /\ tx.key[1] = k[1] /\ Respects(tx) /\ Tells(tx)
         /\ tx.id # 0 => tx.id \in Found(k)
         /\ tx.id # 0 /\ given = Empty /\ source # "import" => Changes(tx) = {}
         /\ tx.id # 0 /\ k[1] = "term" /\ source = "inference" /\ "main" \in Changes(tx)
              => tx.old["main"] = Blank
<1>1. CASE Found(k) = {}
  <2>1. tx = Insert(k, given, {})
    BY <1>1 DEF Upsert
  <2>2. PICK none \in SUBSET Fields : none = {}
    OBVIOUS
  <2>3. tx = Insert(k, given, none)
    BY <2>1, <2>2
  <2>4. /\ Prepared(tx) /\ Tells(tx)
        /\ tx.id = 0 /\ tx.key = k /\ tx.seen = {} /\ tx.locks = none
    BY <1>1, <2>3, InsertIs
  <2> QED BY <2>2, <2>4 DEF Respects
<1>2. CASE Found(k) # {}
  <2> DEFINE i == Min(Found(k))
             new == Merged(rows[i], given, source)
             event == Changed(i, new)
  <2>1. i \in Found(k) /\ i \in DOMAIN rows /\ rows[i] \in Row /\ rows[i].key[1] = k[1]
    BY <1>2, FoundIs
  <2>2. tx = Update(i, new, rows[i].locks, event)
    BY <1>2 DEF Upsert
  <2>3. rows[i].locks \in SUBSET Fields /\ event \in SUBSET Fields /\ event = Changed(i, new)
    BY <2>1 DEF Row, Changed
  <2>4. new \in Content
    BY <2>1 DEF Merged, Row, Content
  <2>5. \A f \in Changed(i, new) :
          /\ f \notin rows[i].locks
          /\ Passed(rows[i], given, f, source)
          /\ ~ CarriesForward(rows[i], f, source)
    BY <2>1 DEF Merged, Changed
  <2>6. given = Empty /\ source # "import" => Changed(i, new) = {}
    BY <2>5 DEF Passed, Empty, Fields, Changed
  <2>7. k[1] = "term" /\ source = "inference" /\ "main" \in Changed(i, new)
          => rows[i].value["main"] = Blank
    BY <2>1, <2>5 DEF CarriesForward
  <2> HIDE DEF i, new, event
  <2>8. /\ Prepared(tx) /\ tx.id = i /\ tx.key = rows[i].key /\ tx.old = rows[i].value
        /\ tx.seen = rows[i].locks /\ tx.locks = rows[i].locks
        /\ Changes(tx) = Changed(i, new) /\ Tells(tx)
    BY <2>1, <2>2, <2>3, <2>4, UpdateIs
  <2> QED BY <2>1, <2>5, <2>6, <2>7, <2>8 DEF Respects
<1> QED BY <1>1, <1>2

\* Every id of a character that is known by name is that of a row, or 0.
LEMMA NameToIdIs ==
  ASSUME rows \in Seq(Row)
  PROVE  NameToId \in [FoldedNames -> Nat]
<1>1. ASSUME NEW k \in FoldedNames
      PROVE  LET named == {i \in OfKind("character") : Key[rows[i].key[2]] = k}
             IN  (IF named = {} THEN 0 ELSE Max(named)) \in Nat
  <2> DEFINE named == {i \in OfKind("character") : Key[rows[i].key[2]] = k}
  <2>1. named \in SUBSET (0..Len(rows)) /\ Len(rows) \in Nat
    BY DEF OfKind
  <2> HIDE DEF named
  <2>2. named # {} => Max(named) \in named
    BY <2>1, MaxIs
  <2>3. CASE named = {}
    BY <2>3 DEF named
  <2>4. CASE named # {}
    <3>1. PICK m : m = Max(named)
      OBVIOUS
    <3>2. m \in named
      BY <2>2, <2>4, <3>1
    <3>3. m \in Nat
      BY <2>1, <3>2
    <3> QED BY <2>4, <3>1, <3>3 DEF named
  <2> QED BY <2>3, <2>4
<1> QED BY <1>1 DEF NameToId

\* Step 3.5 inserts a locked term, or locks the rendering of one with that very name.
LEMMA LockTxIs ==
  ASSUME rows \in Seq(Row), NEW n \in Names, NEW v \in Values, NEW tx,
         tx = LockTx(n, v), tx # None
  PROVE  /\ Prepared(tx) /\ tx.key[1] = "term" /\ tx.seen \subseteq tx.locks
         /\ tx.id # 0 => tx.id \in DOMAIN rows /\ rows[tx.id].key[2] = n
<1> DEFINE ids == {i \in OfKind("term") : rows[i].key[2] = n}
           new0 == [Empty EXCEPT !["main"] = v]
<1>1. new0 \in Content
  BY DEF Empty, Content, Stored, Fields
<1>2. ids \in SUBSET Nat /\ ids \subseteq DOMAIN rows
  BY DEF OfKind
<1>3. ids = {} => tx = Insert(<<"term", n>>, new0, {"main"})
  BY FS_EmptySet DEF LockTx
<1>4. ids # {} => tx = EditField(Min(ids), "main", v, TRUE)
  BY DEF LockTx
<1>5. CASE ids = {}
  <2> DEFINE k == <<"term", n>>
  <2>1. PICK locks \in SUBSET Fields : locks = {"main"}
    BY DEF Fields
  <2>2. tx = Insert(k, new0, locks) /\ k \in RowKeys /\ k[1] = "term"
    BY <1>3, <1>5, <2>1, KeysAre
  <2> HIDE DEF k, new0
  <2>3. Prepared(tx) /\ tx.id = 0 /\ tx.key = k /\ tx.seen = {}
    BY <1>1, <2>2, InsertIs
  <2> QED BY <2>2, <2>3
<1>6. CASE ids # {}
  <2> DEFINE i == Min(ids)
             new == [rows[i].value EXCEPT !["main"] = v]
             locks == rows[i].locks \union {"main"}
  <2>1. i \in ids
    <3> HIDE DEF ids
    <3> QED BY <1>2, <1>6, MinIs
  <2>2. i \in DOMAIN rows /\ rows[i] \in Row /\ rows[i].key[1] = "term" /\ rows[i].key[2] = n
    BY <2>1 DEF OfKind
  <2>3. PICK event \in SUBSET Fields : event = {"main"}
    BY DEF Fields
  <2>4. new \in Content /\ locks \in SUBSET Fields /\ Changed(i, new) \subseteq event
    BY <2>2, <2>3 DEF Row, Content, Stored, Fields, Changed
  <2>5. tx = Update(i, new, locks, event) /\ rows[i].locks \subseteq locks
    BY <1>4, <1>6, <2>3 DEF EditField, LockList
  <2> HIDE DEF i, ids, new, locks
  <2>6. Prepared(tx) /\ tx.id = i /\ tx.key = rows[i].key /\ tx.seen = rows[i].locks /\ tx.locks = locks
    BY <2>2, <2>4, <2>5, UpdateIs
  <2> QED BY <2>2, <2>5, <2>6
<1> QED BY <1>5, <1>6

-----------------------------------------------------------------------------
(* The merge. *)

\* None is no transaction, and an idle merge has none.
LEMMA NoMergeOK == MergeOK(NoMerge) /\ NoMerge.pc = "idle" /\ NoMerge.tx = None
BY DEF MergeOK, ListOK, NoMerge, Merge, MergePc, NoIds

\* One merge goes on, the others stay as they are.
Only(w) == worker' = [worker EXCEPT ![w] = worker'[w]]

\* A worker's new state is what it became.
LEMMA Became ==
  ASSUME IInv, NEW w \in Workers, NEW new, WorkerBecomes(w, new)
  PROVE  Only(w) /\ worker'[w] = new
BY DEF IInv, WorkerBecomes, Only

\* What a step of the merge other than a commit leaves behind: nothing written; a
\* transaction that is new was prepared just now.
Proceeds(w) ==
  /\ Only(w) /\ MergeOK(worker'[w])
  /\ UNCHANGED <<rows, request>>
  /\ worker'[w].tx # None => Prepared(worker'[w].tx)

\* The next step of a merge begins without a transaction.
LEMMA GotoOK ==
  ASSUME IInv, NEW w \in Workers, NEW pc \in MergePc \ {"lock"}, NEW todo \in SUBSET Names,
         Goto(w, pc, todo)
  PROVE  Only(w) /\ MergeOK(worker'[w]) /\ worker'[w].tx = None /\ worker'[w].pc = pc
<1> DEFINE new == [worker[w] EXCEPT !.pc = pc, !.tx = None, !.todo = todo,
                                    !.listed = {}, !.ok = FALSE, !.bad = FALSE]
<1>1. Only(w) /\ worker'[w] = new
  BY Became DEF Goto
<1>2. worker[w] \in Merge
  BY DEF IInv
<1>3. new \in Merge /\ new.pc = pc /\ new.tx = None
  BY <1>2 DEF Merge
<1> HIDE DEF new
<1> QED BY <1>1, <1>3 DEF MergeOK, ListOK

\* So does a merge that ends.
LEMMA EndsOK ==
  ASSUME IInv, NEW w \in Workers, Ends(w)
  PROVE  /\ Only(w) /\ MergeOK(worker'[w]) /\ worker'[w].tx = None
         /\ worker'[w].pc = "idle" /\ holder' = Freed(w)
BY NoMergeOK, Became DEF Ends

\* A store call that is over leaves the merge at its step, without a transaction.
LEMMA TriedOK ==
  ASSUME IInv, NEW w \in Workers, NEW m \in Merge, ListOK(m), NEW good \in BOOLEAN,
         Tried(w, m, good)
  PROVE  Only(w) /\ MergeOK(worker'[w]) /\ worker'[w].tx = None /\ worker'[w].pc = m.pc
<1> DEFINE new == [m EXCEPT !.tx = None, !.ok = m.ok \/ good, !.bad = m.bad \/ ~ good]
<1>1. Only(w) /\ worker'[w] = new
  BY Became DEF Tried
<1>2. (m.ok \/ good) \in BOOLEAN /\ (m.bad \/ ~ good) \in BOOLEAN
  BY DEF Merge
<1>3. new \in Merge /\ new.pc = m.pc /\ new.tx = None /\ new.listed = m.listed /\ new.todo = m.todo
  BY <1>2 DEF Merge
<1> HIDE DEF new
<1> QED BY <1>1, <1>3 DEF MergeOK, ListOK

\* What a transaction in hand makes of a merge.
LEMMA WithTx ==
  ASSUME NEW m \in Merge, NEW tx
  PROVE  LET new == [m EXCEPT !.tx = tx] IN
         /\ new.tx = tx /\ new.pc = m.pc /\ new.todo = m.todo /\ new.known = m.known
         /\ new.listed = m.listed /\ (tx \in Tx => new \in Merge)
BY DEF Merge

\* A store call that has something to write.
LEMMA PreparesOK ==
  ASSUME IInv, NEW w \in Workers, NEW m \in Merge, ListOK(m), NEW tx, Prepares(w, m, tx),
         Prepared(tx), StepWrites([m EXCEPT !.tx = tx]), UNCHANGED <<rows, request>>
  PROVE  Proceeds(w)
<1> DEFINE new == [m EXCEPT !.tx = tx]
<1>1. Only(w) /\ worker'[w] = new
  BY Became DEF Prepares
<1>2. Fits(tx) /\ tx \in Tx
  BY PreparedFits DEF IInv, Fits
<1>3. /\ new.tx = tx /\ new.pc = m.pc /\ new.todo = m.todo /\ new.listed = m.listed
      /\ new \in Merge
  BY <1>2, WithTx
<1>4. StepWrites(new)
  OBVIOUS
<1> HIDE DEF new
<1> QED BY <1>1, <1>2, <1>3, <1>4 DEF Proceeds, MergeOK, ListOK

\* A store call of one of the steps that work through a list.
LEMMA TryProceeds ==
  ASSUME IInv, NEW w \in Workers, NEW m \in Merge, ListOK(m), NEW tx, Try(w, m, tx),
         tx # None => Prepared(tx) /\ StepWrites([m EXCEPT !.tx = tx]),
         UNCHANGED <<rows, request>>
  PROVE  Proceeds(w)
<1>1. CASE Writes(tx)
  <2>1. tx # None /\ Prepares(w, m, tx)
    BY <1>1 DEF Writes, Try
  <2> QED BY <2>1, PreparesOK
<1>2. CASE ~ Writes(tx)
  <2>1. PICK good \in BOOLEAN : good = (tx # None)
    OBVIOUS
  <2>2. Tried(w, m, good)
    BY <1>2, <2>1 DEF Try
  <2> QED BY <2>2, TriedOK DEF Proceeds
<1> QED BY <1>1, <1>2

\* The steps of the merge before its lists.
LEMMA EarlySteps ==
  ASSUME IInv, NEW w \in Workers,
         \/ Start(w) \/ GetOrCreateSeries(w) \/ MergeRegister(w)
         \/ LoadBible(w) \/ LoadBibleFails(w)
  PROVE  Proceeds(w)
<1>0. worker[w] \in Merge /\ rows \in Seq(Row) /\ ListOK(worker[w])
  BY DEF IInv, MergeOK
<1>1. {"series", "register", "load", "character", "term", "plan", "lock", "pair"} \subseteq MergePc
  BY DEF MergePc
<1>2. ASSUME NEW tx, Prepared(tx), tx.key[1] = "series", tx.key = Series, Respects(tx), Tells(tx),
             worker[w].pc \in {"series", "register"},
             Prepares(w, worker[w], tx), UNCHANGED <<rows, request>>
      PROVE  Proceeds(w)
  <2> DEFINE new == [worker[w] EXCEPT !.tx = tx]
  <2>1. new.tx = tx /\ new.pc = worker[w].pc
    BY <1>0, WithTx
  <2> HIDE DEF new
  <2>2. StepWrites(new)
    BY <1>2, <2>1 DEF StepWrites
  <2>3. StepWrites([worker[w] EXCEPT !.tx = tx])
    BY <2>2 DEF new
  <2> QED BY <1>0, <1>2, <2>3, PreparesOK
<1>3. CASE Start(w)
  <2> DEFINE new == [NoMerge EXCEPT !.pc = "series"]
  <2>1. Only(w) /\ worker'[w] = new
    BY <1>3, Became DEF Start
  <2>2. new \in Merge /\ new.tx = None /\ new.pc = "series"
    BY <1>1, NoMergeOK DEF MergeOK, Merge
  <2> HIDE DEF new
  <2> QED BY <1>3, <2>1, <2>2 DEF Proceeds, MergeOK, ListOK, Start
<1>4. CASE GetOrCreateSeries(w)
  <2>1. CASE Found(Series) = {}
    <3>1. PICK none \in SUBSET Fields : none = {}
      OBVIOUS
    <3>2. PICK tx : tx = Insert(Series, Empty, none)
      OBVIOUS
    <3>3. Empty \in Content /\ Series \in RowKeys /\ Series[1] = "series"
      BY KeysAre DEF Empty, Content, Stored
    <3>4. /\ Prepared(tx) /\ Tells(tx)
          /\ tx.id = 0 /\ tx.key = Series /\ tx.seen = {} /\ tx.locks = none
      BY <3>2, <3>3, InsertIs
    <3>5. Respects(tx) /\ tx.key[1] = "series"
      BY <3>1, <3>3, <3>4 DEF Respects
    <3>6. Prepares(w, worker[w], tx) /\ worker[w].pc = "series" /\ UNCHANGED <<rows, request>>
      BY <1>4, <2>1, <3>1, <3>2 DEF GetOrCreateSeries, At
    <3> QED BY <1>2, <3>4, <3>5, <3>6
  <2>2. CASE Found(Series) # {}
    <3>1. /\ Goto(w, "register", {}) /\ UNCHANGED <<rows, request>>
          /\ "register" \in MergePc \ {"lock"}
      BY <1>1, <1>4, <2>2 DEF GetOrCreateSeries
    <3> QED BY <3>1, GotoOK DEF Proceeds
  <2> QED BY <2>1, <2>2
<1>5. CASE MergeRegister(w)
  <2>1. CASE Goto(w, "load", {})
    BY <1>1, <1>5, <2>1, GotoOK DEF Proceeds, MergeRegister
  <2>2. ASSUME NEW g \in Registers, Writes(InferRegister(g)),
               Prepares(w, worker[w], InferRegister(g))
        PROVE  Proceeds(w)
    <3>1. PICK tx : tx = InferRegister(g)
      OBVIOUS
    <3>2. g \in Content
      BY BibleAssumption DEF Registers, Content, Stored, Fields
    <3>3. tx = Upsert(Series, g, "inference") /\ tx # None
      BY <2>2, <3>1 DEF InferRegister, Writes
    <3>4. /\ Prepared(tx) /\ Respects(tx) /\ Tells(tx) /\ tx.key[1] = "series"
      BY <1>0, <3>2, <3>3, UpsertIs, KeysAre
    <3>5. tx.key = Series
      BY <1>0, <3>4, PreparedFits DEF Fits, Tx, RowKeys, Series
    <3>6. Prepares(w, worker[w], tx) /\ worker[w].pc = "register"
      BY <1>5, <2>2, <3>1 DEF MergeRegister, At
    <3> QED BY <1>2, <1>5, <3>4, <3>5, <3>6 DEF MergeRegister
  <2> QED BY <1>5, <2>1, <2>2 DEF MergeRegister
<1>6. CASE LoadBible(w)
  <2> DEFINE known == OfKind("pair")  ids == NameToId
             new == [worker[w] EXCEPT !.pc = "character", !.known = known,
                                      !.ids = ids, !.todo = Names]
  <2>1. Only(w) /\ worker'[w] = new
    BY <1>6, Became DEF LoadBible
  <2>2. known \in SUBSET Nat /\ ids \in [FoldedNames -> Nat]
    BY <1>0, NameToIdIs DEF OfKind
  <2> HIDE DEF known, ids
  <2>3. new \in Merge /\ new.tx = None /\ new.pc = "character"
    BY <1>0, <1>1, <1>6, <2>2 DEF LoadBible, At, Merge
  <2> HIDE DEF new
  <2> QED BY <1>6, <2>1, <2>3 DEF Proceeds, MergeOK, ListOK, LoadBible
<1>7. CASE LoadBibleFails(w)
  BY <1>1, <1>7, GotoOK DEF LoadBibleFails, Proceeds
<1> QED BY <1>3, <1>4, <1>5, <1>6, <1>7

\* A merge without the name it has tried, and with the id of one.
LEMMA ListMerge ==
  ASSUME NEW m \in Merge, NEW n \in Names
  PROVE  /\ Without(m, n) \in Merge /\ Without(m, n).pc = m.pc
         /\ Without(m, n).known = m.known /\ Without(m, n).tx = m.tx
         /\ \A i \in Nat : Named(m, n, i) \in Merge /\ Named(m, n, i).pc = m.pc
         /\ LET c == [m EXCEPT !.cast = @ \union {n}] IN c \in Merge /\ c.pc = m.pc
<1>1. Without(m, n) \in Merge /\ Without(m, n).pc = m.pc
      /\ Without(m, n).known = m.known /\ Without(m, n).tx = m.tx
  BY DEF Without, Merge
<1>2. ASSUME NEW i \in Nat PROVE Named(m, n, i) \in Merge /\ Named(m, n, i).pc = m.pc
  <2>1. Key[n] \in FoldedNames
    BY DEF FoldedNames
  <2> DEFINE ids == [m.ids EXCEPT ![Key[n]] = i]
  <2>2. ids \in [FoldedNames -> Nat]
    BY <2>1 DEF Merge
  <2>3. Named(m, n, i) = [m EXCEPT !.ids = ids]
    BY DEF Named
  <2> HIDE DEF ids
  <2> QED BY <2>2, <2>3 DEF Merge
<1>3. LET c == [m EXCEPT !.cast = @ \union {n}] IN c \in Merge /\ c.pc = m.pc
  BY DEF Merge
<1> QED BY <1>1, <1>2, <1>3

\* Steps 2, 3 and 4: what an upsert of the merge prepares is what its step may write.
LEMMA ListSteps ==
  ASSUME IInv, NEW w \in Workers, MergeCharacter(w) \/ MergeTerm(w) \/ MergePair(w)
  PROVE  Proceeds(w)
<1>0. /\ worker[w] \in Merge /\ rows \in Seq(Row) /\ UNCHANGED <<rows, request>>
      /\ worker[w].todo \subseteq Names /\ worker[w].ids \in [FoldedNames -> Nat]
      /\ Given \subseteq Content
  BY BibleAssumption DEF IInv, MergeCharacter, MergeTerm, MergePair, Merge, Content, Stored
<1>1. CASE MergeCharacter(w)
  <2>1. PICK n \in worker[w].todo, g \in Given :
          LET tx == UpsertCharacter(n, g, "inference")
              m  == [Without(worker[w], n) EXCEPT !.cast = @ \union {n}]
          IN Try(w, IF tx # None /\ ~ Writes(tx) THEN Named(m, n, tx.id) ELSE m, tx)
    BY <1>1 DEF MergeCharacter
  <2>2. PICK tx : tx = UpsertCharacter(n, g, "inference")
    OBVIOUS
  <2>3. PICK m0 : m0 = Without(worker[w], n)
    OBVIOUS
  <2>4. PICK m : m = [m0 EXCEPT !.cast = @ \union {n}]
    OBVIOUS
  <2>5. PICK m2 : m2 = IF tx # None /\ ~ Writes(tx) THEN Named(m, n, tx.id) ELSE m
    OBVIOUS
  <2>6. Try(w, m2, tx)
    BY <2>1, <2>2, <2>3, <2>4, <2>5
  <2>7. tx # None => Prepared(tx) /\ tx.key[1] = "character" /\ Respects(tx) /\ Tells(tx)
    <3>1. PICK k : k = <<"character", n>>
      OBVIOUS
    <3>2. k \in RowKeys /\ k[1] = "character" /\ g \in Content
      BY <1>0, <3>1, KeysAre
    <3>3. tx = Upsert(k, g, "inference")
      BY <2>2, <3>1 DEF UpsertCharacter
    <3> QED BY <1>0, <3>2, <3>3, UpsertIs
  <2>8. m \in Merge /\ m.pc = "character" /\ n \in Names
    <3>1. m0 \in Merge /\ m0.pc = "character" /\ n \in Names
      BY <1>0, <1>1, <2>3, ListMerge DEF MergeCharacter, At
    <3> QED BY <2>4, <3>1, ListMerge
  <2>9. m2 \in Merge /\ m2.pc = "character"
    <3>1. tx # None => tx.id \in Nat
      BY <2>7 DEF Prepared, Tx
    <3> QED BY <2>5, <2>8, <3>1, ListMerge
  <2>10. ListOK(m2)
    BY <2>9 DEF ListOK
  <2>11. ASSUME tx # None PROVE StepWrites([m2 EXCEPT !.tx = tx])
    <3>1. PICK new : new = [m2 EXCEPT !.tx = tx]
      OBVIOUS
    <3>2. new.tx = tx /\ new.pc = "character"
      BY <2>9, <3>1, WithTx
    <3>3. StepWrites(new)
      BY <2>7, <2>11, <3>2 DEF StepWrites
    <3> QED BY <3>1, <3>3
  <2> QED BY <1>0, <2>6, <2>7, <2>9, <2>10, <2>11, TryProceeds
<1>2. CASE MergeTerm(w)
  <2>1. PICK n \in worker[w].todo, g \in Given :
          Try(w, Without(worker[w], n), UpsertTerm(n, g, "inference"))
    BY <1>2 DEF MergeTerm
  <2>2. PICK tx : tx = UpsertTerm(n, g, "inference")
    OBVIOUS
  <2>3. PICK m : m = Without(worker[w], n)
    OBVIOUS
  <2>4. Try(w, m, tx)
    BY <2>1, <2>2, <2>3
  <2>5. tx # None => /\ Prepared(tx) /\ tx.key[1] = "term" /\ Respects(tx) /\ Tells(tx)
                     /\ tx.id # 0 /\ "main" \in Changes(tx) => tx.old["main"] = Blank
    <3>1. PICK k : k = <<"term", n>>
      OBVIOUS
    <3>2. k \in RowKeys /\ k[1] = "term" /\ g \in Content
      BY <1>0, <3>1, KeysAre
    <3>3. tx = Upsert(k, g, "inference")
      BY <2>2, <3>1 DEF UpsertTerm
    <3> QED BY <1>0, <3>2, <3>3, UpsertIs
  <2>6. m \in Merge /\ m.pc = "term"
    BY <1>0, <1>2, <2>3, ListMerge DEF MergeTerm, At
  <2>7. ListOK(m)
    BY <2>6 DEF ListOK
  <2>8. ASSUME tx # None PROVE StepWrites([m EXCEPT !.tx = tx])
    <3>1. PICK new : new = [m EXCEPT !.tx = tx]
      OBVIOUS
    <3>2. new.tx = tx /\ new.pc = "term"
      BY <2>6, <3>1, WithTx
    <3>3. StepWrites(new)
      BY <2>5, <2>8, <3>2 DEF StepWrites
    <3> QED BY <3>1, <3>3
  <2> QED BY <1>0, <2>4, <2>5, <2>6, <2>7, <2>8, TryProceeds
<1>3. CASE MergePair(w)
  <2>1. PICK n \in worker[w].todo, g \in Given :
          LET id == worker[w].ids[Key[n]] IN
          /\ id # 0
          /\ Try(w, Without(worker[w], n), UpsertPair(id, PairTerms(w, id, g), "inference"))
    BY <1>3 DEF MergePair
  <2>2. PICK id : id = worker[w].ids[Key[n]]
    OBVIOUS
  <2>3. PICK terms : terms = PairTerms(w, id, g)
    OBVIOUS
  <2>4. PICK tx : tx = UpsertPair(id, terms, "inference")
    OBVIOUS
  <2>5. PICK m : m = Without(worker[w], n)
    OBVIOUS
  <2>6. Try(w, m, tx)
    BY <2>1, <2>2, <2>3, <2>4, <2>5
  <2>7. /\ id \in Nat /\ terms \in Content
        /\ <<"pair", id>>[1] = "pair" /\ <<"pair", id>> \in RowKeys
    <3>1. Key[n] \in FoldedNames
      BY <1>0 DEF FoldedNames
    <3>2. id \in Nat /\ Empty \in Content
      BY <1>0, <2>2, <3>1 DEF Empty, Content, Stored
    <3> QED BY <1>0, <2>3, <3>2, KeysAre DEF PairTerms
  <2>8. tx # None => /\ Prepared(tx) /\ tx.key[1] = "pair" /\ Respects(tx) /\ Tells(tx)
                     /\ tx.id # 0 => tx.id \in Found(<<"pair", id>>)
                     /\ tx.id # 0 /\ terms = Empty => Changes(tx) = {}
    <3>1. PICK k : k = <<"pair", id>>
      OBVIOUS
    <3>2. k \in RowKeys /\ k[1] = "pair"
      BY <2>7, <3>1
    <3>3. tx = Upsert(k, terms, "inference")
      BY <2>4, <3>1 DEF UpsertPair
    <3>4. PICK source : source = "inference"
      OBVIOUS
    <3>5. tx = Upsert(k, terms, source) /\ source # "import"
      BY <3>3, <3>4
    <3>6. tx # None => /\ Prepared(tx) /\ tx.key[1] = k[1] /\ Respects(tx) /\ Tells(tx)
                       /\ tx.id # 0 => tx.id \in Found(k)
                       /\ tx.id # 0 /\ terms = Empty => Changes(tx) = {}
      BY <1>0, <2>7, <3>2, <3>5, UpsertIs
    <3> QED BY <3>1, <3>2, <3>6
  <2>9. tx # None /\ tx.id # 0 /\ tx.id \in worker[w].known => Changes(tx) = {}
    <3>1. \A i \in Found(<<"pair", id>>) : rows[i].key[2] = id
      BY DEF Found
    <3>2. tx.id \in Found(<<"pair", id>>) /\ tx.id \in worker[w].known => terms = Empty
      BY <2>3, <3>1 DEF PairTerms
    <3> QED BY <2>8, <3>2
  <2>10. m \in Merge /\ m.pc = "pair" /\ m.known = worker[w].known
    BY <1>0, <1>3, <2>5, ListMerge DEF MergePair, At
  <2>11. ListOK(m)
    BY <2>10 DEF ListOK
  <2>12. ASSUME tx # None PROVE StepWrites([m EXCEPT !.tx = tx])
    <3>1. PICK new : new = [m EXCEPT !.tx = tx]
      OBVIOUS
    <3>2. new.tx = tx /\ new.pc = "pair" /\ new.known = worker[w].known
      BY <2>10, <3>1, WithTx
    <3>3. StepWrites(new)
      BY <2>8, <2>9, <2>12, <3>2 DEF StepWrites
    <3> QED BY <3>1, <3>3
  <2> QED BY <1>0, <2>6, <2>8, <2>10, <2>11, <2>12, TryProceeds
<1> QED BY <1>1, <1>2, <1>3

\* Step 3.5: what it locks is no row that it had listed.
LEMMA LockSteps ==
  ASSUME IInv, NEW w \in Workers, PlanLocks(w) \/ PlanLocksFails(w) \/ LockName(w)
  PROVE  Proceeds(w)
<1>0. /\ worker[w] \in Merge /\ rows \in Seq(Row) /\ UNCHANGED <<rows, request>>
      /\ ListOK(worker[w])
  BY DEF IInv, MergeOK, PlanLocks, PlanLocksFails, LockName
<1>1. ASSUME NEW listed, listed \subseteq DOMAIN rows, Plans(w, listed) PROVE Proceeds(w)
  <2>1. PICK todo : todo = NamesToLock(worker[w].cast, listed)
    OBVIOUS
  <2>2. todo \in SUBSET Names /\ \A n \in todo, i \in listed : Key[rows[i].key[2]] # Key[n]
    BY <1>0, <2>1 DEF NamesToLock, Merge
  <2> DEFINE new == [worker[w] EXCEPT !.pc = "lock", !.listed = listed, !.cast = {}, !.todo = todo]
  <2>3. Only(w) /\ worker'[w] = new
    BY <1>1, <2>1, Became DEF Plans
  <2>4. "lock" \in MergePc /\ listed \in SUBSET Nat /\ worker[w].tx = None
    BY <1>0, <1>1 DEF MergePc, Plans, At
  <2>5. new \in Merge /\ new.tx = None /\ new.todo = todo /\ new.listed = listed
    BY <1>0, <2>2, <2>4 DEF Merge
  <2> HIDE DEF new
  <2> QED BY <1>0, <1>1, <2>2, <2>3, <2>5 DEF Proceeds, MergeOK, ListOK
<1>2. CASE PlanLocks(w) \/ PlanLocksFails(w)
  <2>1. OfKind("term") \subseteq DOMAIN rows /\ {} \subseteq DOMAIN rows
    BY DEF OfKind
  <2> QED BY <1>1, <1>2, <2>1 DEF PlanLocks, PlanLocksFails
<1>3. CASE LockName(w)
  <2>1. PICK n \in worker[w].todo, v \in {g["main"] : g \in Registers} :
          LET same == {m \in worker[w].todo : Key[m] = Key[n]} IN
          Try(w, [worker[w] EXCEPT !.todo = @ \ same], LockTx(n, v))
    BY <1>3 DEF LockName
  <2>2. PICK tx : tx = LockTx(n, v)
    OBVIOUS
  <2>3. PICK same : same = {m \in worker[w].todo : Key[m] = Key[n]}
    OBVIOUS
  <2>4. PICK m : m = [worker[w] EXCEPT !.todo = @ \ same]
    OBVIOUS
  <2>5. Try(w, m, tx)
    BY <2>1, <2>2, <2>3, <2>4
  <2>6. n \in Names /\ v \in Values
    BY <1>0, BibleAssumption DEF Merge, Registers, Fields
  <2>7. tx # None => /\ Prepared(tx) /\ tx.key[1] = "term" /\ tx.seen \subseteq tx.locks
                     /\ tx.id # 0 => tx.id \in DOMAIN rows /\ rows[tx.id].key[2] = n
    BY <1>0, <2>2, <2>6, LockTxIs
  <2>8. /\ m \in Merge /\ m.pc = "lock" /\ m.listed = worker[w].listed
        /\ m.todo \subseteq worker[w].todo /\ worker[w].pc = "lock"
    BY <1>0, <1>3, <2>4 DEF LockName, At, Merge
  <2>9. ListOK(m)
    BY <1>0, <2>8 DEF ListOK
  <2>10. \A i \in worker[w].listed : Key[rows[i].key[2]] # Key[n]
    BY <1>0, <2>8 DEF ListOK
  <2>11. ASSUME tx # None PROVE StepWrites([m EXCEPT !.tx = tx])
    <3>1. PICK new : new = [m EXCEPT !.tx = tx]
      OBVIOUS
    <3>2. new.tx = tx /\ new.pc = "lock" /\ new.listed = worker[w].listed
      BY <2>8, <3>1, WithTx
    <3>3. StepWrites(new)
      BY <2>7, <2>10, <2>11, <3>2 DEF StepWrites
    <3> QED BY <3>1, <3>3
  <2> QED BY <1>0, <2>5, <2>7, <2>8, <2>9, <2>11, TryProceeds
<1> QED BY <1>2, <1>3

\* A store call fails, or a step of the merge is over.
LEMMA OtherSteps ==
  ASSUME IInv, NEW w \in Workers, StoreFails(w) \/ StepEnds(w) \/ LocksDone(w)
  PROVE  Proceeds(w)
<1>0. worker[w] \in Merge /\ UNCHANGED <<rows, request>> /\ ListOK(worker[w])
  BY DEF IInv, MergeOK, StoreFails, StepEnds, LocksDone
<1>1. {"load", "term", "plan", "pair"} \subseteq MergePc \ {"lock"}
  BY DEF MergePc
<1>2. CASE StoreFails(w)
  <2>1. CASE Goto(w, "load", {})
    BY <1>0, <1>1, <2>1, GotoOK DEF Proceeds
  <2>2. CASE Tried(w, worker[w], FALSE)
    BY <1>0, <2>2, TriedOK DEF Proceeds
  <2> QED BY <1>2, <2>1, <2>2 DEF StoreFails
<1>3. CASE StepEnds(w)
  <2>1. CASE Ends(w)
    BY <1>0, <2>1, EndsOK DEF Proceeds
  <2>2. CASE ~ Ends(w)
    <3>1. PICK pc : pc = After[worker[w].pc]
      OBVIOUS
    <3>2. pc \in MergePc \ {"lock"} /\ Goto(w, pc, Names)
      BY <1>1, <1>3, <2>2, <3>1 DEF StepEnds, After
    <3> QED BY <1>0, <3>2, GotoOK DEF Proceeds
  <2> QED BY <2>1, <2>2
<1>4. CASE LocksDone(w)
  BY <1>0, <1>1, <1>4, GotoOK DEF LocksDone, Proceeds
<1> QED BY <1>2, <1>3, <1>4

\* Every step of a merge but its commits proceeds.
LEMMA MergeProceeds ==
  ASSUME IInv, NEW w \in Workers, Start(w) \/ Work(w), ~ Commit(w)
  PROVE  Proceeds(w)
BY EarlySteps, ListSteps, LockSteps, OtherSteps DEF Work

-----------------------------------------------------------------------------
(* Commits. *)

\* Rows come and keep their keys.
Grown ==
  /\ rows' \in Seq(Row)
  /\ \A i \in DOMAIN rows : i \in DOMAIN rows' /\ rows'[i].key = rows[i].key

\* A commit adds a row or changes the one it belongs to.
LEMMA CommittedRows ==
  ASSUME rows \in Seq(Row), NEW tx, Fits(tx), rows' = Committed(tx)
  PROVE  /\ Grown
         /\ \A i \in DOMAIN rows : i # tx.id => rows'[i] = rows[i]
         /\ tx.id # 0 =>
              /\ tx.id \in DOMAIN rows /\ DOMAIN rows' = DOMAIN rows
              /\ \A f \in Fields : rows'[tx.id].value[f] =
                   IF f \in Changes(tx) THEN tx.new[f] ELSE rows[tx.id].value[f]
              /\ rows'[tx.id].locks = IF tx.locks # tx.seen THEN tx.locks
                                      ELSE rows[tx.id].locks
              /\ \A f \in Fields : rows'[tx.id].told[f] =
                   IF f \in tx.event THEN tx.new[f] ELSE rows[tx.id].told[f]
         /\ tx.id = 0 =>
              /\ DOMAIN rows' = DOMAIN rows \union {Len(rows) + 1}
              /\ Len(rows) + 1 \notin DOMAIN rows
              /\ rows'[Len(rows) + 1].key = tx.key
              /\ rows'[Len(rows) + 1].told = rows'[Len(rows) + 1].value
<1>1. CASE tx.id = 0
  <2> DEFINE new == [key |-> tx.key, value |-> tx.new, locks |-> tx.locks, told |-> tx.new]
  <2>1. new \in Row /\ new.key = tx.key /\ new.told = new.value
    BY DEF Fits, Tx, Row
  <2>2. rows' = Append(rows, new)
    BY <1>1 DEF Committed
  <2> HIDE DEF new
  <2> QED BY <1>1, <2>1, <2>2 DEF Grown
<1>2. CASE tx.id # 0
  <2> DEFINE i == tx.id  old == rows[i]  new == Dirty(tx, old)
  <2>1. i \in DOMAIN rows /\ old \in Row /\ tx \in Tx /\ tx.key = old.key
    BY <1>2 DEF Fits
  <2>2. /\ new.key = old.key
        /\ new.value = [f \in Fields |-> IF f \in Changes(tx) THEN tx.new[f] ELSE old.value[f]]
        /\ new.locks = IF tx.locks # tx.seen THEN tx.locks ELSE old.locks
        /\ new.told = [f \in Fields |-> IF f \in tx.event THEN tx.new[f] ELSE old.told[f]]
        /\ new = [key |-> new.key, value |-> new.value, locks |-> new.locks, told |-> new.told]
    <3>1. PICK value : value = [f \in Fields |-> IF tx.new[f] # tx.old[f] THEN tx.new[f]
                                                ELSE old.value[f]]
      OBVIOUS
    <3>2. value = [f \in Fields |-> IF f \in Changes(tx) THEN tx.new[f] ELSE old.value[f]]
      BY <3>1 DEF Changes
    <3>3. PICK told : told = [f \in Fields |-> IF f \in tx.event THEN tx.new[f] ELSE old.told[f]]
      OBVIOUS
    <3>4. PICK locks : locks = IF tx.locks # tx.seen THEN tx.locks ELSE old.locks
      OBVIOUS
    <3>5. new = [old EXCEPT !.value = value, !.locks = locks, !.told = told]
      BY <3>1, <3>3, <3>4 DEF Dirty
    <3>6. /\ new.key = old.key /\ new.value = value /\ new.locks = locks /\ new.told = told
          /\ new = [key |-> old.key, value |-> value, locks |-> locks, told |-> told]
      BY <2>1, <3>5 DEF Row
    <3> HIDE DEF new, old
    <3> QED BY <3>2, <3>3, <3>4, <3>6
  <2>3. /\ old.key \in RowKeys /\ old.value \in Content /\ old.locks \in SUBSET Fields
        /\ old.told \in Content
        /\ tx.new \in Content /\ tx.locks \in SUBSET Fields
    BY <2>1 DEF Row, Tx
  <2> HIDE DEF new, old
  <2>4. new.value \in Content /\ new.told \in Content /\ new.locks \in SUBSET Fields
    BY <2>2, <2>3 DEF Content
  <2>5. new \in Row
    BY <2>2, <2>3, <2>4 DEF Row
  <2>6. rows' = [rows EXCEPT ![i] = new]
    BY <1>2 DEF Committed, new, old
  <2>7. rows' \in Seq(Row) /\ DOMAIN rows' = DOMAIN rows /\ rows'[i] = new
        /\ \A j \in DOMAIN rows : j # i => rows'[j] = rows[j]
    BY <2>1, <2>5, <2>6
  <2>8. Grown
    BY <2>2, <2>7 DEF Grown, old
  <2>9. /\ \A f \in Fields : new.value[f] = IF f \in Changes(tx) THEN tx.new[f] ELSE old.value[f]
        /\ \A f \in Fields : new.told[f] = IF f \in tx.event THEN tx.new[f] ELSE old.told[f]
    BY <2>2
  <2> QED BY <1>2, <2>1, <2>2, <2>7, <2>8, <2>9 DEF old
<1> QED BY <1>1, <1>2

\* What is in hand stays in order while rows come and keep their keys.
LEMMA MergeStays ==
  ASSUME rows \in Seq(Row), Grown, NEW w \in Workers, MergeOK(worker'[w])
  PROVE  MergeOK(worker[w])'
<1>1. ListOK(worker'[w]) => ListOK(worker[w])'
  BY DEF Grown, ListOK
<1>2. Fits(worker'[w].tx) => Fits(worker[w].tx)'
  BY DEF Grown, Fits, Logs, Changes
<1>3. StepWrites(worker'[w]) => StepWrites(worker[w])'
  BY DEF StepWrites, Respects, Tells, Changes
<1> QED BY <1>1, <1>2, <1>3 DEF MergeOK

\* So do the edits.
LEMMA EditStays ==
  ASSUME rows \in Seq(Row), Grown, NEW r \in Requests, RequestOK(request'[r])
  PROVE  RequestOK(request[r])'
<1>1. Fits(request'[r].tx) => Fits(request[r].tx)'
  BY DEF Grown, Fits, Logs, Changes
<1>2. EditOK(request'[r].route, request'[r].tx) => EditOK(request[r].route, request[r].tx)'
  BY DEF EditOK, Tells, Changes
<1> QED BY <1>1, <1>2 DEF RequestOK

\* A commit of a merge ends its step, or the merge.
LEMMA CommitKeeps ==
  ASSUME IInv, NEW w \in Workers, Commit(w)
  PROVE  /\ Only(w) /\ UNCHANGED request /\ worker[w].tx # None
         /\ Fits(worker[w].tx) /\ StepWrites(worker[w])
         /\ MergeOK(worker'[w]) /\ worker'[w].tx = None
         /\ \/ rows' = rows /\ Ends(w)
            \/ rows' = Committed(worker[w].tx) /\ holder' = holder
<1>0. /\ worker[w].tx # None /\ Fits(worker[w].tx) /\ StepWrites(worker[w])
      /\ worker[w] \in Merge /\ ListOK(worker[w]) /\ request' = request
  BY DEF Commit, IInv, MergeOK
<1>1. {"register", "load"} \subseteq MergePc \ {"lock"}
  BY DEF MergePc
<1>2. CASE Ends(w) /\ rows' = rows
  BY <1>0, <1>2, EndsOK
<1>3. CASE /\ rows' = Committed(worker[w].tx) /\ holder' = holder
           /\ Goto(w, "register", {}) \/ Goto(w, "load", {})
  BY <1>0, <1>1, <1>3, GotoOK
<1>4. CASE /\ rows' = Committed(worker[w].tx) /\ holder' = holder
           /\ worker[w].pc = "character"
           /\ Tried(w, Named(worker[w], worker[w].tx.key[2], IdOf(worker[w].tx)), TRUE)
  <2>1. PICK n, i : n = worker[w].tx.key[2] /\ i = IdOf(worker[w].tx)
    OBVIOUS
  <2>2. n \in Names /\ i \in Nat
    <3>1. worker[w].tx.key \in RowKeys /\ worker[w].tx.key[1] = "character"
      BY <1>0, <1>4 DEF Fits, Tx, StepWrites
    <3>2. worker[w].tx.id \in Nat /\ Len(rows) + 1 \in Nat
      BY <1>0 DEF Fits, Tx, IInv
    <3> QED BY <2>1, <3>1, <3>2, KeysAre DEF IdOf
  <2>3. PICK m : m = Named(worker[w], n, i)
    OBVIOUS
  <2>4. m \in Merge /\ m.pc = "character" /\ Tried(w, m, TRUE)
    BY <1>0, <1>4, <2>1, <2>2, <2>3, ListMerge
  <2>5. ListOK(m)
    BY <2>4 DEF ListOK
  <2> QED BY <1>0, <1>4, <2>4, <2>5, TriedOK
<1>5. CASE /\ rows' = Committed(worker[w].tx) /\ holder' = holder
           /\ Tried(w, worker[w], TRUE)
  BY <1>0, <1>5, TriedOK
<1> QED BY <1>2, <1>3, <1>4, <1>5 DEF Commit

-----------------------------------------------------------------------------
(* The routes. *)

\* An edit of a field is an UPDATE of a row that is there.
LEMMA EditFieldIs ==
  ASSUME rows \in Seq(Row), NEW i \in DOMAIN rows, NEW f \in Fields, NEW v \in Stored,
         NEW lock \in BOOLEAN, NEW tx, tx = EditField(i, f, v, lock)
  PROVE  Prepared(tx) /\ tx.id # 0 /\ tx.key[1] = rows[i].key[1]
<1>1. rows[i] \in Row
  OBVIOUS
<1>2. PICK new \in Content : new = [rows[i].value EXCEPT ![f] = v]
  BY <1>1 DEF Row, Content
<1>3. PICK locks \in SUBSET Fields : locks = LockList(i, f, lock)
  BY <1>1 DEF Row, LockList
<1>4. PICK event \in SUBSET Fields : event = {f}
  OBVIOUS
<1>5. Changed(i, new) \subseteq event
  BY <1>1, <1>2, <1>4 DEF Changed, Row, Content
<1>6. tx = Update(i, new, locks, event)
  BY <1>2, <1>3, <1>4 DEF EditField
<1> QED BY <1>5, <1>6, UpdateIs

\* So is an edit of a pair, which logs what it changes.
LEMMA EditPairIs ==
  ASSUME rows \in Seq(Row), NEW i \in DOMAIN rows, NEW new \in Content,
         NEW lock \in BOOLEAN, NEW tx, tx = EditPair(i, new, lock)
  PROVE  Prepared(tx) /\ tx.id # 0 /\ tx.key[1] = rows[i].key[1] /\ Tells(tx)
<1>1. PICK locks \in SUBSET Fields : locks = IF lock THEN Fields ELSE {}
  OBVIOUS
<1>2. PICK event \in SUBSET Fields : event = Changed(i, new)
  BY DEF Changed
<1>3. tx = Update(i, new, locks, event)
  BY <1>1, <1>2 DEF EditPair
<1> QED BY <1>2, <1>3, UpdateIs

\* What a PATCH prepares.
LEMMA PatchPrepares ==
  ASSUME rows \in Seq(Row), NEW route \in PatchRoutes, NEW tx \in Asked(route)
  PROVE  /\ Prepared(tx) /\ tx.id # 0
         /\ route = "patch_address_map" => Tells(tx)
<1>0. \A f \in Fields : Typed[f] \subseteq Stored
  BY BibleAssumption DEF Stored
<1>1. ASSUME NEW kind, tx \in Edits(kind) PROVE Prepared(tx) /\ tx.id # 0
  <2>1. PICK f \in Fields : tx \in {EditField(i, f, v, lock) :
            i \in OfKind(kind), v \in Typed[f], lock \in BOOLEAN}
    BY <1>1 DEF Edits
  <2>2. PICK i \in OfKind(kind), v \in Typed[f], lock \in BOOLEAN : tx = EditField(i, f, v, lock)
    BY <2>1
  <2>3. i \in DOMAIN rows /\ v \in Stored
    BY <1>0, <2>2 DEF OfKind
  <2> QED BY <2>2, <2>3, EditFieldIs
<1>2. CASE route \in {"patch_character", "patch_term"}
  BY <1>1, <1>2 DEF Asked, PatchCharacter, PatchTerm
<1>3. CASE route = "patch_register"
  <2>1. PICK i \in OfKind("series"), v \in Typed["main"] \ {Blank}, lock \in BOOLEAN :
          tx = EditField(i, "main", v, lock)
    BY <1>3 DEF Asked, PatchRegister
  <2>2. PICK f \in Fields : f = "main"
    BY DEF Fields
  <2>3. i \in DOMAIN rows /\ v \in Stored /\ tx = EditField(i, f, v, lock)
    BY <1>0, <2>1, <2>2 DEF OfKind
  <2> QED BY <1>3, <2>3, EditFieldIs
<1>4. CASE route = "patch_address_map"
  <2>1. PICK g \in Pairs : tx \in {EditPair(i, g, lock) :
            i \in OfKind("pair"), lock \in {l \in BOOLEAN : l => Full(g)}}
    BY <1>4 DEF Asked, PatchPair
  <2>2. PICK i \in OfKind("pair"), lock \in BOOLEAN : tx = EditPair(i, g, lock)
    BY <2>1
  <2>3. i \in DOMAIN rows /\ g \in Content
    BY <2>2 DEF OfKind, Pairs
  <2> QED BY <2>2, <2>3, EditPairIs
<1> QED BY <1>2, <1>3, <1>4 DEF PatchRoutes

\* What an addition prepares leaves every lock alone, and logs what it changes.
LEMMA AddPrepares ==
  ASSUME rows \in Seq(Row), NEW route \in Routes \ PatchRoutes, NEW tx \in Asked(route), tx # None
  PROVE  /\ Prepared(tx) /\ Respects(tx) /\ Tells(tx)
         /\ tx.key[1] = "character" => route = "add_character"
<1>0. Given \subseteq Content
  BY BibleAssumption DEF Content, Stored
<1>1. CASE route = "add_character"
  <2>1. PICK n \in Names, g \in Given : tx = UpsertCharacter(n, g, "import")
    BY <1>1 DEF Asked, AddCharacter
  <2>2. PICK k : k = <<"character", n>>
    OBVIOUS
  <2>3. tx = Upsert(k, g, "import") /\ k \in RowKeys /\ g \in Content
    BY <1>0, <2>1, <2>2, KeysAre DEF UpsertCharacter
  <2> QED BY <1>1, <2>3, UpsertIs
<1>2. CASE route = "add_term"
  <2>1. PICK n \in Names, g \in Given : tx = UpsertTerm(n, g, "import")
    BY <1>2 DEF Asked, AddTerm
  <2>2. PICK k : k = <<"term", n>>
    OBVIOUS
  <2>3. tx = Upsert(k, g, "import") /\ k \in RowKeys /\ g \in Content /\ k[1] = "term"
    BY <1>0, <2>1, <2>2, KeysAre DEF UpsertTerm
  <2>4. Prepared(tx) /\ Respects(tx) /\ Tells(tx) /\ tx.key[1] = "term"
    BY <2>3, UpsertIs
  <2> QED BY <2>4
<1>3. CASE route = "add_address_pair"
  <2>1. PICK i \in OfKind("character"), g \in Given : tx = UpsertPair(i, g, "import")
    BY <1>3 DEF Asked, AddPair
  <2>2. PICK k : k = <<"pair", i>>
    OBVIOUS
  <2>3. i \in Nat
    BY DEF OfKind
  <2>4. tx = Upsert(k, g, "import") /\ k \in RowKeys /\ g \in Content /\ k[1] = "pair"
    BY <1>0, <2>1, <2>2, <2>3, KeysAre DEF UpsertPair
  <2>5. Prepared(tx) /\ Respects(tx) /\ Tells(tx) /\ tx.key[1] = "pair"
    BY <2>4, UpsertIs
  <2> QED BY <2>5
<1> QED BY <1>1, <1>2, <1>3 DEF Routes

\* The SELECT of a request: an edit is in hand as it was prepared just now, under
\* its lock if its route takes one.
LEMMA SubmitKeeps ==
  ASSUME IInv, NEW r \in Requests, Submit(r)
  PROVE  /\ UNCHANGED <<rows, worker>>
         /\ request' = [request EXCEPT ![r] = request'[r]]
         /\ request[r] = NoRequest /\ request'[r] # NoRequest
         /\ RequestOK(request'[r]) /\ Prepared(request'[r].tx)
         /\ IF TakesLock(request'[r].route) THEN Acquire(PrimaryKey, r) ELSE UNCHANGED holder
<1>0. request \in [Requests -> Request] /\ rows \in Seq(Row)
  BY DEF IInv
<1>1. PICK route \in Routes :
         /\ IF TakesLock(route) THEN Acquire(PrimaryKey, r) ELSE UNCHANGED holder
         /\ \E tx \in Asked(route) :
              /\ Writes(tx)
              /\ request' = [request EXCEPT ![r] = [route |-> route, tx |-> tx]]
  BY DEF Submit
<1>2. PICK tx \in Asked(route) :
              /\ Writes(tx)
              /\ request' = [request EXCEPT ![r] = [route |-> route, tx |-> tx]]
  BY <1>1
<1>3. PICK new : new = [route |-> route, tx |-> tx]
  OBVIOUS
<1>4. request'[r] = new /\ new.route = route /\ new.tx = tx /\ tx # None
  BY <1>0, <1>2, <1>3 DEF Writes
<1>5. Prepared(tx) /\ EditOK(route, tx)
  <2>1. CASE route \in PatchRoutes
    BY <1>0, <2>1, PatchPrepares DEF EditOK
  <2>2. CASE route \notin PatchRoutes
    BY <1>0, <1>4, <2>2, AddPrepares DEF EditOK, Respects
  <2> QED BY <2>1, <2>2
<1>6. Fits(tx)
  BY <1>0, <1>5, PreparedFits
<1>7. new \in Request
  BY <1>3, <1>6 DEF Request, Fits
<1>8. "none" \notin Routes
  BY DEF Routes, PatchRoutes
<1>9. new # NoRequest
  BY <1>4, <1>8 DEF NoRequest
<1>10. RequestOK(new)
  BY <1>4, <1>5, <1>6, <1>7 DEF RequestOK
<1>11. request' = [request EXCEPT ![r] = new] /\ UNCHANGED <<rows, worker>> /\ request[r] = NoRequest
  BY <1>2, <1>3 DEF Submit
<1> QED BY <1>1, <1>4, <1>5, <1>9, <1>10, <1>11

\* Its commit.
LEMMA EditKeeps ==
  ASSUME IInv, NEW r \in Requests, CommitEdit(r)
  PROVE  /\ request' = [request EXCEPT ![r] = NoRequest] /\ UNCHANGED worker
         /\ request[r] # NoRequest /\ request'[r] = NoRequest
         /\ Fits(request[r].tx) /\ EditOK(request[r].route, request[r].tx)
         /\ rows' = Committed(request[r].tx) /\ holder' = Freed(r)
BY DEF CommitEdit, IInv, RequestOK

-----------------------------------------------------------------------------
(* The inductive invariant. *)

\* Locks: a merge takes its own when it starts, keeps it, and frees it when it ends.
MergeLock(w) ==
  \/ worker[w].pc = "idle" /\ Acquire(Lane[w], w)
  \/ worker[w].pc # "idle" /\ (holder' = holder \/ Ends(w))

\* The steps there are: of a merge, of an edit, a crash, or none that matters here.
LEMMA StepsAre ==
  ASSUME IInv, [Next]_vars
  PROVE  \/ \E w \in Workers : Proceeds(w) /\ MergeLock(w)
         \/ \E w \in Workers : Commit(w) /\ MergeLock(w)
         \/ \E r \in Requests : Submit(r)
         \/ \E r \in Requests : CommitEdit(r)
         \/ Crash
         \/ UNCHANGED <<rows, holder, worker, request>>
<1>1. ASSUME NEW w \in Workers, Start(w) \/ Work(w) PROVE MergeLock(w)
  <2>1. worker[w].tx # None => worker[w].pc # "idle"
    BY DEF IInv, MergeOK, StepWrites
  <2>2. CASE Start(w)
    BY <2>2, NoMergeOK DEF Start, MergeLock
  <2>3. CASE Work(w)
    BY <2>1, <2>3 DEF MergeLock, Work, GetOrCreateSeries, MergeRegister, LoadBible,
       LoadBibleFails, MergeCharacter, MergeTerm, MergePair, StoreFails, StepEnds, PlanLocks,
       PlanLocksFails, Plans, LockName, LocksDone, Commit, At, After
  <2> QED BY <1>1, <2>2, <2>3
<1>2. ASSUME NEW w \in Workers, Start(w) \/ Work(w)
      PROVE  (Proceeds(w) \/ Commit(w)) /\ MergeLock(w)
  BY <1>1, <1>2, MergeProceeds
<1>3. ASSUME NEW r \in Requests, DeleteTerm(r) \/ DeletePair(r)
      PROVE  UNCHANGED <<rows, holder, worker, request>>
  BY <1>3 DEF DeleteTerm, DeletePair, Deletes
<1> QED BY <1>2, <1>3 DEF Next, vars

\* The initial state.
LEMMA InitIInv == Init => IInv
<1> SUFFICES ASSUME Init PROVE IInv
  OBVIOUS
<1>1. rows \in Seq(Row)
  BY DEF Init
<1>2. worker \in [Workers -> Merge] /\ \A w \in Workers : MergeOK(worker[w])
  BY NoMergeOK DEF Init, MergeOK
<1>3. request \in [Requests -> Request] /\ \A r \in Requests : RequestOK(request[r])
  BY DEF Init, NoRequest, RequestOK, Request
<1>4. CountsOK
  <2>1. \A b \in DOMAIN Bounds : Bounds[b] \in Nat
    BY BibleAssumption DEF Bounds
  <2> QED BY <2>1 DEF Init, CountsOK
<1>5. Held
  BY NoMergeOK DEF Init, Held
<1> QED BY <1>1, <1>2, <1>3, <1>4, <1>5 DEF IInv

\* Rows are never deleted and keep their keys.
LEMMA RowsGrow ==
  ASSUME IInv, [Next]_vars
  PROVE  Grown
<1>1. ASSUME rows' = rows PROVE Grown
  BY <1>1 DEF IInv, Grown
<1>2. ASSUME NEW w \in Workers, Commit(w) PROVE Grown
  BY <1>1, <1>2, CommitKeeps, CommittedRows DEF IInv
<1>3. ASSUME NEW r \in Requests, CommitEdit(r) PROVE Grown
  BY <1>3, EditKeeps, CommittedRows DEF IInv
<1> QED BY <1>1, <1>2, <1>3, StepsAre, SubmitKeeps DEF Proceeds, Crash

\* What the merges and the edits have in hand stays in order.
LEMMA InHandKept ==
  ASSUME IInv, [Next]_vars
  PROVE  /\ worker' \in [Workers -> Merge] /\ \A w \in Workers : MergeOK(worker[w])'
         /\ request' \in [Requests -> Request] /\ \A r \in Requests : RequestOK(request[r])'
<1>0. /\ worker \in [Workers -> Merge] /\ request \in [Requests -> Request]
      /\ \A w \in Workers : MergeOK(worker[w])
      /\ \A r \in Requests : RequestOK(request[r])
      /\ rows \in Seq(Row) /\ Grown
  BY RowsGrow DEF IInv
<1>1. RequestOK(NoRequest)
  BY DEF NoRequest, RequestOK, Request
<1>2. SUFFICES /\ worker' \in [Workers -> Merge] /\ \A w \in Workers : MergeOK(worker'[w])
               /\ request' \in [Requests -> Request]
               /\ \A r \in Requests : RequestOK(request'[r])
  BY <1>0, MergeStays, EditStays
<1>3. ASSUME NEW w \in Workers, Only(w), MergeOK(worker'[w]), UNCHANGED request
      PROVE  /\ worker' \in [Workers -> Merge] /\ \A v \in Workers : MergeOK(worker'[v])
             /\ request' \in [Requests -> Request]
             /\ \A r \in Requests : RequestOK(request'[r])
  BY <1>0, <1>3 DEF Only, MergeOK
<1>4. ASSUME NEW r \in Requests, request' = [request EXCEPT ![r] = request'[r]],
             RequestOK(request'[r]), UNCHANGED worker
      PROVE  /\ worker' \in [Workers -> Merge] /\ \A v \in Workers : MergeOK(worker'[v])
             /\ request' \in [Requests -> Request]
             /\ \A q \in Requests : RequestOK(request'[q])
  BY <1>0, <1>4 DEF RequestOK
<1>5. CASE \E w \in Workers : Proceeds(w)
  BY <1>3, <1>5 DEF Proceeds
<1>6. CASE \E w \in Workers : Commit(w)
  BY <1>3, <1>6, CommitKeeps
<1>7. CASE \E r \in Requests : Submit(r)
  BY <1>4, <1>7, SubmitKeeps
<1>8. CASE \E r \in Requests : CommitEdit(r)
  <2>1. PICK r \in Requests : CommitEdit(r)
    BY <1>8
  <2>2. request' = [request EXCEPT ![r] = request'[r]] /\ request'[r] = NoRequest /\ UNCHANGED worker
    BY <2>1, EditKeeps
  <2> QED BY <1>1, <1>4, <2>2
<1>9. CASE Crash
  BY <1>1, <1>9, NoMergeOK DEF Crash, MergeOK, RequestOK
<1>10. CASE UNCHANGED <<rows, holder, worker, request>>
  BY <1>0, <1>10
<1> QED BY <1>5, <1>6, <1>7, <1>8, <1>9, <1>10, StepsAre

\* The counters stay within their bounds.
LEMMA CountsKept ==
  ASSUME CountsOK, [Next]_vars
  PROVE  CountsOK'
<1>1. DOMAIN Bounds = {"merges", "writes", "requests", "failures"}
  BY DEF Bounds
<1>2. \A b \in DOMAIN Bounds : Bounds[b] \in Nat
  BY <1>1, BibleAssumption DEF Bounds
<1>3. ASSUME UNCHANGED used PROVE CountsOK'
  BY <1>3 DEF CountsOK, Bounds
<1>4. ASSUME NEW b \in {"merges", "writes", "requests", "failures"}, Uses(b) PROVE CountsOK'
  BY <1>1, <1>2, <1>4 DEF CountsOK, Uses, Bounds
<1>5. ASSUME NEW w \in Workers, Start(w) \/ Work(w)
      PROVE  UNCHANGED used \/ \E b \in {"merges", "writes", "failures"} : Uses(b)
  BY <1>5 DEF Start, Work, GetOrCreateSeries, MergeRegister, LoadBible, LoadBibleFails,
     MergeCharacter, MergeTerm, MergePair, Try, Prepares, StoreFails, StepEnds, PlanLocks,
     PlanLocksFails, LockName, LocksDone, Commit
<1>6. ASSUME NEW r \in Requests, Submit(r) \/ CommitEdit(r) \/ DeleteTerm(r) \/ DeletePair(r)
      PROVE  UNCHANGED used \/ Uses("requests")
  BY <1>6 DEF Submit, CommitEdit, DeleteTerm, DeletePair, Deletes
<1>7. CASE Crash
  BY <1>4, <1>7 DEF Crash
<1> QED BY <1>3, <1>4, <1>5, <1>6, <1>7 DEF Next, vars

\* Nobody takes a lock that another one holds.
LEMMA HeldKept ==
  ASSUME IInv, [Next]_vars
  PROVE  Held'
<1>0. /\ holder \in [LockKeys -> Workers \union Requests \union {Nobody}]
      /\ worker \in [Workers -> Merge] /\ request \in [Requests -> Request]
      /\ \A w \in Workers : worker[w].pc # "idle" => holder[Lane[w]] = w
      /\ \A r \in Requests :
           request[r] # NoRequest /\ TakesLock(request[r].route) => holder[PrimaryKey] = r
      /\ PrimaryKey \in LockKeys /\ \A w \in Workers : Lane[w] \in LockKeys
  BY DEF IInv, Held, LockKeys
<1>1. ASSUME NEW k \in LockKeys, NEW who \in Workers \union Requests, Acquire(k, who)
      PROVE  /\ holder' \in [LockKeys -> Workers \union Requests \union {Nobody}]
             /\ holder[k] = Nobody /\ holder'[k] = who
             /\ \A l \in LockKeys : holder[l] # Nobody => holder'[l] = holder[l]
  BY <1>0, <1>1 DEF Acquire
<1>2. ASSUME NEW who \in Workers \union Requests, holder' = Freed(who)
      PROVE  /\ holder' \in [LockKeys -> Workers \union Requests \union {Nobody}]
             /\ \A l \in LockKeys : holder[l] # who => holder'[l] = holder[l]
  BY <1>0, <1>2 DEF Freed
<1>3. ASSUME NEW w \in Workers, Only(w), MergeLock(w), UNCHANGED request PROVE Held'
  <2>1. CASE Acquire(Lane[w], w)
    BY <1>0, <1>1, <1>3, <2>1, BibleAssumption DEF Held, Only
  <2>2. CASE worker[w].pc # "idle" /\ holder' = holder
    BY <1>0, <1>3, <2>2 DEF Held, Only
  <2>3. CASE Ends(w)
    <3>1. worker'[w].pc = "idle" /\ holder' = Freed(w)
      BY <2>3, EndsOK
    <3> QED BY <1>0, <1>2, <1>3, <3>1, BibleAssumption DEF Held, Only
  <2> QED BY <1>3, <2>1, <2>2, <2>3 DEF MergeLock
<1>4. ASSUME NEW r \in Requests, Submit(r) PROVE Held'
  <2>1. /\ UNCHANGED worker /\ request' = [request EXCEPT ![r] = request'[r]]
        /\ IF TakesLock(request'[r].route) THEN Acquire(PrimaryKey, r) ELSE UNCHANGED holder
    BY <1>4, SubmitKeeps
  <2>2. CASE TakesLock(request'[r].route)
    BY <1>0, <1>1, <2>1, <2>2, BibleAssumption DEF Held
  <2>3. CASE ~ TakesLock(request'[r].route)
    BY <1>0, <2>1, <2>3 DEF Held
  <2> QED BY <2>2, <2>3
<1>5. ASSUME NEW r \in Requests, CommitEdit(r) PROVE Held'
  <2>1. request' = [request EXCEPT ![r] = NoRequest] /\ holder' = Freed(r) /\ UNCHANGED worker
    BY <1>5, EditKeeps
  <2> QED BY <1>0, <1>2, <2>1, BibleAssumption DEF Held
<1>6. CASE Crash
  BY <1>6, NoMergeOK DEF Crash, Held
<1>7. CASE UNCHANGED <<rows, holder, worker, request>>
  BY <1>0, <1>7 DEF Held
<1> QED BY <1>3, <1>4, <1>5, <1>6, <1>7, StepsAre, CommitKeeps DEF Proceeds

\* Every step keeps the inductive invariant.
LEMMA NextIInv == IInv /\ [Next]_vars => IInv'
<1> SUFFICES ASSUME IInv, [Next]_vars PROVE IInv'
  OBVIOUS
<1>1. CountsOK'
  BY CountsKept DEF IInv
<1> QED BY <1>1, RowsGrow, InHandKept, HeldKept DEF IInv, Grown

\* IInv holds in every state the program reaches.
THEOREM Invariant == Spec => []IInv
BY InitIInv, NextIInv, PTL DEF Spec

\* The rows, locks, merges, edits and counters stay within their types.
THEOREM TypeCorrect == Spec => []TypeOK
<1>1. IInv => TypeOK
  BY DEF IInv, CountsOK, Held, TypeOK
<1> QED BY <1>1, Invariant, PTL

-----------------------------------------------------------------------------
(* What a step may never do. *)

\* A step that changes a row is the commit of a merge or of an edit to that row.
LEMMA WhoWrites ==
  ASSUME IInv, [Next]_vars, NEW i \in DOMAIN rows, rows'[i] # rows[i]
  PROVE  \/ \E w \in Workers :
              /\ Only(w) /\ UNCHANGED request /\ worker[w].tx # None /\ worker'[w].tx = None
              /\ Fits(worker[w].tx) /\ StepWrites(worker[w])
              /\ worker[w].tx.id = i /\ i # 0 /\ rows' = Committed(worker[w].tx)
         \/ \E r \in Requests :
              /\ Answers(r) /\ holder' = Freed(r)
              /\ Fits(request[r].tx) /\ EditOK(request[r].route, request[r].tx)
              /\ request[r].tx.id = i /\ i # 0 /\ rows' = Committed(request[r].tx)
<1>0. rows \in Seq(Row) /\ i # 0
  BY DEF IInv
<1>1. ASSUME NEW w \in Workers, Commit(w)
      PROVE  /\ Only(w) /\ UNCHANGED request /\ worker[w].tx # None /\ worker'[w].tx = None
             /\ Fits(worker[w].tx) /\ StepWrites(worker[w])
             /\ worker[w].tx.id = i /\ i # 0 /\ rows' = Committed(worker[w].tx)
  BY <1>0, <1>1, CommitKeeps, CommittedRows
<1>2. ASSUME NEW r \in Requests, CommitEdit(r)
      PROVE  /\ Answers(r) /\ holder' = Freed(r)
             /\ Fits(request[r].tx) /\ EditOK(request[r].route, request[r].tx)
             /\ request[r].tx.id = i /\ i # 0 /\ rows' = Committed(request[r].tx)
  BY <1>0, <1>2, EditKeeps, CommittedRows DEF Answers
<1>3. \/ \E w \in Workers : Commit(w)
      \/ \E r \in Requests : CommitEdit(r)
  BY StepsAre, SubmitKeeps DEF Proceeds, Crash
<1> QED BY <1>1, <1>2, <1>3

\* A field that a commit overwrites is one that its call changed with respect to
\* the row as read; a lock that it lifts is not in the list that it writes.
LEMMA WritesChange ==
  ASSUME rows \in Seq(Row), NEW tx, Fits(tx), rows' = Committed(tx), tx.id # 0
  PROVE  /\ Overwritten(tx.id) \subseteq Changes(tx)
         /\ Unlocked(tx.id) # {} => tx.locks # tx.seen
         /\ \A f \in Unlocked(tx.id) : f \in rows[tx.id].locks /\ f \notin tx.locks
BY CommittedRows DEF Overwritten, Unlocked

\* The mover of a step is the merge whose state changes.
LEMMA MoverIs ==
  ASSUME IInv, NEW w \in Workers, NEW v \in Workers, Only(v), worker'[w] # worker[w]
  PROVE  v = w
BY DEF IInv, Only

\* An inference changes a locked field only if its merge had read the row before the
\* lock, or locks a name that was no term (store.py:1115, analyze.py step 3.5).
THEOREM LocksReadAreKeptAlways == Spec => LocksReadAreKept
<1>1. ASSUME IInv, [Next]_vars, NEW w \in Workers, NEW i \in DOMAIN rows, Moves(w),
             Overwritten(i) \intersect rows[i].locks # {}
      PROVE  \/ Overwritten(i) \intersect worker[w].tx.seen = {}
             \/ worker[w].pc = "lock" /\ i \notin worker[w].listed
  <2>0. rows \in Seq(Row)
    BY <1>1 DEF IInv
  <2>1. rows'[i] # rows[i]
    BY <1>1 DEF Overwritten
  <2>2. ~ \E r \in Requests : Answers(r)
    BY <1>1 DEF Moves, Answers
  <2>3. PICK v \in Workers : /\ Only(v) /\ Fits(worker[v].tx) /\ StepWrites(worker[v])
                             /\ worker[v].tx.id = i /\ i # 0 /\ rows' = Committed(worker[v].tx)
    BY <1>1, <2>1, <2>2, WhoWrites
  <2>4. v = w
    BY <1>1, <2>3, MoverIs DEF Moves
  <2>5. Overwritten(i) \subseteq Changes(worker[w].tx)
    BY <2>0, <2>3, <2>4, WritesChange
  <2>6. CASE worker[w].pc = "lock"
    BY <2>3, <2>4, <2>6 DEF StepWrites
  <2>7. CASE worker[w].pc # "lock"
    BY <2>3, <2>4, <2>5, <2>7 DEF StepWrites, Respects
  <2> QED BY <2>6, <2>7
<1>2. IInv /\ [Next]_vars =>
        [\A w \in Workers, i \in DOMAIN rows :
           Moves(w) /\ Overwritten(i) \intersect rows[i].locks # {}
             => \/ Overwritten(i) \intersect worker[w].tx.seen = {}
                \/ worker[w].pc = "lock" /\ i \notin worker[w].listed]_vars
  BY <1>1
<1> QED BY <1>2, Invariant, PTL DEF Spec, LocksReadAreKept

\* An inference keeps a rendering that its merge had read, and the terms of a pair
\* that its merge had loaded (store.py carry-forward, analyze.py step 4).
THEOREM EstablishedKeptAlways == Spec => EstablishedKept
<1>1. ASSUME IInv, [Next]_vars, NEW w \in Workers, NEW i \in DOMAIN rows, Moves(w),
             worker[w].pc # "lock"
      PROVE  /\ rows[i].key[1] = "term" /\ "main" \in Overwritten(i)
                  => worker[w].tx.old["main"] = Blank
             /\ rows[i].key[1] = "pair" /\ Overwritten(i) # {} => i \notin worker[w].known
  <2>0. rows \in Seq(Row)
    BY <1>1 DEF IInv
  <2>1. SUFFICES ASSUME Overwritten(i) # {}
        PROVE  /\ rows[i].key[1] = "term" /\ "main" \in Overwritten(i)
                    => worker[w].tx.old["main"] = Blank
               /\ rows[i].key[1] = "pair" => i \notin worker[w].known
    OBVIOUS
  <2>2. rows'[i] # rows[i]
    BY <2>1 DEF Overwritten
  <2>3. ~ \E r \in Requests : Answers(r)
    BY <1>1 DEF Moves, Answers
  <2>4. PICK v \in Workers : /\ Only(v) /\ Fits(worker[v].tx) /\ StepWrites(worker[v])
                             /\ worker[v].tx.id = i /\ i # 0 /\ rows' = Committed(worker[v].tx)
    BY <1>1, <2>2, <2>3, WhoWrites
  <2>5. v = w
    BY <1>1, <2>4, MoverIs DEF Moves
  <2>6. Overwritten(i) \subseteq Changes(worker[w].tx) /\ worker[w].tx.key = rows[i].key
    BY <2>0, <2>4, <2>5, WritesChange DEF Fits
  <2>7. rows[i].key[1] \in {"term", "pair"} => worker[w].pc = rows[i].key[1]
    BY <1>1, <2>4, <2>5, <2>6, KeysAre DEF StepWrites
  <2> QED BY <2>1, <2>4, <2>5, <2>6, <2>7 DEF StepWrites
<1>2. IInv /\ [Next]_vars =>
        [\A w \in Workers, i \in DOMAIN rows :
           Moves(w) /\ worker[w].pc # "lock"
             => /\ rows[i].key[1] = "term" /\ "main" \in Overwritten(i)
                     => worker[w].tx.old["main"] = Blank
                /\ rows[i].key[1] = "pair" /\ Overwritten(i) # {}
                     => i \notin worker[w].known]_vars
  BY <1>1
<1> QED BY <1>2, Invariant, PTL DEF Spec, EstablishedKept

\* The newest event of a field names its value, unless its edit sent the value that
\* it had read and another call changed the field in between (store.py, bible_event).
THEOREM HistoryFollowsAlways == Spec => HistoryFollows
<1> DEFINE Follows(i, f) ==
             \/ rows'[i].told[f] = rows'[i].value[f]
             \/ i \in DOMAIN rows /\ rows[i].told[f] # rows[i].value[f]
             \/ \E r \in Requests : /\ Answers(r) /\ Echoes(request[r].tx, i, f)
                                    /\ request[r].route \in PatchRoutes \ {"patch_address_map"}
             \/ \E w \in Workers : /\ Moves(w) /\ Echoes(worker[w].tx, i, f)
                                   /\ worker[w].pc = "lock"
<1>1. ASSUME rows \in Seq(Row), NEW tx, Fits(tx), rows' = Committed(tx),
             NEW i \in DOMAIN rows, tx.id = i, NEW f \in Fields,
             rows[i].told[f] = rows[i].value[f], rows'[i].told[f] # rows'[i].value[f]
      PROVE  Echoes(tx, i, f) /\ ~ Tells(tx)
  <2>1. /\ i # 0
        /\ rows'[i].value[f] = IF f \in Changes(tx) THEN tx.new[f] ELSE rows[i].value[f]
        /\ rows'[i].told[f] = IF f \in tx.event THEN tx.new[f] ELSE rows[i].told[f]
    BY <1>1, CommittedRows
  <2>2. Changes(tx) \subseteq tx.event
    BY <1>1, <2>1 DEF Fits, Logs
  <2>3. f \in tx.event /\ f \notin Changes(tx) /\ tx.new[f] # rows[i].value[f]
    BY <1>1, <2>1, <2>2
  <2> QED BY <1>1, <2>1, <2>3 DEF Echoes, Tells, Changes
<1>2. ASSUME IInv, [Next]_vars, NEW i \in DOMAIN rows', NEW f \in Fields
      PROVE  Follows(i, f)
  <2>0. rows \in Seq(Row)
    BY <1>2 DEF IInv
  <2>1. CASE i \notin DOMAIN rows
    <3>1. ASSUME NEW tx, Fits(tx), rows' = Committed(tx)
          PROVE  rows'[i].told = rows'[i].value
      BY <1>2, <2>0, <2>1, <3>1, CommittedRows
    <3>2. ASSUME NEW w \in Workers, Commit(w) PROVE Follows(i, f)
      BY <1>2, <2>1, <3>1, <3>2, CommitKeeps
    <3>3. ASSUME NEW r \in Requests, CommitEdit(r) PROVE Follows(i, f)
      BY <1>2, <3>1, <3>3, EditKeeps
    <3>4. rows' # rows
      BY <1>2, <2>1
    <3>5. (\E w \in Workers : Commit(w)) \/ \E r \in Requests : CommitEdit(r)
      BY <1>2, <3>4, StepsAre, SubmitKeeps DEF Proceeds, Crash
    <3> QED BY <3>2, <3>3, <3>5
  <2>2. CASE i \in DOMAIN rows
    <3>1. SUFFICES ASSUME rows[i].told[f] = rows[i].value[f],
                          rows'[i].told[f] # rows'[i].value[f]
          PROVE  Follows(i, f)
      BY <2>2
    <3>2. rows'[i] # rows[i]
      BY <3>1
    <3>3. ASSUME NEW w \in Workers, Only(w), UNCHANGED request,
                 worker[w].tx # None, worker'[w].tx = None,
                 Fits(worker[w].tx), StepWrites(worker[w]), worker[w].tx.id = i,
                 rows' = Committed(worker[w].tx)
          PROVE  Follows(i, f)
      <4>1. Echoes(worker[w].tx, i, f) /\ ~ Tells(worker[w].tx)
        BY <1>1, <2>0, <2>2, <3>1, <3>3
      <4>2. worker[w].pc = "lock"
        BY <3>3, <4>1 DEF StepWrites
      <4>3. Moves(w)
        BY <3>3 DEF Moves
      <4> QED BY <4>1, <4>2, <4>3
    <3>4. ASSUME NEW r \in Requests, Answers(r), Fits(request[r].tx),
                 EditOK(request[r].route, request[r].tx), request[r].tx.id = i,
                 rows' = Committed(request[r].tx)
          PROVE  Follows(i, f)
      <4>1. Echoes(request[r].tx, i, f) /\ ~ Tells(request[r].tx)
        BY <1>1, <2>0, <2>2, <3>1, <3>4
      <4>2. request[r].route \in PatchRoutes \ {"patch_address_map"}
        BY <3>4, <4>1 DEF EditOK
      <4> QED BY <3>4, <4>1, <4>2
    <3> HIDE DEF Follows
    <3> QED BY <1>2, <2>2, <3>2, <3>3, <3>4, WhoWrites
  <2> QED BY <2>1, <2>2
<1>3. IInv /\ [Next]_vars => [\A i \in DOMAIN rows', f \in Fields : Follows(i, f)]_vars
  BY <1>2
<1> QED BY <1>3, Invariant, PTL DEF Spec, HistoryFollows

\* Every step keeps what a PATCH read of the locks: two PATCHes exclude each other,
\* additions and inferences leave the locks alone, and step 3.5 locks terms only.
LEMMA NextPatchSees == IInv /\ PatchSees /\ [Next]_vars => PatchSees'
<1> SUFFICES ASSUME IInv, PatchSees, [Next]_vars, NEW r \in Requests, request'[r] # NoRequest,
                    request'[r].route \in PatchRoutes, request'[r].tx.key[1] # "term"
             PROVE  request'[r].tx.seen = rows'[request'[r].tx.id].locks
  BY DEF PatchSees
<1>0. rows \in Seq(Row)
  BY DEF IInv
<1>1. CASE request'[r] = request[r]
  <2>1. PICK tx : tx = request[r].tx
    OBVIOUS
  <2>2. PICK i : i = tx.id
    OBVIOUS
  <2>3. /\ Fits(tx) /\ i # 0 /\ i \in DOMAIN rows /\ tx.key = rows[i].key
        /\ tx.seen = rows[i].locks /\ holder[PrimaryKey] = r
    BY <1>1, <2>1, <2>2 DEF IInv, RequestOK, EditOK, Fits, PatchSees, Held, TakesLock
  <2>4. SUFFICES ASSUME rows'[i] # rows[i] PROVE rows'[i].locks = rows[i].locks
    BY <1>1, <2>1, <2>2, <2>3
  <2>5. ASSUME NEW w \in Workers, Fits(worker[w].tx), StepWrites(worker[w]),
               worker[w].tx.id = i, rows' = Committed(worker[w].tx)
        PROVE  rows'[i].locks = rows[i].locks
    <3>1. worker[w].tx.key[1] # "term"
      BY <1>1, <2>1, <2>3, <2>5 DEF Fits
    <3>2. worker[w].tx.locks = worker[w].tx.seen
      BY <2>5, <3>1 DEF StepWrites, Respects
    <3> QED BY <1>0, <2>3, <2>5, <3>2, CommittedRows
  <2>6. ASSUME NEW q \in Requests, Answers(q), Fits(request[q].tx),
               EditOK(request[q].route, request[q].tx),
               request[q].tx.id = i, rows' = Committed(request[q].tx)
        PROVE  rows'[i].locks = rows[i].locks
    <3>1. q # r
      BY <2>6 DEF Answers
    <3>2. request[q].route \notin PatchRoutes
      BY <2>3, <2>6, <3>1 DEF IInv, Held, TakesLock, Answers
    <3>3. request[q].tx.locks = request[q].tx.seen
      BY <2>6, <3>2 DEF EditOK
    <3> QED BY <1>0, <2>3, <2>6, <3>3, CommittedRows
  <2> QED BY <2>3, <2>4, <2>5, <2>6, WhoWrites
<1>2. CASE request'[r] # request[r]
  <2>1. PICK q \in Requests : Submit(q) \/ CommitEdit(q)
    BY <1>2, StepsAre, CommitKeeps DEF Proceeds, Crash
  <2>2. q = r
    BY <1>2, <2>1, SubmitKeeps, EditKeeps DEF IInv
  <2>3. Submit(r)
    BY <2>1, <2>2, EditKeeps
  <2>4. Prepared(request'[r].tx) /\ RequestOK(request'[r]) /\ rows' = rows
    BY <2>3, SubmitKeeps
  <2>5. request'[r].tx.id # 0
    BY <2>4 DEF RequestOK, EditOK
  <2> QED BY <2>4, <2>5 DEF Prepared
<1> QED BY <1>1, <1>2

\* It holds in every state the program reaches.
LEMMA PatchSeesAlways == Spec => []PatchSees
<1>1. Init => PatchSees
  BY DEF Init, PatchSees
<1> QED BY <1>1, NextPatchSees, Invariant, PTL DEF Spec

\* A lock is lifted by the PATCH that asks for it and by nothing else; the lock of a
\* term also by a list that was read before it (store.py:1345-1352).
THEOREM LocksLiftedByHandAlways == Spec => LocksLiftedByHand
<1> DEFINE Lifted(i, f) ==
             \/ \E r \in Requests : LET tx == request[r].tx IN
                  /\ Answers(r) /\ request[r].route \in PatchRoutes
                  /\ tx.id = i /\ f \in tx.seen \ tx.locks
             \/ /\ rows[i].key[1] = "term"
                /\ \/ \E r \in Requests : Answers(r) /\ f \notin request[r].tx.seen
                   \/ \E w \in Workers : Moves(w) /\ f \notin worker[w].tx.seen
<1>1. ASSUME IInv, PatchSees, [Next]_vars, NEW i \in DOMAIN rows, NEW f \in Unlocked(i)
      PROVE  Lifted(i, f)
  <2>0. rows \in Seq(Row) /\ rows'[i] # rows[i]
    BY <1>1 DEF IInv, Unlocked
  <2>1. ASSUME NEW w \in Workers, Only(w), UNCHANGED request,
               worker[w].tx # None, worker'[w].tx = None,
               Fits(worker[w].tx), StepWrites(worker[w]), worker[w].tx.id = i, i # 0,
               rows' = Committed(worker[w].tx)
        PROVE  Lifted(i, f)
    <3>1. worker[w].tx.locks # worker[w].tx.seen /\ f \notin worker[w].tx.locks
      BY <1>1, <2>0, <2>1, WritesChange
    <3>2. worker[w].pc = "lock"
      BY <2>1, <3>1 DEF StepWrites, Respects
    <3>3. rows[i].key[1] = "term" /\ f \notin worker[w].tx.seen
      BY <2>1, <3>1, <3>2 DEF StepWrites, Fits
    <3>4. Moves(w)
      BY <2>1 DEF Moves
    <3> QED BY <3>3, <3>4
  <2>2. ASSUME NEW r \in Requests, Answers(r), Fits(request[r].tx),
               EditOK(request[r].route, request[r].tx), request[r].tx.id = i, i # 0,
               rows' = Committed(request[r].tx)
        PROVE  Lifted(i, f)
    <3>1. /\ request[r].tx.locks # request[r].tx.seen
          /\ f \notin request[r].tx.locks /\ f \in rows[i].locks
      BY <1>1, <2>0, <2>2, WritesChange
    <3>2. request[r].route \in PatchRoutes
      BY <2>2, <3>1 DEF EditOK
    <3>3. CASE f \in request[r].tx.seen
      BY <2>2, <3>1, <3>2, <3>3
    <3>4. CASE f \notin request[r].tx.seen
      <4>1. rows[i].key[1] = "term"
        BY <1>1, <2>2, <3>1, <3>2, <3>4 DEF PatchSees, Answers, Fits
      <4> QED BY <2>2, <3>4, <4>1
    <3> QED BY <3>3, <3>4
  <2> HIDE DEF Lifted
  <2> QED BY <1>1, <2>0, <2>1, <2>2, WhoWrites
<1>2. IInv /\ PatchSees /\ [Next]_vars =>
        [\A i \in DOMAIN rows : \A f \in Unlocked(i) : Lifted(i, f)]_vars
  BY <1>1
<1> QED BY <1>2, Invariant, PatchSeesAlways, PTL DEF Spec, LocksLiftedByHand

-----------------------------------------------------------------------------
(* The rows of one character. *)

\* The locks are finitely many.
LEMMA LocksFinite ==
  /\ IsFiniteSet(LockKeys) /\ Cardinality(LockKeys) \in Nat
  /\ \A A \in SUBSET LockKeys : /\ IsFiniteSet(A) /\ Cardinality(A) \in Nat
                                /\ Cardinality(A) <= Cardinality(LockKeys)
<1>1. IsFiniteSet({Lane[w] : w \in Workers})
  <2>1. [w \in Workers |-> Lane[w]] \in Surjection(Workers, {Lane[w] : w \in Workers})
    BY DEF Surjection
  <2> QED BY <2>1, BibleAssumption, FS_Surjection
<1>2. IsFiniteSet({PrimaryKey})
  BY FS_Singleton
<1>3. IsFiniteSet(LockKeys)
  BY <1>1, <1>2, FS_Union DEF LockKeys
<1> QED BY <1>3, FS_Subset, FS_CardinalityType

\* Fewer additions for the same rows, a row for an addition, or no row at all.
LEMMA BoundStays ==
  ASSUME NEW R, NEW A \in SUBSET LockKeys, NEW Q, NEW B \in SUBSET LockKeys,
         IsFiniteSet(R), Cardinality(R) + Cardinality(A) <= Cardinality(LockKeys),
         \/ Q = R /\ B \subseteq A
         \/ \E k \in A : \E j : Q = R \union {j} /\ B \subseteq A \ {k}
         \/ Q = {}
  PROVE  IsFiniteSet(Q) /\ Cardinality(Q) + Cardinality(B) <= Cardinality(LockKeys)
<1>0. /\ IsFiniteSet(A) /\ IsFiniteSet(B) /\ Cardinality(B) <= Cardinality(LockKeys)
      /\ Cardinality(A) \in Nat /\ Cardinality(B) \in Nat /\ Cardinality(R) \in Nat
      /\ Cardinality(LockKeys) \in Nat
  BY LocksFinite, FS_CardinalityType
<1>1. CASE Q = R /\ B \subseteq A
  <2>1. Cardinality(B) <= Cardinality(A)
    BY <1>0, <1>1, FS_Subset
  <2> QED BY <1>0, <1>1, <2>1
<1>2. ASSUME NEW k \in A, NEW j, Q = R \union {j}, B \subseteq A \ {k}
      PROVE  IsFiniteSet(Q) /\ Cardinality(Q) + Cardinality(B) <= Cardinality(LockKeys)
  <2>1. IsFiniteSet(A \ {k}) /\ Cardinality(A \ {k}) = Cardinality(A) - 1
    BY <1>0, FS_RemoveElement
  <2>2. Cardinality(B) <= Cardinality(A \ {k})
    BY <1>2, <2>1, FS_Subset
  <2>3. IsFiniteSet(Q) /\ (Cardinality(Q) = Cardinality(R) \/ Cardinality(Q) = Cardinality(R) + 1)
    BY <1>2, FS_AddElement
  <2> QED BY <1>0, <2>1, <2>2, <2>3
<1>3. CASE Q = {}
  BY <1>0, <1>3, FS_EmptySet
<1> QED BY <1>1, <1>2, <1>3

\* The rows of a character are the plain ones of its key.
LEMMA RowsOfIs ==
  ASSUME NEW n
  PROVE  /\ RowsOf(n) = {i \in DOMAIN rows : /\ rows[i].key[1] = "character"
                                             /\ SameName(rows[i].key[2], n)}
         /\ RowsOf(n)' = {i \in DOMAIN rows' : /\ rows'[i].key[1] = "character"
                                               /\ SameName(rows'[i].key[2], n)}
<1>1. RowsOf(n) = {i \in DOMAIN rows : /\ rows[i].key[1] = "character"
                                       /\ SameName(rows[i].key[2], n)}
  BY DEF RowsOf, Found, OfKind
<1>2. RowsOf(n)' = {i \in DOMAIN rows' : /\ rows'[i].key[1] = "character"
                                         /\ SameName(rows'[i].key[2], n)}
  BY DEF RowsOf, Found, OfKind
<1> QED BY <1>1, <1>2

\* A commit adds a row to them if its transaction does.
LEMMA CommitAdds ==
  ASSUME rows \in Seq(Row), NEW tx, Fits(tx), rows' = Committed(tx), NEW n
  PROVE  IF Adds(tx, n) THEN \E j : RowsOf(n)' = RowsOf(n) \union {j}
                        ELSE RowsOf(n)' = RowsOf(n)
<1>0. Grown
  BY CommittedRows
<1>1. CASE tx.id = 0
  <2>1. /\ DOMAIN rows' = DOMAIN rows \union {Len(rows) + 1} /\ Len(rows) + 1 \notin DOMAIN rows
        /\ rows'[Len(rows) + 1].key = tx.key
    BY <1>1, CommittedRows
  <2>2. CASE Adds(tx, n)
    <3>1. RowsOf(n)' = RowsOf(n) \union {Len(rows) + 1}
      BY <1>0, <2>1, <2>2, RowsOfIs DEF Grown, Adds
    <3> QED BY <2>2, <3>1
  <2>3. CASE ~ Adds(tx, n)
    <3>1. ~ (tx.key[1] = "character" /\ SameName(tx.key[2], n))
      BY <1>1, <2>3 DEF Adds
    <3>2. {i \in DOMAIN rows' : rows'[i].key[1] = "character" /\ SameName(rows'[i].key[2], n)}
            = {i \in DOMAIN rows : rows[i].key[1] = "character" /\ SameName(rows[i].key[2], n)}
      BY <1>0, <2>1, <3>1 DEF Grown
    <3> QED BY <2>3, <3>2, RowsOfIs
  <2> QED BY <2>2, <2>3
<1>2. CASE tx.id # 0
  <2>1. DOMAIN rows' = DOMAIN rows /\ ~ Adds(tx, n)
    BY <1>2, CommittedRows DEF Adds
  <2>2. {i \in DOMAIN rows' : rows'[i].key[1] = "character" /\ SameName(rows'[i].key[2], n)}
          = {i \in DOMAIN rows : rows[i].key[1] = "character" /\ SameName(rows[i].key[2], n)}
    BY <1>0, <2>1 DEF Grown
  <2> QED BY <2>1, <2>2, RowsOfIs
<1> QED BY <1>1, <1>2

\* Who prepares a row for a character has seen none.
LEMMA PreparedNew ==
  ASSUME NEW tx, Prepared(tx), NEW n, Adds(tx, n), rows \in Seq(Row)
  PROVE  RowsOf(n) = {}
<1>1. Found(tx.key) = {}
  BY DEF Prepared, Adds
<1>2. \A i \in RowsOf(n) : i \in Found(tx.key)
  BY RowsOfIs DEF Adds, SameName, Found, OfKind
<1> QED BY <1>1, <1>2

\* None adds nothing.
LEMMA NoneAdds == \A n : ~ Adds(None, n)
BY DEF Adds, None

\* Every step keeps the bound: who adds a row holds one of the locks, alone, and has
\* seen no row when it read.
LEMMA NextRowsBounded == IInv /\ RowsBounded /\ [Next]_vars => RowsBounded'
<1> SUFFICES ASSUME IInv, RowsBounded, [Next]_vars, NEW n \in Names
             PROVE  /\ IsFiniteSet(RowsOf(n)')
                    /\ Cardinality(RowsOf(n)') + Cardinality(AddedUnder(n)')
                         <= Cardinality(LockKeys)
  BY DEF RowsBounded
<1>0. /\ rows \in Seq(Row) /\ worker \in [Workers -> Merge] /\ request \in [Requests -> Request]
      /\ PrimaryKey \in LockKeys /\ \A w \in Workers : Lane[w] \in LockKeys
  BY DEF IInv, LockKeys
<1>1. AddedUnder(n) \in SUBSET LockKeys /\ AddedUnder(n)' \in SUBSET LockKeys
  BY DEF AddedUnder
<1>2. SUFFICES \/ RowsOf(n)' = RowsOf(n) /\ AddedUnder(n)' \subseteq AddedUnder(n)
               \/ \E k \in AddedUnder(n) : \E j :
                    RowsOf(n)' = RowsOf(n) \union {j} /\ AddedUnder(n)' \subseteq AddedUnder(n) \ {k}
               \/ RowsOf(n)' = {}
  <2>1. PICK R, A, Q, B : R = RowsOf(n) /\ A = AddedUnder(n) /\ Q = RowsOf(n)' /\ B = AddedUnder(n)'
    OBVIOUS
  <2>2. IsFiniteSet(R) /\ Cardinality(R) + Cardinality(A) <= Cardinality(LockKeys)
    BY <2>1 DEF RowsBounded
  <2> QED BY <1>1, <1>2, <2>1, <2>2, BoundStays
<1>3. ASSUME rows' = rows PROVE RowsOf(n)' = RowsOf(n)
  BY <1>3, RowsOfIs
\* Who adds holds its lock.
<1>4. ASSUME NEW w \in Workers, Adds(worker[w].tx, n) PROVE holder[Lane[w]] = w
  BY <1>4, NoneAdds DEF IInv, MergeOK, StepWrites, Held
<1>5. ASSUME NEW r \in Requests, Adds(request[r].tx, n) PROVE holder[PrimaryKey] = r
  <2>1. request[r] # NoRequest
    BY <1>5, NoneAdds DEF NoRequest
  <2>2. request[r].route = "add_character"
    BY <1>5, <2>1 DEF IInv, RequestOK, EditOK, Adds
  <2> QED BY <2>1, <2>2 DEF IInv, Held, TakesLock
<1>6. ASSUME NEW w \in Workers, Only(w), UNCHANGED request, ~ Adds(worker'[w].tx, n)
      PROVE  /\ AddedUnder(n)' \subseteq AddedUnder(n)
             /\ Adds(worker[w].tx, n) => /\ Lane[w] \in AddedUnder(n)
                                         /\ AddedUnder(n)' \subseteq AddedUnder(n) \ {Lane[w]}
  <2>1. AddedUnder(n)' \subseteq AddedUnder(n)
    BY <1>0, <1>6 DEF AddedUnder, Only
  <2>2. ASSUME Adds(worker[w].tx, n)
        PROVE  Lane[w] \in AddedUnder(n) /\ Lane[w] \notin AddedUnder(n)'
    <3>1. holder[Lane[w]] = w
      BY <1>4, <2>2
    <3>2. \A v \in Workers : Lane[v] = Lane[w] /\ Adds(worker'[v].tx, n) => FALSE
      BY <1>0, <1>4, <1>6, <3>1 DEF Only
    <3>3. \A r \in Requests : Lane[w] = PrimaryKey /\ Adds(request[r].tx, n) => FALSE
      BY <1>5, <3>1, BibleAssumption
    <3> QED BY <1>0, <1>6, <2>2, <3>2, <3>3 DEF AddedUnder
  <2> QED BY <2>1, <2>2
<1>7. ASSUME NEW r \in Requests, request' = [request EXCEPT ![r] = request'[r]],
             UNCHANGED worker, ~ Adds(request'[r].tx, n)
      PROVE  /\ AddedUnder(n)' \subseteq AddedUnder(n)
             /\ Adds(request[r].tx, n) => /\ PrimaryKey \in AddedUnder(n)
                                          /\ AddedUnder(n)' \subseteq AddedUnder(n) \ {PrimaryKey}
  <2>1. AddedUnder(n)' \subseteq AddedUnder(n)
    BY <1>0, <1>7 DEF AddedUnder
  <2>2. ASSUME Adds(request[r].tx, n)
        PROVE  PrimaryKey \in AddedUnder(n) /\ PrimaryKey \notin AddedUnder(n)'
    <3>1. holder[PrimaryKey] = r
      BY <1>5, <2>2
    <3>2. \A v \in Workers : Lane[v] = PrimaryKey /\ Adds(worker[v].tx, n) => FALSE
      BY <1>4, <3>1, BibleAssumption
    <3>3. \A q \in Requests : Adds(request'[q].tx, n) => FALSE
      BY <1>0, <1>5, <1>7, <3>1
    <3> QED BY <1>0, <1>7, <2>2, <3>2, <3>3 DEF AddedUnder
  <2> QED BY <2>1, <2>2
<1>8. ASSUME NEW w \in Workers, Proceeds(w)
      PROVE  \/ RowsOf(n)' = RowsOf(n) /\ AddedUnder(n)' \subseteq AddedUnder(n)
             \/ RowsOf(n)' = {}
  <2>1. CASE Adds(worker'[w].tx, n)
    <3>1. Prepared(worker'[w].tx)
      BY <1>8, <2>1, NoneAdds DEF Proceeds
    <3> QED BY <1>0, <1>3, <1>8, <2>1, <3>1, PreparedNew DEF Proceeds
  <2>2. CASE ~ Adds(worker'[w].tx, n)
    BY <1>3, <1>6, <1>8, <2>2 DEF Proceeds
  <2> QED BY <2>1, <2>2
<1>9. ASSUME NEW w \in Workers, Commit(w)
      PROVE  \/ RowsOf(n)' = RowsOf(n) /\ AddedUnder(n)' \subseteq AddedUnder(n)
             \/ \E k \in AddedUnder(n) : \E j :
                  RowsOf(n)' = RowsOf(n) \union {j} /\ AddedUnder(n)' \subseteq AddedUnder(n) \ {k}
  <2>1. /\ Only(w) /\ UNCHANGED request /\ Fits(worker[w].tx) /\ ~ Adds(worker'[w].tx, n)
        /\ rows' = rows \/ rows' = Committed(worker[w].tx)
    BY <1>9, CommitKeeps, NoneAdds
  <2>2. CASE rows' = rows
    BY <1>3, <1>6, <2>1, <2>2
  <2>3. CASE rows' = Committed(worker[w].tx)
    BY <1>0, <1>6, <2>1, <2>3, CommitAdds
  <2> QED BY <2>1, <2>2, <2>3
<1>10. ASSUME NEW r \in Requests, Submit(r)
       PROVE  \/ RowsOf(n)' = RowsOf(n) /\ AddedUnder(n)' \subseteq AddedUnder(n)
              \/ RowsOf(n)' = {}
  <2>1. /\ UNCHANGED <<rows, worker>> /\ request' = [request EXCEPT ![r] = request'[r]]
        /\ Prepared(request'[r].tx)
    BY <1>10, SubmitKeeps
  <2>2. CASE Adds(request'[r].tx, n)
    BY <1>0, <1>3, <2>1, <2>2, PreparedNew
  <2>3. CASE ~ Adds(request'[r].tx, n)
    BY <1>3, <1>7, <2>1, <2>3
  <2> QED BY <2>2, <2>3
<1>11. ASSUME NEW r \in Requests, CommitEdit(r)
       PROVE  \/ RowsOf(n)' = RowsOf(n) /\ AddedUnder(n)' \subseteq AddedUnder(n)
              \/ \E k \in AddedUnder(n) : \E j :
                   RowsOf(n)' = RowsOf(n) \union {j} /\ AddedUnder(n)' \subseteq AddedUnder(n) \ {k}
  <2>1. /\ UNCHANGED worker /\ request' = [request EXCEPT ![r] = request'[r]]
        /\ request'[r] = NoRequest /\ Fits(request[r].tx) /\ rows' = Committed(request[r].tx)
    BY <1>11, EditKeeps
  <2>2. ~ Adds(request'[r].tx, n)
    BY <2>1, NoneAdds DEF NoRequest
  <2> QED BY <1>0, <1>7, <2>1, <2>2, CommitAdds
<1>12. CASE Crash
  <2>1. AddedUnder(n)' = {}
    BY <1>12, NoneAdds DEF Crash, AddedUnder, NoMerge, NoRequest
  <2> QED BY <1>3, <1>12, <2>1 DEF Crash
<1>13. CASE UNCHANGED <<rows, holder, worker, request>>
  BY <1>3, <1>13 DEF AddedUnder
<1> QED BY <1>8, <1>9, <1>10, <1>11, <1>12, <1>13, StepsAre

\* Two rows of one character there may be, but never more than the locks under which
\* a row is added (store.py:593, D-81).
THEOREM CharactersBoundedAlways == Spec => []CharactersBounded
<1>1. Init => RowsBounded
  <2>1. ASSUME Init, NEW n \in Names
        PROVE  /\ IsFiniteSet(RowsOf(n))
               /\ Cardinality(RowsOf(n)) + Cardinality(AddedUnder(n)) <= Cardinality(LockKeys)
    <3>1. RowsOf(n) = {}
      BY <2>1, RowsOfIs DEF Init
    <3>2. AddedUnder(n) \in SUBSET LockKeys
      BY DEF AddedUnder
    <3> QED BY <3>1, <3>2, LocksFinite, FS_EmptySet
  <2> QED BY <2>1 DEF RowsBounded
<1>2. RowsBounded => CharactersBounded
  <2>1. ASSUME RowsBounded, NEW n \in Names
        PROVE  Cardinality(RowsOf(n)) <= Cardinality(LockKeys)
    <3>1. AddedUnder(n) \in SUBSET LockKeys
      BY DEF AddedUnder
    <3>2. Cardinality(AddedUnder(n)) \in Nat /\ Cardinality(LockKeys) \in Nat
      BY <3>1, LocksFinite
    <3>3. Cardinality(RowsOf(n)) \in Nat
      BY <2>1, FS_CardinalityType DEF RowsBounded
    <3> QED BY <2>1, <3>2, <3>3 DEF RowsBounded
  <2> QED BY <2>1 DEF CharactersBounded, RowsOf
<1> QED BY <1>1, <1>2, NextRowsBounded, Invariant, PTL DEF Spec
=============================================================================
