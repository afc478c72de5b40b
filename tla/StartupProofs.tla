----------------------------- MODULE StartupProofs -----------------------------
(***************************************************************************)
(* For any paths, values, variables of the environment and bounds: the     *)
(* import loses no entry of the JSON ledger and takes back nothing newer,  *)
(* whatever fails and wherever the process stops; the mask of a secret is  *)
(* never stored; the settings of the process are those of the file.        *)
(***************************************************************************)
EXTENDS Startup, TLAPS

\* Every valid entry of the JSON ledger has a row.
Covered == \A p \in Paths : Valid[p] # Nothing => db[p] # Nothing

\* What the import relies on at its steps, and what the files beside the
\* ledger tell of it.
ImportInv ==
  /\ pc = "commit" => todo = Valid /\ json = "object" /\ backups = {}
  /\ pc \in {"rename", "block"} => json = "object" /\ backups = {} /\ Covered
  /\ "migrated" \in backups \/ "blocked" \in backups => Covered
  /\ json # "object" => Covered \/ "corrupt" \in backups

\* The settings of a process that runs are those of the file, if it loads.
SettingsInv == pc # "down" /\ Loads(config) => app = Effective(config)

FilesOK ==
  /\ pc \in Points /\ mode \in {"cli", "daemon"}
  /\ json \in JSON /\ backups \subseteq Backups
  /\ old \in [Paths -> Statuses \union {Nothing, "malformed"}]
  /\ db \in [Paths -> Statuses \union {Nothing}]
  /\ todo \in [Paths -> Statuses \union {Nothing}]

SettingsOK ==
  \A f \in Fields : config[f] \in Stored(f) /\ app[f] \in Stored(f) \ {Bad}

CountsOK ==
  /\ used \in [DOMAIN Bounds -> Nat]
  /\ \A b \in DOMAIN Bounds : used[b] <= Bounds[b]

\* The inductive invariant.
IInv ==
  /\ FilesOK /\ SettingsOK /\ CountsOK
  /\ ImportInv /\ SettingsInv /\ MaskIsNoSecret

-----------------------------------------------------------------------------
(* The parts of a step. *)

\* Every step uses up at most one of each bound.
LEMMA CountsKept ==
  ASSUME CountsOK, [Next]_vars
  PROVE  CountsOK'
<1>1. DOMAIN Bounds = {"starts", "puts", "records", "faults"}
  BY DEF Bounds
<1>2. \A b \in DOMAIN Bounds : Bounds[b] \in Nat
  BY <1>1, StartupAssumption DEF Bounds
<1>3. ASSUME UNCHANGED used PROVE CountsOK'
  BY <1>3 DEF CountsOK, Bounds
<1>4. ASSUME NEW b \in {"starts", "puts", "records", "faults"}, Uses(b) PROVE CountsOK'
  BY <1>1, <1>2, <1>4 DEF CountsOK, Uses, Bounds
<1> QED
  BY <1>3, <1>4 DEF Next, vars, Start, Upgrade, Import, Put, Stop, Record, Skip, Parse,
     PutAside, ReadFails, Commit, ImportFails, Rename, RenameFails, Block, PutSettings,
     PutFails, StopsInPut, OperatorResolves, OperatorRetries

\* The import commits before it renames.
LEMMA CommitFirst ==
  Order[1] = "commit" /\ After("commit") = "rename" /\ After("rename") = "ready"
<1>1. (CHOOSE k \in 1..2 : Order[k] = "commit") = 1
  BY DEF Order
<1>2. (CHOOSE k \in 1..2 : Order[k] = "rename") = 2
  BY DEF Order
<1> QED BY <1>1, <1>2 DEF After, Order

\* An entry that can be read is a status.
LEMMA ValidType == old \in [Paths -> Statuses \union {Nothing, "malformed"}]
                     => Valid \in [Paths -> Statuses \union {Nothing}]
BY DEF Valid

\* Every step keeps the files, the table and the import typed.
LEMMA FilesTyped ==
  ASSUME FilesOK, [Next]_vars
  PROVE  FilesOK'
<1> USE CommitFirst DEF FilesOK, Points, JSON, Backups, files
<1>1. ASSUME NEW how \in {"cli", "daemon"}, Start(how) PROVE FilesOK'
  BY <1>1 DEF Start
<1>2. ASSUME Upgrade PROVE FilesOK'
  BY <1>2 DEF Upgrade
<1>3. ASSUME Import PROVE FilesOK'
  <2>1. CASE Skip BY <2>1 DEF Skip
  <2>2. CASE Parse BY <2>2, ValidType DEF Parse
  <2>3. CASE PutAside BY <2>3 DEF PutAside
  <2>4. CASE ReadFails BY <2>4 DEF ReadFails
  <2>5. CASE Commit BY <2>5 DEF Commit, Imported
  <2>6. CASE ImportFails BY <2>6 DEF ImportFails
  <2>7. CASE Rename BY <2>7 DEF Rename
  <2>8. CASE RenameFails BY <2>8 DEF RenameFails
  <2>9. CASE Block BY <2>9 DEF Block
  <2> QED BY <1>3, <2>1, <2>2, <2>3, <2>4, <2>5, <2>6, <2>7, <2>8, <2>9 DEF Import
<1>4. ASSUME Put PROVE FilesOK'
  BY <1>4 DEF Put, PutSettings, PutFails, StopsInPut
<1>5. ASSUME Stop PROVE FilesOK'
  BY <1>5 DEF Stop
<1>6. ASSUME NEW p \in Paths, NEW s \in Statuses, Record(p, s) PROVE FilesOK'
  BY <1>6 DEF Record
<1>7. ASSUME OperatorResolves \/ OperatorRetries PROVE FilesOK'
  BY <1>7 DEF OperatorResolves, OperatorRetries
<1>8. ASSUME UNCHANGED vars PROVE FilesOK'
  BY <1>8 DEF vars
<1> QED
  BY <1>1, <1>2, <1>3, <1>4, <1>5, <1>6, <1>7, <1>8 DEF Next

\* Rows are only added or recorded anew: what is covered stays so.
LEMMA RowsStay ==
  ASSUME FilesOK, [Next]_vars
  PROVE  /\ old' = old
         /\ \A p \in Paths : db[p] # Nothing => db'[p] # Nothing
<1>1. ASSUME NEW p \in Paths, NEW s \in Statuses, Record(p, s)
      PROVE  old' = old /\ \A q \in Paths : db[q] # Nothing => db'[q] # Nothing
  BY <1>1 DEF Record, files, FilesOK, Statuses, Nothing
<1>2. ASSUME Commit
      PROVE  old' = old /\ \A q \in Paths : db[q] # Nothing => db'[q] # Nothing
  BY <1>2 DEF Commit, files, Imported
<1> QED
  BY <1>1, <1>2 DEF Next, vars, files, Start, Upgrade, Import, Put, Stop, Skip, Parse,
     PutAside, ReadFails, ImportFails, Rename, RenameFails, Block, PutSettings,
     PutFails, StopsInPut, OperatorResolves, OperatorRetries

\* An entry that has a row keeps it.
LEMMA CoveredStays ==
  ASSUME FilesOK, [Next]_vars, Covered
  PROVE  Covered'
BY RowsStay DEF Covered, Valid

-----------------------------------------------------------------------------
(* The import. *)

\* A step of the import leaves behind what its next step, and the next run of
\* the program, rely on.
LEMMA ImportKept ==
  ASSUME FilesOK, ImportInv, [Next]_vars
  PROVE  ImportInv'
<1> USE CommitFirst
<1>0. old' = old /\ Valid' = Valid /\ (Covered => Covered')
  BY RowsStay, CoveredStays DEF Valid
<1>1. ASSUME NEW how \in {"cli", "daemon"}, Start(how) PROVE ImportInv'
  BY <1>0, <1>1 DEF Start, ImportInv, files
<1>2. ASSUME Upgrade PROVE ImportInv'
  BY <1>0, <1>2 DEF Upgrade, ImportInv, files
<1>3. ASSUME Import PROVE ImportInv'
  <2>1. CASE Skip BY <1>0, <2>1 DEF Skip, ImportInv, files
  <2>2. CASE Parse BY <1>0, <2>2 DEF Parse, ImportInv, files
  <2>3. CASE PutAside
    <3>1. json = "object" => Covered
      BY <2>3 DEF PutAside, Covered
    <3> QED BY <1>0, <2>3, <3>1 DEF PutAside, ImportInv
  <2>4. CASE ReadFails BY <1>0, <2>4 DEF ReadFails, ImportInv
  <2>5. CASE Commit
    <3>1. Covered'
      BY <1>0, <2>5 DEF Commit, Imported, Covered, ImportInv, FilesOK
    <3> QED BY <1>0, <2>5, <3>1 DEF Commit, ImportInv, files
  <2>6. CASE ImportFails BY <1>0, <2>6 DEF ImportFails, ImportInv, files
  <2>7. CASE Rename BY <1>0, <2>7 DEF Rename, ImportInv
  <2>8. CASE RenameFails BY <1>0, <2>8 DEF RenameFails, ImportInv, files
  <2>9. CASE Block BY <1>0, <2>9 DEF Block, ImportInv
  <2> QED BY <1>3, <2>1, <2>2, <2>3, <2>4, <2>5, <2>6, <2>7, <2>8, <2>9 DEF Import
<1>4. ASSUME Put PROVE ImportInv'
  BY <1>0, <1>4 DEF Put, PutSettings, PutFails, StopsInPut, ImportInv, files
<1>5. ASSUME Stop PROVE ImportInv'
  BY <1>0, <1>5 DEF Stop, ImportInv, files
<1>6. ASSUME NEW p \in Paths, NEW s \in Statuses, Record(p, s) PROVE ImportInv'
  BY <1>0, <1>6 DEF Record, ImportInv, files
<1>7. ASSUME OperatorResolves \/ OperatorRetries PROVE ImportInv'
  BY <1>0, <1>7 DEF OperatorResolves, OperatorRetries, ImportInv
<1>8. ASSUME UNCHANGED vars PROVE ImportInv'
  BY <1>0, <1>8 DEF vars, ImportInv, files
<1> QED
  BY <1>1, <1>2, <1>3, <1>4, <1>5, <1>6, <1>7, <1>8 DEF Next

-----------------------------------------------------------------------------
(* The settings. *)

\* A file, and what the environment makes of it.
FileOK(file) == \A f \in Fields : file[f] \in Stored(f) /\ (f \in Secrets => file[f] # Mask)

\* No file is bad by what the environment gives.
LEMMA EffectiveOK ==
  ASSUME NEW file, FileOK(file)
  PROVE  /\ FileOK(Effective(file))
         /\ Loads(file) => \A f \in Fields : Effective(file)[f] # Bad
BY StartupAssumption DEF FileOK, Effective, Loads, Stored, Valued

\* What a PUT writes keeps the type of every setting and the secret a secret.
LEMMA PatchedOK ==
  ASSUME NEW file, FileOK(file), NEW patch \in Patches, Sensible(patch)
  PROVE  FileOK(Patched(file, patch))
<1>1. FileOK(Taken(file, patch))
  <2> SUFFICES ASSUME NEW f \in Fields
               PROVE  /\ Taken(file, patch)[f] \in Stored(f)
                      /\ f \in Secrets => Taken(file, patch)[f] # Mask
    BY DEF FileOK
  <2>1. CASE f \in DOMAIN patch /\ ~ (f \in Secrets /\ patch[f] = Mask)
    BY <2>1 DEF Taken, Sensible, Stored
  <2>2. CASE ~ (f \in DOMAIN patch /\ ~ (f \in Secrets /\ patch[f] = Mask))
    BY <2>2 DEF Taken, FileOK
  <2> QED BY <2>1, <2>2
<1>2. TRUE \in Stored("enabled") /\ "enabled" \notin Secrets
  BY DEF Stored, Valued, Secrets
<1>3. DOMAIN Taken(file, patch) = Fields /\ "enabled" \in Fields
  BY DEF Taken, Fields
<1> QED BY <1>1, <1>2, <1>3 DEF Patched, FileOK

SettingsFine == FileOK(config) /\ FileOK(app) /\ (\A f \in Fields : app[f] # Bad)

\* These are the types and the mask of IInv.
LEMMA FineIs == SettingsFine <=> SettingsOK /\ MaskIsNoSecret
BY DEF SettingsFine, FileOK, SettingsOK, MaskIsNoSecret, Secrets, Fields

\* The settings of the process after its file was loaded again.
LEMMA ReloadedOK ==
  ASSUME NEW file, FileOK(file), SettingsFine
  PROVE  /\ FileOK(Reloaded(file)) /\ \A f \in Fields : Reloaded(file)[f] # Bad
         /\ Loads(file) => Reloaded(file) = Effective(file)
BY EffectiveOK DEF SettingsFine, Reloaded

\* Every step keeps the types, the mask out of the secrets, and the process at
\* the settings of its file.
LEMMA SettingsKept ==
  ASSUME SettingsFine, SettingsInv, [Next]_vars
  PROVE  SettingsFine' /\ SettingsInv'
<1>0. FileOK(Emptied)
  BY StartupAssumption DEF FileOK, Emptied, Stored
<1>1. ASSUME NEW how \in {"cli", "daemon"}, Start(how) PROVE SettingsFine' /\ SettingsInv'
  <2>1. FileOK(app') /\ (\A f \in Fields : app'[f] # Bad) /\ app' = Effective(config')
    BY <1>1, EffectiveOK DEF Start, SettingsFine
  <2> QED BY <1>1, <2>1 DEF Start, SettingsFine, SettingsInv, FileOK
<1>2. ASSUME NEW patch \in Patches, Sensible(patch), PutSettings(patch)
      PROVE  SettingsFine' /\ SettingsInv'
  <2>1. FileOK(config') /\ app' = Reloaded(config')
    BY <1>2, PatchedOK DEF PutSettings, SettingsFine
  <2>2. /\ FileOK(app') /\ \A f \in Fields : app'[f] # Bad
        /\ Loads(config') => app' = Effective(config')
    BY <2>1, ReloadedOK
  <2> QED BY <2>1, <2>2 DEF SettingsFine, SettingsInv, FileOK, Loads, Effective
<1>3. ASSUME PutFails PROVE SettingsFine' /\ SettingsInv'
  <2>1. FileOK(config') /\ app' = Reloaded(config')
    BY <1>0, <1>3 DEF PutFails, SettingsFine
  <2>2. /\ FileOK(app') /\ \A f \in Fields : app'[f] # Bad
        /\ Loads(config') => app' = Effective(config')
    BY <2>1, ReloadedOK
  <2> QED BY <2>1, <2>2 DEF SettingsFine, SettingsInv, FileOK, Loads, Effective
<1>4. ASSUME StopsInPut PROVE SettingsFine' /\ SettingsInv'
  <2>1. FileOK(config') /\ app' = app /\ pc' = "down"
    BY <1>0, <1>4 DEF StopsInPut
  <2> QED BY <2>1 DEF SettingsFine, SettingsInv, FileOK
<1>5. ASSUME UNCHANGED <<config, app>>, pc # "down" \/ pc' = "down"
      PROVE  SettingsFine' /\ SettingsInv'
  BY <1>5 DEF SettingsFine, SettingsInv, FileOK, Loads, Effective
<1>6. ASSUME \/ Upgrade \/ Import \/ Stop \/ OperatorResolves \/ OperatorRetries
             \/ \E p \in Paths, s \in Statuses : Record(p, s)
             \/ UNCHANGED vars
      PROVE  UNCHANGED <<config, app>> /\ (pc # "down" \/ pc' = "down")
  BY <1>6 DEF vars, Upgrade, Import, Stop, Record, Skip, Parse, PutAside, ReadFails,
     Commit, ImportFails, Rename, RenameFails, Block, OperatorResolves, OperatorRetries
<1> QED
  BY <1>1, <1>2, <1>3, <1>4, <1>5, <1>6 DEF Next, Put

-----------------------------------------------------------------------------
(* The theorems. *)

\* Before the first start nothing is imported and config.yaml names nothing.
LEMMA InitIInv == Init => IInv
<1> SUFFICES ASSUME Init PROVE IInv
  OBVIOUS
<1>1. FilesOK
  BY DEF Init, FilesOK, Points, JSON, Backups
<1>2. CountsOK
  BY StartupAssumption DEF Init, CountsOK, Bounds
<1>3. ImportInv
  BY DEF Init, ImportInv, Covered, Valid, Statuses, Nothing
<1>4. FileOK(config)
  BY StartupAssumption DEF Init, FileOK, Stored
<1>5. Loads(config)
  BY StartupAssumption DEF Init, Loads, Effective, Valued, Fields
<1>6. SettingsFine /\ SettingsInv
  BY <1>4, <1>5, EffectiveOK DEF Init, SettingsFine, SettingsInv
<1> QED BY <1>1, <1>2, <1>3, <1>6, FineIs DEF IInv

\* Every step of the program, of the operator, and every failure keep IInv.
LEMMA NextIInv == IInv /\ [Next]_vars => IInv'
<1> SUFFICES ASSUME IInv, [Next]_vars PROVE IInv'
  OBVIOUS
<1>1. SettingsFine' /\ SettingsInv'
  BY FineIs, SettingsKept DEF IInv
<1>2. SettingsOK' /\ MaskIsNoSecret'
  BY <1>1 DEF SettingsFine, FileOK, SettingsOK, MaskIsNoSecret, Secrets, Fields
<1> QED BY <1>1, <1>2, FilesTyped, CountsKept, ImportKept DEF IInv

\* IInv holds in every state the program reaches.
THEOREM Invariant == Spec => []IInv
BY InitIInv, NextIInv, PTL DEF Spec

\* The files, the table, the settings and the counters stay within their types.
THEOREM TypeCorrect == Spec => []TypeOK
<1>1. IInv => TypeOK
  BY DEF IInv, FilesOK, SettingsOK, CountsOK, TypeOK
<1> QED BY <1>1, Invariant, PTL

\* The import loses no entry of the JSON ledger (migration_runner.py commits the
\* rows before it renames the file).
THEOREM EntriesSurviveAlways == Spec => []EntriesSurvive
<1>1. IInv => EntriesSurvive
  BY DEF IInv, ImportInv, Covered, EntriesSurvive, FilesOK, JSON, Backups
<1> QED BY <1>1, Invariant, PTL

\* An import takes back no row that the program has recorded (D-37).
THEOREM NewerKeptAlways == Spec => NewerKept
<1>1. ASSUME IInv, [Next]_vars
      PROVE  \A p \in Paths :
               db[p] # Nothing /\ db'[p] # db[p] => used'.records = used.records + 1
  <2>1. ASSUME NEW q \in Paths, NEW s \in Statuses, Record(q, s)
        PROVE  used'.records = used.records + 1
    BY <1>1, <2>1 DEF Record, Uses, IInv, CountsOK, Bounds
  <2>2. ASSUME Commit, NEW p \in Paths, db[p] # Nothing
        PROVE  db'[p] = db[p]
    BY <2>2 DEF Commit, Imported
  <2> QED
    BY <1>1, <2>1, <2>2 DEF Next, vars, Start, Upgrade, Import, Put, Stop, Skip, Parse,
       PutAside, ReadFails, ImportFails, Rename, RenameFails, Block, PutSettings,
       PutFails, StopsInPut, OperatorResolves, OperatorRetries
<1> QED BY <1>1, Invariant, PTL DEF Spec, NewerKept

\* The mask of a secret is never stored as the secret (D-70).
THEOREM MaskIsNoSecretAlways == Spec => []MaskIsNoSecret
<1>1. IInv => MaskIsNoSecret
  BY DEF IInv
<1> QED BY <1>1, Invariant, PTL

\* The routes of the daemon see the settings of its file, after a failed PUT too.
THEOREM AppIsFileAlways == Spec => []AppIsFile
<1>1. IInv => AppIsFile
  BY DEF IInv, SettingsInv, AppIsFile
<1> QED BY <1>1, Invariant, PTL
=============================================================================
