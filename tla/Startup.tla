-------------------------------- MODULE Startup --------------------------------
(***************************************************************************)
(* How a process of the program begins, as a run of the command line or as *)
(* the daemon: the settings, the schema, the one-shot import of the JSON   *)
(* ledger into the table processed_file (db/migration_runner.py, D-37);    *)
(* and how the settings change while the daemon serves                     *)
(* (web/routes/settings.py, web/config_writer.py).  A process may stop     *)
(* between any two steps, an operator may tidy up while none runs.         *)
(***************************************************************************)
EXTENDS Naturals, Sequences

CONSTANTS
  Paths,     \* source files
  Values,    \* of a setting that is no switch
  Unset,     \* the file does not name the setting
  Bad,       \* a value that TrezarrSettings rejects
  Mask,      \* SENTINEL, "**REDACTED**"
  Env,       \* TREZARR_* variables: a function on some of the fields
  MaxStarts, MaxPuts, MaxRecords, MaxFaults  \* bounds

Statuses == {"done", "quarantined", "in_progress"}
Nothing  == "none"

\* One *arr connection and its switch, and any other setting.
Fields  == {"host", "api_key", "enabled", "model"}
Secrets == {"api_key"}
Valued(f) == IF f = "enabled" THEN BOOLEAN ELSE Values
Stored(f) == Valued(f) \union {Unset, Bad, Mask}

Backups == {"migrated", "corrupt", "blocked"}
JSON    == {"absent", "object", "other"}  \* other: no JSON, or not an object

ASSUME StartupAssumption ==
  /\ DOMAIN Env \subseteq Fields /\ \A f \in DOMAIN Env : Env[f] \in Valued(f)
  /\ {Unset, Bad, Mask} \intersect (Values \union BOOLEAN) = {}
  /\ Unset # Bad /\ Unset # Mask /\ Bad # Mask
  /\ {MaxStarts, MaxPuts, MaxRecords, MaxFaults} \subseteq Nat

VARIABLES
  pc, mode,  \* where the process is, and which it is
  json, old, \* the JSON file, and the entries in it
  backups,   \* the files beside it: .migrated.bak, .corrupt.bak, .rename_blocked
  db,        \* status in processed_file
  todo,      \* what of the import is left
  config,    \* config.yaml
  app,       \* the settings of the process
  used       \* how much of each bound is used up

vars == <<pc, mode, json, old, backups, db, todo, config, app, used>>
files == <<json, old, backups>>

Points == {"down", "schema", "check", "load", "commit", "rename", "block", "ready"}

Bounds == [starts |-> MaxStarts, puts |-> MaxPuts, records |-> MaxRecords,
           faults |-> MaxFaults]
Uses(b) == used[b] < Bounds[b] /\ used' = [used EXCEPT ![b] = @ + 1]

-----------------------------------------------------------------------------
(* Settings. *)

\* Environment before file.
Effective(file) == [f \in Fields |-> IF f \in DOMAIN Env THEN Env[f] ELSE file[f]]
Loads(file) == \A f \in Fields : Effective(file)[f] # Bad

\* The mask stands for the secret that is stored.
Taken_Mask(file, patch) ==
  [f \in Fields |-> IF f \in DOMAIN patch THEN patch[f] ELSE file[f]]
Taken(file, patch) ==
  [f \in Fields |-> IF f \in DOMAIN patch /\ ~ (f \in Secrets /\ patch[f] = Mask)
                    THEN patch[f] ELSE file[f]]

\* A connection with host and key is switched on.
Patched(file, patch) ==
  LET new == Taken(file, patch) IN
  [new EXCEPT !["enabled"] =
     IF new["host"] # Unset /\ new["api_key"] # Unset /\ @ \in {Unset, FALSE} THEN TRUE ELSE @]

\* The body of a PUT is not validated before it is written.
Patches ==
  UNION {[fs -> UNION {Valued(f) : f \in Fields} \union {Bad, Mask}] : fs \in SUBSET Fields}
Sensible(patch) ==
  \A f \in DOMAIN patch :
    patch[f] \in Valued(f) \union (IF f \in Secrets THEN {Mask} ELSE {Bad})

-----------------------------------------------------------------------------
Init ==
  /\ pc = "down" /\ mode = "cli"
  /\ json \in JSON
  /\ old \in [Paths -> Statuses \union {Nothing, "malformed"}]
  /\ json # "object" => old = [p \in Paths |-> Nothing]
  /\ backups = {}
  /\ db = [p \in Paths |-> Nothing]
  /\ todo = [p \in Paths |-> Nothing]
  /\ config = [f \in Fields |-> Unset] /\ app = Effective(config)
  /\ used = [b \in DOMAIN Bounds |-> 0]

\* TrezarrSettings() raises if a value does not fit; nothing starts then.
Start(how) ==
  /\ pc = "down" /\ Loads(config)
  /\ Uses("starts")
  /\ pc' = "schema" /\ mode' = how /\ app' = Effective(config)
  /\ UNCHANGED <<files, db, todo, config>>

\* run_migrations_to_head, which is idempotent.  Only the command line goes on
\* with the import.
Upgrade ==
  /\ pc = "schema"
  /\ pc' = IF mode = "cli" THEN "check" ELSE "ready"
  /\ UNCHANGED <<mode, files, db, todo, config, app, used>>

\* Already imported, found corrupt, or blocked; or there is nothing to import.
Skip ==
  /\ pc = "check"
  /\ backups # {} \/ json = "absent"
  /\ pc' = "ready"
  /\ UNCHANGED <<mode, files, db, todo, config, app, used>>

\* The rows are committed before the file is renamed (Pitfall 5).
Order_RenameFirst == <<"rename", "commit", "ready">>
Order == <<"commit", "rename", "ready">>
After(step) == Order[1 + CHOOSE k \in 1..2 : Order[k] = step]

\* The entries that can be read.
Valid == [p \in Paths |-> IF old[p] \in Statuses THEN old[p] ELSE Nothing]

Parse ==
  /\ pc = "check" /\ backups = {} /\ json = "object"
  /\ \E p \in Paths : Valid[p] # Nothing
  /\ todo' = Valid
  /\ pc' = Order[1]
  /\ UNCHANGED <<mode, files, db, config, app, used>>

\* No entry is valid, or the file is no ledger at all: it is put aside.
PutAside ==
  /\ pc = "check" /\ backups = {} /\ json # "absent"
  /\ json = "object" => \A p \in Paths : Valid[p] = Nothing
  /\ json' = "absent"
  /\ backups' = {IF json = "object" THEN "migrated" ELSE "corrupt"}
  /\ pc' = "ready"
  /\ UNCHANGED <<mode, old, db, todo, config, app, used>>

\* A read error is taken for a corrupt file.
ReadFails ==
  /\ pc = "check" /\ backups = {} /\ json # "absent"
  /\ Uses("faults")
  /\ json' = "absent" /\ backups' = {"corrupt"}
  /\ pc' = "ready"
  /\ UNCHANGED <<mode, old, db, todo, config, app>>

\* One transaction; what the table has already is newer (D-37).
Imported_Overwrites == [p \in Paths |-> IF todo[p] # Nothing THEN todo[p] ELSE db[p]]
Imported == [p \in Paths |-> IF db[p] # Nothing THEN db[p] ELSE todo[p]]

Commit ==
  /\ pc = "commit"
  /\ db' = Imported
  /\ pc' = After("commit")
  /\ UNCHANGED <<mode, files, todo, config, app, used>>

\* Decoding, putting aside or the transaction fails: the run goes on with what
\* the table has.
ImportFails ==
  /\ pc \in {"check", "commit"} /\ (pc = "check" => backups = {} /\ json # "absent")
  /\ Uses("faults")
  /\ pc' = "ready"
  /\ UNCHANGED <<mode, files, db, todo, config, app>>

Rename ==
  /\ pc = "rename"
  /\ json' = "absent" /\ backups' = backups \union {"migrated"}
  /\ pc' = After("rename")
  /\ UNCHANGED <<mode, old, db, todo, config, app, used>>

RenameFails ==
  /\ pc = "rename"
  /\ Uses("faults")
  /\ pc' = "block"
  /\ UNCHANGED <<mode, files, db, todo, config, app>>

\* The sentinel that keeps later starts from importing again; it may fail too.
Block ==
  /\ pc = "block"
  /\ \/ backups' = backups \union {"blocked"} /\ UNCHANGED used
     \/ Uses("faults") /\ UNCHANGED backups
  /\ pc' = "ready"
  /\ UNCHANGED <<mode, json, old, db, todo, config, app>>

\* translate_file records a status (LedgerSQLA.record: insert or update).
Record(p, s) ==
  /\ pc = "ready"
  /\ Uses("records")
  /\ db' = [db EXCEPT ![p] = s]
  /\ UNCHANGED <<pc, mode, files, todo, config, app>>

\* PUT /api/settings: write the file, then load it again.  What cannot be
\* loaded leaves the settings of the process alone.
Reloaded_Unchecked(file) == Effective(file)
Reloaded_Before(file) == Effective(config)
Reloaded(file) == IF Loads(file) THEN Effective(file) ELSE app

PutSettings(patch) ==
  /\ pc = "ready" /\ mode = "daemon"
  /\ Uses("puts")
  /\ config' = Patched(config, patch)
  /\ app' = Reloaded(Patched(config, patch))
  /\ UNCHANGED <<pc, mode, files, db, todo>>

Emptied == [f \in Fields |-> Unset]

\* The file cannot be opened, or not be dumped once open(.., "w") has cut it.
\* What there is is loaded again.
PutFails ==
  /\ pc = "ready" /\ mode = "daemon"
  /\ Uses("faults")
  /\ config' \in {config, Emptied}
  /\ app' = Reloaded(config')
  /\ UNCHANGED <<pc, mode, files, db, todo>>

\* The process stops between the cut and the dump.
StopsInPut ==
  /\ pc = "ready" /\ mode = "daemon"
  /\ Uses("faults")
  /\ config' = Emptied
  /\ pc' = "down"
  /\ UNCHANGED <<mode, files, db, todo, app>>

\* It ends, or is killed, anywhere.
Stop ==
  /\ pc # "down"
  /\ pc' = "down"
  /\ UNCHANGED <<mode, files, db, todo, config, app, used>>

\* What the log asks of the operator when the rename was blocked.
OperatorResolves ==
  /\ pc = "down" /\ "blocked" \in backups
  /\ json' = "absent" /\ backups' = {"migrated"}
  /\ UNCHANGED <<pc, mode, old, db, todo, config, app, used>>

\* Or only the sentinel is deleted: the next run imports again.
OperatorRetries ==
  /\ pc = "down" /\ "blocked" \in backups
  /\ backups' = backups \ {"blocked"}
  /\ UNCHANGED <<pc, mode, json, old, db, todo, config, app, used>>

Import ==
  \/ Skip \/ Parse \/ PutAside \/ ReadFails \/ Commit \/ ImportFails
  \/ Rename \/ RenameFails \/ Block

Put ==
  \/ \E patch \in {q \in Patches : Sensible(q)} : PutSettings(patch)
  \/ PutFails \/ StopsInPut

Next ==
  \/ \E how \in {"cli", "daemon"} : Start(how)
  \/ Upgrade \/ Import \/ Put \/ Stop
  \/ \E p \in Paths, s \in Statuses : Record(p, s)
  \/ OperatorResolves \/ OperatorRetries

Spec == Init /\ [][Next]_vars

-----------------------------------------------------------------------------
(* Properties. *)

\* The state stays within its types.
TypeOK ==
  /\ pc \in Points /\ mode \in {"cli", "daemon"}
  /\ json \in JSON /\ backups \subseteq Backups
  /\ old \in [Paths -> Statuses \union {Nothing, "malformed"}]
  /\ db \in [Paths -> Statuses \union {Nothing}]
  /\ todo \in [Paths -> Statuses \union {Nothing}]
  /\ \A f \in Fields : config[f] \in Stored(f) /\ app[f] \in Stored(f) \ {Bad}
  /\ used \in [DOMAIN Bounds -> Nat]

\* No valid entry of the JSON ledger is lost on its way into the table: as long
\* as one is not there the file is, and no file beside it keeps the next run of
\* the command line from importing it (commit first, rename second).  A ledger
\* that could not be read is given up.
EntriesSurvive ==
  \A p \in Paths :
    Valid[p] # Nothing /\ db[p] = Nothing =>
      \/ json = "object" /\ backups = {}
      \/ "corrupt" \in backups

\* An import, the first or a repeated one, takes back nothing that the program
\* has recorded: a row changes by a record only (D-37, DB is newer truth).
NewerKept ==
  [][\A p \in Paths :
       db[p] # Nothing /\ db'[p] # db[p] => used'.records = used.records + 1]_vars

\* The mask that the browser gets for a secret and sends back never becomes
\* the secret, in the file or in the process (D-70).
MaskIsNoSecret == \A f \in Secrets : config[f] # Mask /\ app[f] # Mask

\* While the daemon serves, the settings of its routes are those of the file, so what
\* the next start will see: nothing is ever applied in memory only.  A PUT that could
\* not write the file leaves them alone, and one that has cut it puts the defaults in
\* force, both against the log of put_settings, `changes applied in-memory only
\* (restart to lose them)'.  A file that cannot be loaded is left out.
AppIsFile == pc = "ready" /\ Loads(config) => app = Effective(config)
=============================================================================
