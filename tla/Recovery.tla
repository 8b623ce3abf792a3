------------------------------- MODULE Recovery -------------------------------
(* Database backups and encrypted recovery archives (backend/app/backups.py,   *)
(* recovery.py, continuity_archive.py) with the handlers of main.py that run   *)
(* them: backup, restore, preview start, export, download and import.  The     *)
(* project's application keeps writing to its database, the user edits the     *)
(* source on disk, statements raise before or after their commit, and the      *)
(* builder may die between any two steps.                                      *)
EXTENDS Naturals, FiniteSets

CONSTANTS
  Projects,     \* project ids
  Origin,       \* the one that exists from the start
  Codes,        \* contents of a source tree, and of a saved version
  Values,       \* contents of a project's database
  Slots,        \* ids of backups
  Plans,        \* what the origin's feature plan may be
  MaxOps,       \* bound: operations begun
  None

PlanStates == {"planned", "completed", "needs_review"}
PlanRows == [status : PlanStates, item : PlanStates, usage : Nat, reserved : Nat]

ASSUME RecoveryAssumption ==
  /\ Origin \in Projects /\ MaxOps \in Nat /\ Plans \subseteq PlanRows

VARIABLES
  \* on disk and in Docker:
  code,         \* source/, None: there is no project directory
  snaps,        \* snapshots/
  store, serving,           \* the database, and whether the application runs
  dump, meta,   \* backups/<id>.dump and what the checksum of <id>.json vouches for
  plain, sealed,            \* recovery/<id>.zip.partial and <id>.lfr
  \* in the builder's database:
  row, versions, plan,      \* of projects, versions, feature_plans
  receipt,      \* of recovery_exports
  \* elsewhere:
  copy,         \* the archive a user downloaded
  op, ops,      \* the operation on each project, and how many were begun
  \* history:
  cut,          \* an import or export died, or its last statement's answer was lost
  torn          \* the source was edited between the two reads of an export

tree   == <<code, snaps>>
live   == <<store, serving>>
vault  == <<dump, meta>>
export == <<plain, sealed, receipt>>
rows   == <<row, versions, plan>>
vars   == <<tree, live, vault, export, rows, copy, op, ops, cut, torn>>

-----------------------------------------------------------------------------
Archives == [code : Codes, digest : Codes, data : Values, versions : SUBSET Codes,
             plan : PlanRows, good : BOOLEAN]
Kinds == {"backup", "preview", "restore", "export", "import"}
Creating == {"dump", "place", "seal"}
Exporting == {"source", "digest", "pack", "encrypt", "receipt"}
Steps == Creating \cup Exporting
         \cup {"migrate", "start", "stop", "restore", "unpack", "database", "commit", "undo"}
Ops == [kind : Kinds, step : Steps, slot : Slots \cup {None}, from : Slots \cup {None},
        value : Values \cup {None}, code : Codes \cup {None},
        archive : Archives \cup {None}, wrote : BOOLEAN]

ASSUME NoneAssumption ==
  None \notin Codes \cup Values \cup Slots \cup PlanRows \cup Archives \cup Ops

TypeOK ==
  /\ code \in [Projects -> Codes \cup {None}] /\ snaps \in [Projects -> SUBSET Codes]
  /\ store \in [Projects -> Values \cup {None}] /\ serving \in [Projects -> BOOLEAN]
  /\ dump \in [Projects -> [Slots -> Values \cup {None}]]
  /\ meta \in [Projects -> [Slots -> Values \cup {None}]]
  /\ plain \in [Projects -> BOOLEAN] /\ sealed \in [Projects -> Archives \cup {None}]
  /\ row \in [Projects -> BOOLEAN] /\ versions \in [Projects -> SUBSET Codes]
  /\ plan \in [Projects -> PlanRows \cup {None}] /\ receipt \in [Projects -> BOOLEAN]
  /\ copy \in Archives \cup {None}
  /\ op \in [Projects -> Ops \cup {None}] /\ ops \in 0..MaxOps
  /\ cut \subseteq Projects /\ torn \subseteq Projects

Init ==
  \E c \in Codes, v \in Values, pl \in Plans :
    /\ code = [p \in Projects |-> IF p = Origin THEN c ELSE None]
    /\ snaps = [p \in Projects |-> IF p = Origin THEN {c} ELSE {}] /\ versions = snaps
    /\ store = [p \in Projects |-> IF p = Origin THEN v ELSE None]
    /\ serving = [p \in Projects |-> FALSE]
    /\ dump = [p \in Projects |-> [i \in Slots |-> None]] /\ meta = dump
    /\ plain = [p \in Projects |-> FALSE] /\ sealed = [p \in Projects |-> None]
    /\ row = [p \in Projects |-> p = Origin] /\ receipt = plain
    /\ plan = [p \in Projects |-> IF p = Origin THEN pl ELSE None]
    /\ copy = None /\ op = [p \in Projects |-> None] /\ ops = 0
    /\ cut = {} /\ torn = {}

-----------------------------------------------------------------------------
(* The application, the user, and versions saved by other operations.          *)
AppWrites(p) ==
  /\ serving[p]
  /\ \E v \in Values \ {store[p]} : store' = [store EXCEPT ![p] = v]
  /\ op' = IF op[p] # None /\ op[p].value # None THEN [op EXCEPT ![p].wrote = TRUE] ELSE op
  /\ UNCHANGED <<tree, serving, vault, export, rows, copy, ops, cut, torn>>

Edit(p) ==
  /\ row[p] /\ code[p] # None
  /\ \E c \in Codes \ {code[p]} : code' = [code EXCEPT ![p] = c]
  /\ torn' = IF op[p] # None /\ op[p].step = "digest" THEN torn \cup {p} ELSE torn
  /\ UNCHANGED <<snaps, live, vault, export, rows, copy, op, ops, cut>>

SaveVersion(p) ==
  /\ row[p] /\ code[p] # None /\ op[p] = None
  /\ snaps' = [snaps EXCEPT ![p] = @ \cup {code[p]}]
  /\ versions' = [versions EXCEPT ![p] = @ \cup {code[p]}]
  /\ UNCHANGED <<code, live, vault, export, row, plan, copy, op, ops, cut, torn>>

-----------------------------------------------------------------------------
Begin(p, kind, step, from, archive) ==
  /\ op[p] = None /\ ops < MaxOps /\ ops' = ops + 1
  /\ op' = [op EXCEPT ![p] = [kind |-> kind, step |-> step, slot |-> None, from |-> from,
                              value |-> None, code |-> None, archive |-> archive,
                              wrote |-> FALSE]]

Doing(p, step) == op[p] # None /\ op[p].step = step
Goto(p, step)  == op' = [op EXCEPT ![p].step = step]
Stop(p)        == op' = [op EXCEPT ![p] = None]

Whole(p) == row[p] /\ code[p] # None /\ store[p] # None

Backup(p) ==
  /\ Whole(p) /\ Begin(p, "backup", "dump", None, None)
  /\ UNCHANGED <<tree, live, vault, export, rows, copy, cut, torn>>

Preview(p) ==
  /\ Whole(p) /\ Begin(p, "preview", "dump", None, None)
  /\ UNCHANGED <<tree, live, vault, export, rows, copy, cut, torn>>

(* verified_path(): both files are there and the checksum is the recorded one. *)
Verified(p, i) == meta[p][i] # None /\ dump[p][i] = meta[p][i]

RestoreFault(p, i) ==                           \* takes no safeguard first
  /\ Whole(p) /\ Verified(p, i) /\ Begin(p, "restore", "stop", i, None)
  /\ UNCHANGED <<tree, live, vault, export, rows, copy, cut, torn>>
Restore(p, i) ==
  /\ Whole(p) /\ Verified(p, i) /\ Begin(p, "restore", "dump", i, None)
  /\ UNCHANGED <<tree, live, vault, export, rows, copy, cut, torn>>

-----------------------------------------------------------------------------
(* backups.create(): the dump is taken, then renamed, then its record is; what *)
(* raises removes all of it.                                                   *)
Dump(p, i) ==
  /\ Doing(p, "dump") /\ dump[p][i] = None /\ meta[p][i] = None
  /\ op' = [op EXCEPT ![p].step = "place", ![p].slot = i, ![p].value = store[p]]
  /\ UNCHANGED <<tree, live, vault, export, rows, copy, ops, cut, torn>>

Place(p) ==
  /\ Doing(p, "place")
  /\ dump' = [dump EXCEPT ![p][op[p].slot] = op[p].value]
  /\ Goto(p, "seal")
  /\ UNCHANGED <<tree, live, meta, export, rows, copy, ops, cut, torn>>

Seal(p) ==
  /\ Doing(p, "seal")
  /\ meta' = [meta EXCEPT ![p][op[p].slot] = op[p].value]
  /\ \/ op[p].kind = "backup" /\ Stop(p)
     \/ op[p].kind = "preview" /\ Goto(p, "migrate")
     \/ op[p].kind = "restore" /\ Goto(p, "stop")
     \/ op[p].kind = "export" /\ Goto(p, "source")
  /\ UNCHANGED <<tree, live, dump, export, rows, copy, ops, cut, torn>>

Unplace(p) ==
  /\ op[p] # None /\ op[p].step \in Creating
  /\ dump' = IF op[p].slot = None THEN dump ELSE [dump EXCEPT ![p][op[p].slot] = None]
  /\ Stop(p)
  /\ UNCHANGED <<tree, live, meta, export, rows, copy, ops, cut, torn>>

(* Starting the preview migrates the database, then starts the application,    *)
(* part of which may run when that fails.                                      *)
Migrate(p) ==
  /\ Doing(p, "migrate") /\ Goto(p, "start")
  /\ \E v \in Values : store' = [store EXCEPT ![p] = v]
  /\ UNCHANGED <<tree, serving, vault, export, rows, copy, ops, cut, torn>>

StartApp(p) ==
  /\ Doing(p, "start") /\ Stop(p)
  /\ serving' = [serving EXCEPT ![p] = TRUE]
  /\ UNCHANGED <<tree, store, vault, export, rows, copy, ops, cut, torn>>

(* Stopping it is one command, which keeps the database.                       *)
Halt(p) ==
  /\ serving[p] /\ op[p] = None
  /\ serving' = [serving EXCEPT ![p] = FALSE]
  /\ UNCHANGED <<tree, store, vault, export, rows, copy, op, ops, cut, torn>>

(* restore_database() stops the application, then restores in one transaction. *)
StopApp(p) ==
  /\ Doing(p, "stop")
  /\ serving' = [serving EXCEPT ![p] = FALSE] /\ Goto(p, "restore")
  /\ UNCHANGED <<tree, store, vault, export, rows, copy, ops, cut, torn>>

RestoreDb(p) ==
  /\ Doing(p, "restore")
  /\ store' = [store EXCEPT ![p] = dump[p][op[p].from]] /\ Stop(p)
  /\ UNCHANGED <<tree, serving, vault, export, rows, copy, ops, cut, torn>>

Fail(p) ==
  /\ op[p] # None /\ op[p].step \in {"migrate", "start", "stop", "restore"} /\ Stop(p)
  /\ UNCHANGED <<tree, live, vault, export, rows, copy, ops, cut, torn>>

-----------------------------------------------------------------------------
(* recovery.create().  Each export has files of its own; one is modelled.      *)
Export(p) ==
  /\ Whole(p) /\ ~plain[p] /\ sealed[p] = None /\ ~receipt[p]
  /\ Begin(p, "export", "dump", None, None)
  /\ UNCHANGED <<tree, live, vault, export, rows, copy, cut, torn>>

ReadSource(p) ==
  /\ Doing(p, "source")
  /\ op' = [op EXCEPT ![p].step = "digest", ![p].code = code[p]]
  /\ UNCHANGED <<tree, live, vault, export, rows, copy, ops, cut, torn>>

(* The manifest reads the source once more, for its digest.                    *)
ReadManifest(p) ==
  /\ Doing(p, "digest") /\ versions[p] \subseteq snaps[p]
  /\ op' = [op EXCEPT ![p].step = "pack", ![p].archive =
              [code |-> op[p].code, digest |-> code[p], data |-> dump[p][op[p].slot],
               versions |-> versions[p], plan |-> plan[p], good |-> TRUE]]
  /\ UNCHANGED <<tree, live, vault, export, rows, copy, ops, cut, torn>>

Pack(p) ==
  /\ Doing(p, "pack") /\ Goto(p, "encrypt")
  /\ plain' = [plain EXCEPT ![p] = TRUE]
  /\ UNCHANGED <<tree, live, vault, sealed, receipt, rows, copy, ops, cut, torn>>

Encrypt(p) ==
  /\ Doing(p, "encrypt") /\ Goto(p, "receipt")
  /\ sealed' = [sealed EXCEPT ![p] = op[p].archive]
  /\ UNCHANGED <<tree, live, vault, plain, receipt, rows, copy, ops, cut, torn>>

InsertReceipt(p) ==
  /\ Doing(p, "receipt") /\ Stop(p)
  /\ receipt' = [receipt EXCEPT ![p] = TRUE]
  /\ plain' = [plain EXCEPT ![p] = FALSE]
  /\ UNCHANGED <<tree, live, vault, sealed, rows, copy, ops, cut, torn>>

(* Anything raises, the INSERT perhaps after its commit.                       *)
ExportFailsFault(p) ==                          \* leaves the plaintext behind
  /\ op[p] # None /\ op[p].step \in Exporting /\ Stop(p)
  /\ sealed' = [sealed EXCEPT ![p] = None]
  /\ UNCHANGED <<plain, receipt, cut, tree, live, vault, rows, copy, ops, torn>>
ExportFails(p) ==
  /\ op[p] # None /\ op[p].step \in Exporting /\ Stop(p)
  /\ plain' = [plain EXCEPT ![p] = FALSE] /\ sealed' = [sealed EXCEPT ![p] = None]
  /\ \/ UNCHANGED <<receipt, cut>>
     \/ /\ op[p].step = "receipt"
        /\ receipt' = [receipt EXCEPT ![p] = TRUE] /\ cut' = cut \cup {p}
  /\ UNCHANGED <<tree, live, vault, rows, copy, ops, torn>>

(* export_path(): the row and a file with its checksum.  The copy leaves the   *)
(* machine, where it may get damaged.                                          *)
Download(p) ==
  /\ row[p] /\ receipt[p] /\ sealed[p] # None
  /\ copy' = sealed[p]
  /\ UNCHANGED <<tree, live, vault, export, rows, op, ops, cut, torn>>

Damage ==
  /\ copy # None /\ copy.good
  /\ copy' = [copy EXCEPT !.good = FALSE]
  /\ UNCHANGED <<tree, live, vault, export, rows, op, ops, cut, torn>>

-----------------------------------------------------------------------------
(* import_archive() makes a project under a new id; decrypt() refuses a copy   *)
(* that was changed.                                                           *)
Decrypts(archive) == archive.good

Import(p) ==
  /\ ~row[p] /\ code[p] = None /\ store[p] = None /\ p \notin cut
  /\ copy # None /\ Decrypts(copy)
  /\ Begin(p, "import", "unpack", None, copy)
  /\ UNCHANGED <<tree, live, vault, export, rows, copy, cut, torn>>

(* The source and the versions are written, then compared with their digests.  *)
SameDigest(archive) == archive.code = archive.digest

Unpack(p) ==
  /\ Doing(p, "unpack")
  /\ code' = [code EXCEPT ![p] = op[p].archive.code]
  /\ snaps' = [snaps EXCEPT ![p] = op[p].archive.versions]
  /\ Goto(p, IF SameDigest(op[p].archive) THEN "database" ELSE "undo")
  /\ UNCHANGED <<live, vault, export, rows, copy, ops, cut, torn>>

Database(p) ==
  /\ Doing(p, "database") /\ Goto(p, "commit")
  /\ store' = [store EXCEPT ![p] = op[p].archive.data]
  /\ UNCHANGED <<tree, serving, vault, export, rows, copy, ops, cut, torn>>

(* continuity_archive.statements(): plans arrive paused, with their bill and   *)
(* the estimate of a request that was in flight.                               *)
RecoveredFault(pl) ==
  [status |-> "needs_review", item |-> pl.item, usage |-> pl.usage, reserved |-> 0]
Recovered(pl) ==
  [status |-> "needs_review", usage |-> pl.usage, reserved |-> pl.reserved,
   item |-> IF pl.item = "completed" THEN "completed" ELSE "needs_review"]

(* One transaction for all rows.                                               *)
Insert(p) ==
  LET archive == op[p].archive
      saved   == IF archive.versions = {} THEN {code[p]} ELSE archive.versions
  IN
  /\ row' = [row EXCEPT ![p] = TRUE]
  /\ versions' = [versions EXCEPT ![p] = saved]
  /\ snaps' = [snaps EXCEPT ![p] = @ \cup saved]
  /\ plan' = [plan EXCEPT ![p] = Recovered(archive.plan)]

Commit(p) ==
  /\ Doing(p, "commit") /\ Insert(p)
  /\ \/ Stop(p) /\ UNCHANGED cut
     \/ Goto(p, "undo") /\ cut' = cut \cup {p}
  /\ UNCHANGED <<code, live, vault, export, copy, ops, torn>>

ImportFails(p) ==
  /\ op[p] # None /\ op[p].step \in {"unpack", "database", "commit"} /\ Goto(p, "undo")
  /\ UNCHANGED <<tree, live, vault, export, rows, copy, ops, cut, torn>>

(* The except clause removes the database and the directory, as far as it can. *)
Undo(p) ==
  /\ Doing(p, "undo") /\ Stop(p)
  /\ code' = [code EXCEPT ![p] = None] /\ snaps' = [snaps EXCEPT ![p] = {}]
  /\ \/ store' = [store EXCEPT ![p] = None]
     \/ UNCHANGED store
  /\ UNCHANGED <<serving, vault, export, rows, copy, ops, cut, torn>>

-----------------------------------------------------------------------------
(* The builder dies and is started again; Docker's containers run on.          *)
Crash ==
  /\ \E p \in Projects : op[p] # None
  /\ op' = [p \in Projects |-> None]
  /\ cut' = cut \cup {p \in Projects : op[p] # None /\ op[p].kind \in {"export", "import"}}
  /\ UNCHANGED <<tree, live, vault, export, rows, copy, ops, torn>>

Next ==
  \/ \E p \in Projects :
       \/ AppWrites(p) \/ Edit(p) \/ SaveVersion(p)
       \/ Backup(p) \/ Preview(p) \/ Export(p) \/ Import(p) \/ Download(p)
       \/ (\E i \in Slots : Restore(p, i) \/ Dump(p, i))
       \/ Place(p) \/ Seal(p) \/ Unplace(p) \/ Fail(p)
       \/ Migrate(p) \/ StartApp(p) \/ Halt(p) \/ StopApp(p) \/ RestoreDb(p)
       \/ ReadSource(p) \/ ReadManifest(p) \/ Pack(p) \/ Encrypt(p) \/ InsertReceipt(p)
       \/ ExportFails(p)
       \/ Unpack(p) \/ Database(p) \/ Commit(p) \/ ImportFails(p) \/ Undo(p)
  \/ Damage \/ Crash

Spec == Init /\ [][Next]_vars

-----------------------------------------------------------------------------
(* A project that is listed is all there: its files, its database, a snapshot  *)
(* for each version.  The one exception is an import whose rows were committed *)
(* while it believed they were not, and cleaned up (recovery.py:321).          *)
ListedIsWhole ==
  \A p \in Projects : row[p] /\ p \notin cut =>
    code[p] # None /\ store[p] # None /\ versions[p] # {} /\ versions[p] \subseteq snaps[p]

(* What is offered can be used: a listed backup has its dump, a listed export  *)
(* its file, and a file that can be imported unless the source was edited      *)
(* between the two reads.  The plaintext archive is gone when the export is    *)
(* over, whatever happened, unless the builder died.                           *)
OfferedIsWhole ==
  \A p \in Projects :
    /\ \A i \in Slots : meta[p][i] # None => dump[p][i] = meta[p][i]
    /\ receipt[p] /\ p \notin cut => sealed[p] # None
    /\ sealed[p] # None /\ p \notin torn => SameDigest(sealed[p])
    /\ plain[p] /\ p \notin cut => op[p] # None /\ op[p].step \in Exporting
ProjectsWhole == TypeOK /\ ListedIsWhole /\ OfferedIsWhole

(* Action property: an operation replaces a database only when a usable backup *)
(* holds what was there; what the running application wrote after that backup  *)
(* is the only thing it may lose ("a pre-restore safeguard was kept").         *)
DataKept ==
  [][\A p \in Projects :
       (row[p] /\ store'[p] # store[p] /\ (Doing(p, "migrate") \/ Doing(p, "restore"))
        /\ ~AppWrites(p))
       => op[p].wrote \/ \E i \in Slots : Verified(p, i) /\ dump[p][i] = store[p]]_vars

(* Action property: a project that appears is what its archive holds: a source *)
(* that is the one its digest names, the database as dumped before that source *)
(* was read, and plans with nothing running and nothing billed forgotten       *)
(* ("imports never start work").                                               *)
ImportedAsExported ==
  [][\A p \in Projects : row'[p] /\ ~row[p] =>
       LET archive == op[p].archive IN
       /\ code'[p] = archive.digest /\ store'[p] = archive.data
       /\ archive.versions \subseteq versions'[p]
       /\ plan'[p].status = "needs_review" /\ plan'[p].item \in {"completed", "needs_review"}
       /\ (plan'[p].item = "completed") = (archive.plan.item = "completed")
       /\ plan'[p].usage + plan'[p].reserved = archive.plan.usage + archive.plan.reserved]_vars
=============================================================================
