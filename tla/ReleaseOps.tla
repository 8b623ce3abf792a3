------------------------------ MODULE ReleaseOps ------------------------------
(* Operations on a deployed Accounts release (release-template/ops.py): stage, *)
(* deploy, rollback, backup and restore drill on one host, under one file      *)
(* lock.  Every command may fail in the middle, every write of a record may    *)
(* raise, and the program may be killed at any point.                          *)
EXTENDS Naturals, FiniteSets

CONSTANTS
  Releases,     \* exported releases
  Migrations,   \* pairs of a migration's name and hash
  Needs,        \* the migrations of each release
  Services,     \* containers of the application, in the order compose starts them
  MaxImages,    \* bound: how often a release's images are built
  MaxBackups,   \* bound on the backups that exist
  MaxKeys,      \* bound on the backup keys ever made
  Missing

ASSUME ReleaseOpsAssumption ==
  /\ Needs \in [Releases -> SUBSET Migrations]
  /\ {Services, MaxImages, MaxBackups, MaxKeys} \subseteq Nat

VARIABLES
  installed,    \* release.json of the directory
  image,        \* the images that each release's tags name, 0: none
  staged, fresh,            \* staged.json, and whether it is less than a day old
  stageLedger, ledger,      \* _foundry_migrations of both databases
  running,      \* what each service of the production stack runs
  state,        \* state.json
  backups,      \* the encrypted files and their records
  key, keys,    \* backup.key (0: an empty file), and how many were made
  command,      \* the operation that holds the lock
  \* history:
  passed,       \* what ever passed staging
  strayed       \* a rollback stopped after it began to replace containers

shop  == <<installed, image>>
stage == <<staged, fresh, stageLedger>>
site  == <<ledger, running>>
safe  == <<backups, key, keys>>
releaseVars == <<shop, stage, site, state, safe, command, passed, strayed>>

-----------------------------------------------------------------------------
Data    == [release : Releases, image : 1..MaxImages]
Ids     == 1..MaxBackups
Backups == [ledger : SUBSET Migrations, key : 1..MaxKeys, record : {"none", "made", "restored"}]
States  == [phase : {"none", "deploying", "failed_needs_review", "healthy"},
            current : Data \cup {Missing}, previous : Data \cup {Missing}]
Commands == [kind : {"deploy", "rollback", "backup", "drill"}, data : Data,
            step : {"backup", "key", "dump", "drill", "record", "migrate", "up", "check", "fail",
                    "close"},
            service : 1..(Services + 1), backup : Ids \cup {Missing}]

ASSUME MissingAssumption ==
  Missing \notin Nat /\ Missing \notin Backups /\ Missing \notin Data /\ Missing \notin Commands

ReleaseTypeOK ==
  /\ installed \in Releases /\ image \in [Releases -> 0..MaxImages]
  /\ staged \in Data \cup {Missing} /\ fresh \in BOOLEAN
  /\ stageLedger \subseteq Migrations /\ ledger \subseteq Migrations
  /\ running \in [1..Services -> Data \cup {Missing}]
  /\ state \in States
  /\ backups \in [Ids -> Backups \cup {Missing}]
  /\ key \in {Missing} \cup 0..MaxKeys /\ keys \in 0..MaxKeys
  /\ command \in Commands \cup {Missing}
  /\ passed \subseteq Data /\ strayed \in BOOLEAN

ReleaseInit ==
  /\ installed \in Releases /\ image = [r \in Releases |-> 0]
  /\ staged = Missing /\ fresh = FALSE /\ stageLedger = {} /\ ledger = {}
  /\ running = [s \in 1..Services |-> Missing]
  /\ state = [phase |-> "none", current |-> Missing, previous |-> Missing]
  /\ backups = [i \in Ids |-> Missing] /\ key = Missing /\ keys = 0
  /\ command = Missing /\ passed = {} /\ strayed = FALSE

-----------------------------------------------------------------------------
(* What the operator does beside ops.py: unpack a release, build its images,   *)
(* wait, lose the key, put it back, remove backups (but not the one in use).   *)
Install ==
  /\ \E r \in Releases \ {installed} : installed' = r
  /\ UNCHANGED <<image, stage, site, state, safe, command, passed, strayed>>

BuildImages ==
  /\ image[installed] < MaxImages
  /\ image' = [image EXCEPT ![installed] = @ + 1]
  /\ UNCHANGED <<installed, stage, site, state, safe, command, passed, strayed>>

Expire ==
  /\ fresh /\ fresh' = FALSE
  /\ UNCHANGED <<shop, staged, stageLedger, site, state, safe, command, passed, strayed>>

LoseKey ==
  /\ key # Missing /\ key' = Missing
  /\ UNCHANGED <<shop, stage, site, state, backups, keys, command, passed, strayed>>

RecoverKey(i) ==
  /\ key = Missing /\ backups[i] # Missing /\ key' = backups[i].key
  /\ UNCHANGED <<shop, stage, site, state, backups, keys, command, passed, strayed>>

Remove(i) ==
  /\ backups[i] # Missing /\ (command # Missing => command.backup # i)
  /\ backups' = [backups EXCEPT ![i] = Missing]
  /\ UNCHANGED <<shop, stage, site, state, key, keys, command, passed, strayed>>

-----------------------------------------------------------------------------
(* candidate(): the installed release with the images its tags name now.       *)
Built == image[installed] > 0
Candidate == [release |-> installed, image |-> image[installed]]

BeginCommand(kind, data, step, i) ==
  command' = [kind |-> kind, data |-> data, step |-> step, service |-> 1, backup |-> i]
Proceed(step) == command' = [command EXCEPT !.step = step]
At(step)   == command # Missing /\ command.step = step
EndCommand == command' = Missing

(* runtime.py: applied migrations must all be there, unedited; the others run  *)
(* in one transaction.                                                         *)
Accepts(r, applied) == applied \subseteq Needs[r]
Migrated(r, applied) == applied \cup Needs[r]

(* stage() has a database of its own, and keeps a record when all is healthy.  *)
StageRuns ==
  /\ command = Missing /\ Built
  /\ Accepts(installed, stageLedger)
  /\ stageLedger' = Migrated(installed, stageLedger)
  /\ \/ staged' = Candidate /\ fresh' = TRUE /\ passed' = passed \cup {Candidate}
     \/ UNCHANGED <<staged, fresh, passed>>
  /\ UNCHANGED <<shop, site, state, safe, command, strayed>>

-----------------------------------------------------------------------------
(* deploy()                                                                    *)
StagedFault(data) == staged # Missing /\ staged.release = data.release /\ fresh
Staged(data) == staged = data /\ fresh

Deploy ==
  /\ command = Missing /\ Built /\ Staged(Candidate)
  /\ BeginCommand("deploy", Candidate, "backup", Missing)
  /\ UNCHANGED <<shop, stage, site, state, safe, passed, strayed>>

BackupNow ==
  /\ command = Missing /\ Built
  /\ BeginCommand("backup", Candidate, "backup", Missing)
  /\ UNCHANGED <<shop, stage, site, state, safe, passed, strayed>>

DrillNow(i) ==
  /\ command = Missing /\ Built /\ backups[i] # Missing
  /\ BeginCommand("drill", Candidate, "drill", i)
  /\ UNCHANGED <<shop, stage, site, state, safe, passed, strayed>>

(* key_bytes(): a missing key is made only while there is no backup.  The file *)
(* is created first and written after; one that was left empty is refused.     *)
MayCreate == key = Missing /\ \A i \in Ids : backups[i] = Missing

CreateKey ==
  /\ At("backup") /\ MayCreate
  /\ key' = 0 /\ Proceed("key")
  /\ UNCHANGED <<shop, stage, site, state, backups, keys, passed, strayed>>

WriteKey ==
  /\ At("key") /\ key = 0 /\ keys < MaxKeys
  /\ keys' = keys + 1 /\ key' = keys' /\ Proceed("dump")
  /\ UNCHANGED <<shop, stage, site, state, backups, passed, strayed>>

Usable == key \notin {Missing, 0}

(* backup(): the whole file is put in place, then its record is written.       *)
Dumping == At("backup") \/ At("dump")

DumpDatabase(i) ==
  /\ Dumping /\ Usable /\ command.backup = Missing /\ backups[i] = Missing
  /\ backups' = [backups EXCEPT ![i] = [ledger |-> ledger, key |-> key, record |-> "none"]]
  /\ command' = [command EXCEPT !.backup = i]
  /\ UNCHANGED <<shop, stage, site, state, key, keys, passed, strayed>>

RecordBackupFault ==                            \* deploys without restoring it once
  /\ Dumping /\ command.backup # Missing
  /\ backups' = [backups EXCEPT ![command.backup].record = "made"]
  /\ Proceed(IF command.kind = "deploy" THEN "record" ELSE "drill")
  /\ UNCHANGED <<shop, stage, site, state, key, keys, passed, strayed>>
RecordBackup ==
  /\ Dumping /\ command.backup # Missing
  /\ backups' = [backups EXCEPT ![command.backup].record = "made"]
  /\ Proceed("drill")
  /\ UNCHANGED <<shop, stage, site, state, key, keys, passed, strayed>>

(* drill(): restores it into a database of its own.                            *)
Drill ==
  /\ At("drill") /\ Usable
  /\ backups[command.backup].record # "none" /\ backups[command.backup].key = key
  /\ backups' = [backups EXCEPT ![command.backup].record = "restored"]
  /\ IF command.kind = "deploy" THEN Proceed("record") ELSE EndCommand
  /\ UNCHANGED <<shop, stage, site, state, key, keys, passed, strayed>>

RecordFault ==                                  \* only a failure is recorded
  /\ At("record") /\ Proceed("migrate")
  /\ UNCHANGED <<shop, stage, site, state, safe, passed, strayed>>
Record ==
  /\ At("record")
  /\ state' = [state EXCEPT !.phase = "deploying"]
  /\ Proceed("migrate")
  /\ UNCHANGED <<shop, stage, site, safe, passed, strayed>>

-----------------------------------------------------------------------------
(* "up --wait" runs the migrations, then replaces one container after the      *)
(* other; it may fail, be late or be unhealthy after any of them.              *)
MigrateSite ==
  /\ At("migrate") /\ Accepts(command.data.release, ledger)
  /\ ledger' = Migrated(command.data.release, ledger)
  /\ Proceed("up")
  /\ UNCHANGED <<shop, stage, running, state, safe, passed, strayed>>

Replace ==
  /\ At("up") /\ command.service <= Services
  /\ running' = [running EXCEPT ![command.service] = command.data]
  /\ command' = [command EXCEPT !.service = @ + 1]
  /\ UNCHANGED <<shop, stage, ledger, state, safe, passed, strayed>>

Started ==
  /\ At("up") /\ command.service > Services
  /\ Proceed(IF command.kind = "deploy" THEN "check" ELSE "close")
  /\ UNCHANGED <<shop, stage, site, state, safe, passed, strayed>>

CheckSchema ==
  /\ At("check")
  /\ Proceed(IF ledger = Needs[command.data.release] THEN "close" ELSE "fail")
  /\ UNCHANGED <<shop, stage, site, state, safe, passed, strayed>>

UpFails ==
  /\ At("migrate") \/ At("up") \/ At("check")
  /\ command.kind = "deploy" /\ Proceed("fail")
  /\ UNCHANGED <<shop, stage, site, state, safe, passed, strayed>>

RecordFailure ==
  /\ At("fail")
  /\ state' = [state EXCEPT !.phase = "failed_needs_review"]
  /\ EndCommand
  /\ UNCHANGED <<shop, stage, site, safe, passed, strayed>>

Closed == [phase |-> "healthy", current |-> command.data, previous |-> state.current]

Close ==
  /\ At("close")
  /\ state' = Closed /\ EndCommand /\ strayed' = FALSE
  /\ UNCHANGED <<shop, stage, site, safe, passed>>

-----------------------------------------------------------------------------
(* rollback(): keeps the database, and no record while it replaces containers. *)
Target == IF state.phase = "healthy" THEN state.previous ELSE state.current

Compatible(data) == data # Missing /\ Needs[data.release] = ledger

Rollback ==
  /\ command = Missing /\ Compatible(Target)
  /\ BeginCommand("rollback", Target, "migrate", Missing)
  /\ UNCHANGED <<shop, stage, site, state, safe, passed, strayed>>

-----------------------------------------------------------------------------
(* A statement raises where nothing handles it, or the program is killed: the  *)
(* lock is free again and everything else stays as it is.                      *)
Abort ==
  /\ command # Missing /\ EndCommand
  /\ strayed' = \/ strayed
                \/ /\ command.kind = "rollback" /\ command.step \in {"up", "close"}
                   /\ command.service > 1
  /\ UNCHANGED <<shop, stage, site, state, safe, passed>>

ReleaseNext ==
  \/ Install \/ BuildImages \/ Expire \/ LoseKey \/ (\E i \in Ids : RecoverKey(i) \/ Remove(i))
  \/ StageRuns \/ Deploy \/ BackupNow \/ (\E i \in Ids : DrillNow(i)) \/ Rollback
  \/ CreateKey \/ WriteKey \/ (\E i \in Ids : DumpDatabase(i)) \/ RecordBackup \/ Drill \/ Record
  \/ MigrateSite \/ Replace \/ Started \/ CheckSchema \/ UpFails \/ RecordFailure \/ Close \/ Abort

ReleaseSpec == ReleaseInit /\ [][ReleaseNext]_releaseVars

-----------------------------------------------------------------------------
(* What state.json calls healthy is what is there: the database is at the      *)
(* current release's migrations, and every service runs the current images, or *)
(* the previous ones if a rollback was cut short ("An interruption leaves a    *)
(* durable `deploying` record" holds of deployments only).                     *)
HealthyIsServed ==
  state.phase = "healthy" =>
    /\ ledger = Needs[state.current.release]
    /\ \A s \in 1..Services :
         \/ running[s] = state.current
         \/ /\ running[s] = state.previous
            /\ strayed \/ (command # Missing /\ command.kind = "rollback")

(* Only images that passed staging ever serve, also when they are rebuilt      *)
(* under the same tag meanwhile; and a key that exists opens every backup      *)
(* ("existing backups cannot use a new one").                                  *)
OnlyStagedRuns == \A s \in 1..Services : running[s] \in passed \cup {Missing}
KeyOpensAll    == Usable => \A i \in Ids : backups[i] # Missing => backups[i].key = key
StagedAndSealed == ReleaseTypeOK /\ OnlyStagedRuns /\ KeyOpensAll

(* Action property: the production database is migrated only while a backup    *)
(* of just that database exists which was restored once, and state.json says   *)
(* deploying; a rollback never migrates.                                       *)
MigratedAfterDrill ==
  [][ledger' # ledger =>
       /\ state.phase = "deploying" /\ command.kind = "deploy"
       /\ backups[command.backup].record = "restored"
       /\ backups[command.backup].ledger = ledger]_releaseVars
=============================================================================
