------------------------------ MODULE Storage -------------------------------
(***************************************************************************)
(* Backups: the script deploy/systemd/hermodr-backup that a timer starts   *)
(* every night after the unit hermodr-migrate, with the commands           *)
(* backup-create, backup-verify and restore-test of                        *)
(* src/hermodr/backup.py.  The script ends with the first command that     *)
(* fails.  The audit chain, disks, gpg and the mounted directory off the   *)
(* host are external: they may fail or leave damaged files, and a loss of  *)
(* power takes what has not reached the disk.  A file that has reached it  *)
(* stays as it is.  The rows of operational_state that tell of successes   *)
(* are left out: tests of any file anywhere write them, too.               *)
(***************************************************************************)
EXTENDS Migration

CONSTANTS
    Unit,       \* the migrator that is hermodr-migrate.service
    Build,      \* BUILD.schema_version of the build installed
    Keep,       \* days after which an archive is deleted
    MaxDays,    \* bound: days
    MaxDamage   \* bound: archives that are damaged while they are written

ASSUME StorageAssumption ==
    /\ Unit \in Migrators
    /\ Build \in Nat /\ Keep \in Nat /\ MaxDays \in Nat \ {0}
    /\ MaxDamage \in Nat

VARIABLES
    day,       \* days since the timer was enabled; also the stamp of the archive
    run,       \* what the timer has started that day
    step,      \* the command of the script that runs, 1 if none does
    archives,  \* archives[p][d]: the archive of day d in place p, under its name
    temporary, \* the copy that is not renamed yet
    sound,     \* the database passes integrity_check and verify_chain
    tested,    \* history: the last day whose copy off the host passed its restore test
    damage     \* archives that were damaged

backupVars == <<day, run, step, archives, temporary, sound, tested, damage>>
storageVars == <<migrationVars, backupVars>>

Days == 1..MaxDays
Places == {"local", "offhost"}
Tests == {"verify", "restore_test"}
Files == {"absent", "partial", "damaged", "whole"}
Runs == {"due", "migrating", "running", "over"}

\* Mutant: the directories are tidied before the new archive is made.
PruneFirst ==
    << <<"prune", "local">>, <<"prune", "offhost">>, <<"create", "local">>,
       <<"verify", "local">>, <<"restore_test", "local">>, <<"copy", "offhost">>,
       <<"rename", "offhost">>, <<"verify", "offhost">>, <<"restore_test", "offhost">> >>

\* The commands of the script, with the directory they are about.
Commands ==
    << <<"create", "local">>, <<"verify", "local">>, <<"restore_test", "local">>,
       <<"copy", "offhost">>, <<"rename", "offhost">>,
       <<"verify", "offhost">>, <<"restore_test", "offhost">>,
       <<"prune", "local">>, <<"prune", "offhost">> >>

BackupInit ==
    /\ day = 1 /\ run = "due" /\ step = 1
    /\ archives = [p \in Places |-> [d \in Days |-> "absent"]]
    /\ temporary = "absent"
    /\ sound = TRUE
    /\ tested = 0
    /\ damage = 0

\* A day passes, with or without a run of the script.
Tick ==
    /\ day < MaxDays
    /\ run \in {"due", "over"}
    /\ day' = day + 1
    /\ run' = "due" /\ temporary' = "absent"
    /\ UNCHANGED <<step, archives, sound, tested, damage>>

\* The timer: hermodr-backup.service requires a run of hermodr-migrate first.
StartUnits ==
    /\ run = "due"
    /\ run' = "migrating"
    /\ phase' = [phase EXCEPT ![Unit] = IF @ = "applying" THEN @ ELSE "idle"]
    /\ UNCHANGED <<applied, schema, seen, next, crashes>>
    /\ UNCHANGED <<day, step, archives, temporary, sound, tested, damage>>

\* It starts if that run succeeded.
StartScript ==
    /\ run = "migrating" /\ phase[Unit] \in {"done", "failed"}
    /\ run' = IF phase[Unit] = "done" THEN "running" ELSE "over"
    /\ UNCHANGED <<day, step, archives, temporary, sound, tested, damage>>

Doing(command, p) == run = "running" /\ Commands[step] = <<command, p>>

\* The command succeeded: the script goes on, or has come to its end.
Proceed ==
    IF step < Len(Commands)
    THEN step' = step + 1 /\ UNCHANGED run
    ELSE run' = "over" /\ step' = 1

\* It failed, and with it the script (set -e).
GiveUp == run' = "over" /\ step' = 1

Placed(p, file) == archives' = [archives EXCEPT ![p][day] = file]

\* schema_version_invalid: every command wants the schema of its build.
Compatible == Len(schema) = Build

RefuseCommand ==
    /\ \E s \in Tests \cup {"create"}, p \in Places : Doing(s, p)
    /\ ~Compatible
    /\ GiveUp
    /\ UNCHANGED <<day, archives, temporary, sound, tested, damage>>

\* create_backup has checked its snapshot, and gpg writes to the name of the archive.
BeginCreate ==
    /\ Doing("create", "local") /\ Compatible
    /\ archives["local"][day] = "absent"
    /\ sound
    /\ Placed("local", "partial")
    /\ UNCHANGED <<day, run, step, temporary, sound, tested, damage>>

\* What a write may leave of f, and how often it was damaged.
Written(f, g) ==
    \/ g = f /\ UNCHANGED damage
    \/ g = "damaged" /\ damage < MaxDamage /\ damage' = damage + 1

\* gpg ends.
EndCreate ==
    /\ Doing("create", "local")
    /\ archives["local"][day] = "partial"
    /\ \E file \in Files : Written("whole", file) /\ Placed("local", file)
    /\ UNCHANGED <<day, run, step, temporary, sound, tested>>

\* chmod, and _state records the success.
FinishCreate ==
    /\ Doing("create", "local")
    /\ archives["local"][day] \in {"damaged", "whole"}
    /\ Proceed
    /\ UNCHANGED <<day, archives, temporary, sound, tested, damage>>

\* The snapshot is not sound, or gpg, a disk or _state fails; the file stays as it is.
FailCreate ==
    /\ Doing("create", "local") /\ Compatible
    /\ GiveUp
    /\ UNCHANGED <<day, archives, temporary, sound, tested, damage>>

\* Mutant: the archive decrypts, its content is not compared with the manifest.
Decrypts(file) == file \in {"damaged", "whole"}

\* verify_backup: digest, integrity, audit chain and the counts of the manifest.
Reconciles(file) == file = "whole"

\* verify_backup finds the archive of the day in order.
PassTest(s, p) ==
    /\ Doing(s, p) /\ Compatible
    /\ Reconciles(archives[p][day])
    /\ Proceed
    /\ tested' = IF s = "restore_test" /\ p = "offhost" THEN day ELSE tested
    /\ UNCHANGED <<day, archives, temporary, sound, damage>>

\* It does not, or gpg or a disk fails.
FailTest(s, p) ==
    /\ Doing(s, p) /\ Compatible
    /\ GiveUp
    /\ UNCHANGED <<day, archives, temporary, sound, tested, damage>>

\* Mutant: cp writes to the name of the archive.
CopyInPlace ==
    /\ Doing("copy", "offhost") /\ temporary = "absent"
    /\ temporary' = "partial"
    /\ Placed("offhost", "partial")
    /\ UNCHANGED <<day, run, step, sound, tested, damage>>

\* cp writes to a hidden name.
BeginCopy ==
    /\ Doing("copy", "offhost") /\ temporary = "absent"
    /\ temporary' = "partial"
    /\ UNCHANGED <<day, run, step, archives, sound, tested, damage>>

EndCopy ==
    /\ Doing("copy", "offhost") /\ temporary = "partial"
    /\ Written(archives["local"][day], temporary')
    /\ Proceed
    /\ UNCHANGED <<day, archives, sound, tested>>

\* cp, chmod or mv fails, or the script is asked to end: the trap removes the copy.
RemoveCopy ==
    /\ Doing("copy", "offhost") \/ Doing("rename", "offhost")
    /\ temporary' = "absent"
    /\ GiveUp
    /\ UNCHANGED <<day, archives, sound, tested, damage>>

\* mv: the archive appears under its name at once.
Rename ==
    /\ Doing("rename", "offhost")
    /\ Placed("offhost", temporary)
    /\ temporary' = "absent"
    /\ Proceed
    /\ UNCHANGED <<day, sound, tested, damage>>

\* find -mtime +30 -delete.
Prune(p) ==
    /\ Doing("prune", p)
    /\ archives' = [archives EXCEPT ![p] =
                       [d \in Days |-> IF day - d > Keep THEN "absent" ELSE @[d]]]
    /\ Proceed
    /\ UNCHANGED <<day, temporary, sound, tested, damage>>

\* The script is killed: the files stay as they are.
KillScript ==
    /\ run \in {"migrating", "running"}
    /\ GiveUp
    /\ UNCHANGED <<day, archives, temporary, sound, tested, damage>>

\* What is left of an archive that may not have reached the disk.
Remains(file) == IF file = "absent" THEN {file} ELSE {file, "absent", "partial", "damaged"}

\* The host loses power: migrators and script end.  Nothing syncs what gpg has written,
\* and the archive of the day may be lost although its tests have passed; a copy off the
\* host has been sent when cp closes it.
PowerLoss ==
    /\ crashes < MaxCrashes /\ crashes' = crashes + 1
    /\ run' = (IF run = "due" THEN run ELSE "over") /\ step' = 1
    /\ \E file \in Remains(archives["local"][day]) : Placed("local", file)
    /\ phase' = [w \in Migrators |-> IF phase[w] = "applying" THEN "failed" ELSE phase[w]]
    /\ seen' = [w \in Migrators |-> {}]
    /\ next' = [w \in Migrators |-> 1]
    /\ UNCHANGED <<databaseVars, day, temporary, sound, tested, damage>>

\* A disk damages the database, or two writers fork the audit chain.
BreakDatabase ==
    /\ sound
    /\ sound' = FALSE
    /\ UNCHANGED <<day, run, step, archives, temporary, tested, damage>>

ScriptStep ==
    \/ Tick \/ StartScript \/ RefuseCommand
    \/ BeginCreate \/ EndCreate \/ FinishCreate \/ FailCreate
    \/ \E s \in Tests, p \in Places : PassTest(s, p) \/ FailTest(s, p)
    \/ BeginCopy \/ EndCopy \/ RemoveCopy \/ Rename
    \/ \E p \in Places : Prune(p)
    \/ KillScript \/ BreakDatabase

StorageNext ==
    \/ MigrationNext /\ UNCHANGED backupVars
    \/ StartUnits \/ PowerLoss
    \/ ScriptStep /\ UNCHANGED migrationVars

\* Migrators run, and those that failed are started again: at boots, by the timer.
StorageFairness ==
    \A w \in Migrators : WF_storageVars(MigratorStep(w) /\ UNCHANGED backupVars)

StorageInit ==
    /\ MigrationInit
    /\ BackupInit

StorageSpec == StorageInit /\ [][StorageNext]_storageVars /\ StorageFairness

-----------------------------------------------------------------------------
(***************************************************************************)
(* Properties                                                              *)
(***************************************************************************)

\* Every variable has its type, and at no moment of a run, however it ends, does half
\* a copy off the host bear the name of an archive (hermodr-backup, cp and mv).
StorageTypeOK ==
    /\ applied \in [Ids -> Digests \cup {None}]
    /\ schema \in Seq(Digests) /\ DOMAIN schema \subseteq Ids
    /\ phase \in [Migrators -> Phases]
    /\ seen \in [Migrators -> SUBSET Ids]
    /\ next \in [Migrators -> Nat \ {0}]
    /\ crashes \in 0..MaxCrashes
    /\ day \in Days /\ run \in Runs /\ step \in DOMAIN Commands
    /\ archives \in [Places -> [Days -> Files]]
    /\ \A d \in Days : archives["offhost"][d] # "partial"
    /\ temporary \in Files
    /\ sound \in BOOLEAN
    /\ tested \in 0..day
    /\ damage \in 0..MaxDamage

Intact(p) == {d \in Days : archives[p][d] = "whole"}

\* However many nights fail and whatever is damaged meanwhile, tidying never takes
\* the last archive of a directory that can be restored (hermodr-backup, find); only
\* a loss of power may, and only the one on the host.
LastGoodKept ==
    [][\A p \in Places :
          Intact(p) # {} => Intact(p)' # {} \/ (p = "local" /\ PowerLoss)]_storageVars

\* The copy off the host that was the last to pass its restore test can still be
\* restored, whatever later nights did before they failed, were killed or lost power
\* (hermodr-backup).
LastTestedRestorable == tested # 0 => archives["offhost"][tested] = "whole"
=============================================================================
