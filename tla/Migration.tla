----------------------------- MODULE Migration ------------------------------
(***************************************************************************)
(* Schema migrations (src/hermodr/database.py) as the unit                 *)
(* hermodr-migrate runs them, and operators beside it.  A migrator reads   *)
(* which migrations are applied, then applies the others one by one, each  *)
(* in a transaction of its own; nothing keeps a second one, perhaps of     *)
(* another build, from having read the same.                               *)
(***************************************************************************)
EXTENDS Integers, Sequences

CONSTANTS
    Migrators,  \* processes of "migrate up"
    Digests,    \* checksums of scripts
    Script,     \* Script[w]: the scripts of the build of w in their order
    None,       \* not applied
    MaxCrashes  \* bound: migrators killed and losses of power

ASSUME MigrationAssumption ==
    /\ Migrators # {}
    /\ Script \in [Migrators -> Seq(Digests)]
    /\ None \notin Digests
    /\ MaxCrashes \in Nat

Ids == UNION {DOMAIN Script[w] : w \in Migrators}

VARIABLES
    applied,  \* schema_migrations: the checksum by migration_id
    schema,   \* the scripts that have changed the database, in their order
    phase,    \* phase[w]: what w is about
    seen,     \* seen[w]: the migrations w has read as applied
    next,     \* next[w]: the migration w comes to
    crashes   \* migrators killed and losses of power

databaseVars == <<applied, schema>>
migrationVars == <<applied, schema, phase, seen, next, crashes>>

Phases == {"idle", "applying", "done", "failed"}

MigrationInit ==
    /\ applied = [m \in Ids |-> None]
    /\ schema = <<>>
    /\ phase = [w \in Migrators |-> "idle"]
    /\ seen = [w \in Migrators |-> {}]
    /\ next = [w \in Migrators |-> 1]
    /\ crashes = 0

Applied == {m \in Ids : applied[m] # None}

\* Mutant: the row of the table is there, its checksum is not compared.
AnyScript(w, m) == TRUE

\* The script of the build is the one that was applied.
Unedited(w, m) == applied[m] = Script[w][m]

\* Mutant: migrate takes the database to be new.
ReadNothing(w) ==
    /\ phase[w] = "idle"
    /\ phase' = [phase EXCEPT ![w] = "applying"]
    /\ UNCHANGED <<databaseVars, seen, next, crashes>>

\* The process of w ends so; what it has read is gone with it.
Ends(w, how) ==
    /\ phase' = [phase EXCEPT ![w] = how]
    /\ seen' = [seen EXCEPT ![w] = {}]
    /\ next' = [next EXCEPT ![w] = 1]

\* migrate reads schema_migrations.
ReadApplied(w) ==
    /\ phase[w] = "idle"
    /\ phase' = [phase EXCEPT ![w] = "applying"]
    /\ seen' = [seen EXCEPT ![w] = Applied]
    /\ UNCHANGED <<databaseVars, next, crashes>>

\* One that was applied when w read is passed over; migration_checksum_mismatch.
SkipMigration(w) ==
    LET m == next[w]
    IN  /\ phase[w] = "applying"
        /\ m \in DOMAIN Script[w] /\ m \in seen[w]
        /\ IF Unedited(w, m)
           THEN next' = [next EXCEPT ![w] = m + 1] /\ UNCHANGED <<phase, seen>>
           ELSE Ends(w, "failed")
        /\ UNCHANGED <<databaseVars, crashes>>

\* The tables of the script, and its row of schema_migrations, exist already.
Taken(m) == applied[m] # None

\* The transaction of one migration: script and row, or neither.
ApplyMigration(w) ==
    LET m == next[w]
    IN  /\ phase[w] = "applying"
        /\ m \in DOMAIN Script[w] /\ m \notin seen[w]
        /\ IF Taken(m)
           THEN Ends(w, "failed") /\ UNCHANGED databaseVars
           ELSE /\ applied' = [applied EXCEPT ![m] = Script[w][m]]
                /\ schema' = Append(schema, Script[w][m])
                /\ next' = [next EXCEPT ![w] = m + 1]
                /\ UNCHANGED <<phase, seen>>
        /\ UNCHANGED crashes

FinishMigration(w) ==
    /\ phase[w] = "applying"
    /\ next[w] \notin DOMAIN Script[w]
    /\ Ends(w, "done")
    /\ UNCHANGED <<databaseVars, crashes>>

\* A kill or a power failure; an open transaction is rolled back.
KillMigrator(w) ==
    /\ phase[w] = "applying"
    /\ crashes < MaxCrashes
    /\ crashes' = crashes + 1
    /\ Ends(w, "failed")
    /\ UNCHANGED databaseVars

\* systemd does not restart the unit, but boots, and units that require it, start
\* it again; an operator repeats the command.
StartAgain(w) ==
    /\ phase[w] \in {"done", "failed"}
    /\ phase' = [phase EXCEPT ![w] = "idle"]
    /\ UNCHANGED <<databaseVars, seen, next, crashes>>

MigratorStep(w) ==
    ReadApplied(w) \/ SkipMigration(w) \/ ApplyMigration(w) \/ FinishMigration(w) \/ StartAgain(w)

MigrationNext == \E w \in Migrators : MigratorStep(w) \/ KillMigrator(w)

-----------------------------------------------------------------------------
(***************************************************************************)
(* Properties                                                              *)
(***************************************************************************)

\* The scripts that have changed the database are the first ones of this build.
Begins(w) == \A m \in DOMAIN schema : m \in DOMAIN Script[w] /\ schema[m] = Script[w][m]

\* However migrators of several builds race and die (database.py, migrate), every
\* script has changed the database at most once, in its order, exactly if its row
\* says so, and the scripts are those of one build: no mixture.
SchemaOnce ==
    /\ Applied = DOMAIN schema
    /\ \A m \in Applied : schema[m] = applied[m]
    /\ \E w \in Migrators : Begins(w)

\* A migrator that lost a race or was killed is no obstacle (database.py, migrate):
\* in the end no build whose scripts the database begins with has scripts left.
MigrationsComplete ==
    <>[](\A w \in Migrators : Begins(w) => schema = Script[w])
=============================================================================
