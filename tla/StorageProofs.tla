--------------------------- MODULE StorageProofs ----------------------------
(***************************************************************************)
(* Proofs about Migration and Storage, for all builds and migrators, every *)
(* number of days, of damaged archives and of losses of power.             *)
(***************************************************************************)
EXTENDS Storage, TLAPS

-----------------------------------------------------------------------------
(***************************************************************************)
(* Migrations                                                              *)
(***************************************************************************)

\* Where w has come to, the schema is that of its scripts; it has seen no more
\* than what is applied.
Underway(w) ==
    /\ seen[w] \subseteq Applied
    /\ \A m \in 1..(next[w] - 1) :
          m \in DOMAIN schema /\ m \in DOMAIN Script[w] /\ schema[m] = Script[w][m]

MigrationType ==
    /\ applied \in [Ids -> Digests \cup {None}]
    /\ schema \in Seq(Digests) /\ DOMAIN schema \subseteq Ids
    /\ phase \in [Migrators -> Phases]
    /\ seen \in [Migrators -> SUBSET Ids]
    /\ next \in [Migrators -> Nat \ {0}]
    /\ crashes \in 0..MaxCrashes

MigrationInvariant == MigrationType /\ SchemaOnce /\ \A w \in Migrators : Underway(w)

LEMMA ScriptType ==
    ASSUME NEW w \in Migrators
    PROVE  /\ Script[w] \in Seq(Digests)
           /\ DOMAIN Script[w] \subseteq Ids
           /\ \A m \in DOMAIN Script[w] : Script[w][m] \in Digests /\ m \in Nat \ {0}
           /\ \A m \in DOMAIN Script[w] : 1..m \subseteq DOMAIN Script[w]
<1>1. Script[w] \in Seq(Digests)
    BY MigrationAssumption
<1>2. DOMAIN Script[w] = 1..Len(Script[w]) /\ Len(Script[w]) \in Nat
    BY <1>1
<1>3. \A m \in DOMAIN Script[w] : Script[w][m] \in Digests /\ m \in Nat \ {0}
    BY <1>1, <1>2
<1>4. DOMAIN Script[w] \subseteq Ids
    BY DEF Ids
<1> QED
    BY <1>1, <1>2, <1>3, <1>4

LEMMA MigrationStart == MigrationInit => MigrationInvariant
<1> SUFFICES ASSUME MigrationInit PROVE MigrationInvariant
    OBVIOUS
<1>1. schema \in Seq(Digests) /\ DOMAIN schema = {}
    BY DEF MigrationInit
<1>2. Applied = {}
    BY DEF MigrationInit, Applied
<1>3. MigrationType
    BY <1>1, MigrationAssumption DEF MigrationInit, MigrationType, Phases
<1>4. SchemaOnce
    BY <1>1, <1>2, MigrationAssumption DEF SchemaOnce, Begins
<1>5. ASSUME NEW w \in Migrators
      PROVE  Underway(w)
    <2>1. seen[w] = {} /\ next[w] = 1
        BY DEF MigrationInit
    <2> QED
        BY <2>1 DEF Underway
<1> QED
    BY <1>3, <1>4, <1>5 DEF MigrationInvariant

\* A migration that w applies is the next one of the database.
LEMMA AppliesNext ==
    ASSUME MigrationInvariant, NEW w \in Migrators,
           next[w] \in DOMAIN Script[w], ~Taken(next[w])
    PROVE  next[w] = Len(schema) + 1
<1>1. next[w] \in Nat \ {0} /\ next[w] \in Ids
    BY ScriptType DEF MigrationInvariant, MigrationType
<1>2. next[w] \notin Applied
    BY DEF Applied, Taken
<1>3. DOMAIN schema = 1..Len(schema) /\ Len(schema) \in Nat
    BY DEF MigrationInvariant, MigrationType
<1>4. next[w] \notin DOMAIN schema
    BY <1>2 DEF MigrationInvariant, SchemaOnce
<1>5. \A m \in 1..(next[w] - 1) : m \in DOMAIN schema
    BY DEF MigrationInvariant, Underway
<1>6. next[w] = 1 \/ next[w] - 1 \in DOMAIN schema
    BY <1>1, <1>5
<1> QED
    BY <1>1, <1>3, <1>4, <1>6

\* The transaction of one migration.
LEMMA AppliesOnce ==
    ASSUME MigrationInvariant, NEW w \in Migrators, ApplyMigration(w), ~Taken(next[w])
    PROVE  MigrationInvariant'
<1> DEFINE m == next[w]
<1>1. /\ m \in DOMAIN Script[w]
      /\ applied' = [applied EXCEPT ![m] = Script[w][m]]
      /\ schema' = Append(schema, Script[w][m])
      /\ next' = [next EXCEPT ![w] = m + 1]
      /\ UNCHANGED <<phase, seen, crashes>>
    BY DEF ApplyMigration
<1>2. m = Len(schema) + 1 /\ m \in Nat \ {0} /\ m \in Ids /\ Script[w][m] \in Digests
    BY <1>1, AppliesNext, ScriptType
<1>3. schema \in Seq(Digests) /\ DOMAIN schema = 1..Len(schema) /\ Len(schema) \in Nat
    BY DEF MigrationInvariant, MigrationType
<1>4. /\ schema' \in Seq(Digests)
      /\ DOMAIN schema' = DOMAIN schema \cup {m}
      /\ schema'[m] = Script[w][m]
      /\ \A k \in DOMAIN schema : schema'[k] = schema[k]
    BY <1>1, <1>2, <1>3
<1>5. applied \in [Ids -> Digests \cup {None}] /\ None \notin Digests
    BY MigrationAssumption DEF MigrationInvariant, MigrationType
<1>6. Applied' = Applied \cup {m}
    BY <1>1, <1>2, <1>5 DEF Applied
<1>7. MigrationType'
    <2>1. next' \in [Migrators -> Nat \ {0}]
        BY <1>1, <1>2 DEF MigrationInvariant, MigrationType
    <2>2. applied' \in [Ids -> Digests \cup {None}]
        BY <1>1, <1>2, <1>5
    <2> QED
        BY <1>1, <1>2, <1>4, <2>1, <2>2 DEF MigrationInvariant, MigrationType
<1>8. \A v \in Migrators : Underway(v)'
    <2> SUFFICES ASSUME NEW v \in Migrators PROVE Underway(v)'
        OBVIOUS
    <2>1. Underway(v)
        BY DEF MigrationInvariant
    <2>2. seen'[v] \subseteq Applied'
        BY <1>1, <1>6, <2>1 DEF Underway
    <2>3. CASE v = w
        <3>1. next'[v] = m + 1
            BY <1>1, <2>3 DEF MigrationInvariant, MigrationType
        <3>2. \A k \in 1..m : k \in 1..(m - 1) \/ k = m
            BY <1>2
        <3>3. \A k \in 1..m : k \in DOMAIN schema' /\ k \in DOMAIN Script[w] /\ schema'[k] = Script[w][k]
            BY <3>2, <1>1, <1>4, <2>1, <2>3 DEF Underway
        <3> QED
            BY <1>2, <2>2, <2>3, <3>1, <3>3 DEF Underway
    <2>4. CASE v # w
        <3>1. next'[v] = next[v]
            BY <1>1, <2>4 DEF MigrationInvariant, MigrationType
        <3> QED
            BY <1>4, <2>1, <2>2, <3>1 DEF Underway
    <2> QED
        BY <2>3, <2>4
<1>9. SchemaOnce'
    <2>1. Applied' = DOMAIN schema'
        BY <1>4, <1>6 DEF MigrationInvariant, SchemaOnce
    <2>2. \A k \in Applied' : schema'[k] = applied'[k]
        <3> SUFFICES ASSUME NEW k \in Applied' PROVE schema'[k] = applied'[k]
            OBVIOUS
        <3>1. CASE k = m
            BY <3>1, <1>1, <1>2, <1>4, <1>5
        <3>2. CASE k # m
            <4>1. k \in Applied /\ k \in Ids /\ k \in DOMAIN schema
                BY <3>2, <1>6 DEF Applied, MigrationInvariant, SchemaOnce
            <4> QED
                BY <4>1, <3>2, <1>1, <1>4, <1>5 DEF MigrationInvariant, SchemaOnce
        <3> QED
            BY <3>1, <3>2
    <2>3. Begins(w)'
        <3>1. Underway(w)
            BY DEF MigrationInvariant
        <3>2. \A k \in DOMAIN schema : k \in 1..(m - 1)
            BY <1>2, <1>3
        <3>3. \A k \in DOMAIN schema' : k \in DOMAIN Script[w] /\ schema'[k] = Script[w][k]
            BY <1>1, <1>4, <3>1, <3>2 DEF Underway
        <3> QED
            BY <3>3 DEF Begins
    <2> QED
        BY <2>1, <2>2, <2>3 DEF SchemaOnce
<1> QED
    BY <1>7, <1>8, <1>9 DEF MigrationInvariant

\* What leaves the database as it is keeps what is said of it.
LEMMA DatabaseStays ==
    ASSUME MigrationInvariant, UNCHANGED databaseVars, MigrationType',
           \A w \in Migrators : Underway(w)'
    PROVE  MigrationInvariant'
BY DEF MigrationInvariant, SchemaOnce, Begins, Applied, databaseVars

\* So does a step of a process that ends.
LEMMA ProcessEnds ==
    ASSUME MigrationInvariant, NEW w \in Migrators, NEW how \in Phases, Ends(w, how),
           UNCHANGED databaseVars, crashes' \in 0..MaxCrashes
    PROVE  MigrationInvariant'
<1>1. MigrationType'
    BY DEF MigrationInvariant, MigrationType, Ends, databaseVars
<1>2. \A v \in Migrators : Underway(v)'
    <2> SUFFICES ASSUME NEW v \in Migrators PROVE Underway(v)'
        OBVIOUS
    <2>1. Underway(v) /\ Applied' = Applied /\ schema' = schema
        BY DEF MigrationInvariant, Applied, databaseVars
    <2>2. CASE v = w
        <3>1. seen'[v] = {} /\ next'[v] = 1
            BY <2>2 DEF MigrationInvariant, MigrationType, Ends
        <3> QED
            BY <3>1 DEF Underway
    <2>3. CASE v # w
        <3>1. seen'[v] = seen[v] /\ next'[v] = next[v]
            BY <2>3 DEF MigrationInvariant, MigrationType, Ends
        <3> QED
            BY <2>1, <3>1 DEF Underway
    <2> QED
        BY <2>2, <2>3
<1> QED
    BY <1>1, <1>2, DatabaseStays

\* And a step that changes the phase of a process only.
LEMMA PhaseOnly ==
    ASSUME MigrationInvariant, phase' \in [Migrators -> Phases],
           UNCHANGED <<databaseVars, seen, next, crashes>>
    PROVE  MigrationInvariant'
<1>1. MigrationType'
    BY DEF MigrationInvariant, MigrationType, databaseVars
<1>2. \A v \in Migrators : Underway(v)'
    BY DEF MigrationInvariant, Underway, Applied, databaseVars
<1> QED
    BY <1>1, <1>2, DatabaseStays

LEMMA MigrationStep ==
    ASSUME MigrationInvariant, MigrationNext
    PROVE  MigrationInvariant'
<1> PICK w \in Migrators : MigratorStep(w) \/ KillMigrator(w)
    BY DEF MigrationNext
<1> USE DEF Phases
<1>1. CASE ReadApplied(w)
    <2>1. MigrationType'
        <3>1. Applied \subseteq Ids
            BY DEF Applied
        <3> QED
            BY <1>1, <3>1 DEF ReadApplied, MigrationInvariant, MigrationType, databaseVars
    <2>2. \A v \in Migrators : Underway(v)'
        <3> SUFFICES ASSUME NEW v \in Migrators PROVE Underway(v)'
            OBVIOUS
        <3>1. Underway(v) /\ Applied' = Applied /\ schema' = schema /\ next' = next
            BY <1>1 DEF MigrationInvariant, Applied, ReadApplied, databaseVars
        <3>2. seen'[v] = Applied \/ seen'[v] = seen[v]
            BY <1>1 DEF MigrationInvariant, MigrationType, ReadApplied
        <3> QED
            BY <3>1, <3>2 DEF Underway
    <2> QED
        BY <1>1, <2>1, <2>2, DatabaseStays DEF ReadApplied
<1>2. CASE SkipMigration(w)
    <2> DEFINE m == next[w]
    <2>1. /\ m \in DOMAIN Script[w] /\ m \in seen[w]
          /\ UNCHANGED databaseVars /\ UNCHANGED crashes
        BY <1>2 DEF SkipMigration
    <2>2. CASE Unedited(w, m)
        <3>1. next' = [next EXCEPT ![w] = m + 1] /\ UNCHANGED <<phase, seen>>
            BY <1>2, <2>2 DEF SkipMigration
        <3>2. m \in Nat \ {0}
            BY DEF MigrationInvariant, MigrationType
        <3>3. MigrationType'
            BY <2>1, <3>1, <3>2 DEF MigrationInvariant, MigrationType, databaseVars
        <3>4. \A v \in Migrators : Underway(v)'
            <4> SUFFICES ASSUME NEW v \in Migrators PROVE Underway(v)'
                OBVIOUS
            <4>1. Underway(v) /\ Applied' = Applied /\ schema' = schema /\ seen' = seen
                BY <2>1, <3>1 DEF MigrationInvariant, Applied, databaseVars
            <4>2. CASE v = w
                <5>1. next'[v] = m + 1
                    BY <3>1, <4>2 DEF MigrationInvariant, MigrationType
                <5>2. m \in DOMAIN schema /\ schema[m] = Script[w][m]
                    BY <2>1, <2>2, <4>1, <4>2
                       DEF Underway, Unedited, MigrationInvariant, SchemaOnce
                <5>3. \A k \in 1..m : k \in 1..(m - 1) \/ k = m
                    BY <3>2
                <5>4. \A k \in 1..m : k \in DOMAIN schema /\ k \in DOMAIN Script[v] /\ schema[k] = Script[v][k]
                    BY <2>1, <4>1, <4>2, <5>2, <5>3 DEF Underway
                <5> QED
                    BY <3>2, <4>1, <5>1, <5>4 DEF Underway
            <4>3. CASE v # w
                <5>1. next'[v] = next[v]
                    BY <3>1, <4>3 DEF MigrationInvariant, MigrationType
                <5> QED
                    BY <4>1, <5>1 DEF Underway
            <4> QED
                BY <4>2, <4>3
        <3> QED
            BY <2>1, <3>3, <3>4, DatabaseStays
    <2>3. CASE ~Unedited(w, m)
        <3>1. Ends(w, "failed")
            BY <1>2, <2>3 DEF SkipMigration
        <3>2. crashes' \in 0..MaxCrashes
            BY <2>1 DEF MigrationInvariant, MigrationType
        <3> QED
            BY <2>1, <3>1, <3>2, ProcessEnds
    <2> QED
        BY <2>2, <2>3
<1>3. CASE ApplyMigration(w)
    <2>1. CASE Taken(next[w])
        <3>1. Ends(w, "failed") /\ UNCHANGED databaseVars /\ crashes' \in 0..MaxCrashes
            BY <1>3, <2>1 DEF ApplyMigration, MigrationInvariant, MigrationType
        <3> QED
            BY <3>1, ProcessEnds
    <2> QED
        BY <1>3, <2>1, AppliesOnce
<1>4. CASE FinishMigration(w)
    <2>1. Ends(w, "done") /\ UNCHANGED databaseVars /\ crashes' \in 0..MaxCrashes
        BY <1>4 DEF FinishMigration, MigrationInvariant, MigrationType
    <2> QED
        BY <2>1, ProcessEnds
<1>5. CASE StartAgain(w)
    <2>1. phase' \in [Migrators -> Phases] /\ UNCHANGED <<databaseVars, seen, next, crashes>>
        BY <1>5 DEF StartAgain, MigrationInvariant, MigrationType
    <2> QED
        BY <2>1, PhaseOnly
<1>6. CASE KillMigrator(w)
    <2>1. Ends(w, "failed") /\ UNCHANGED databaseVars /\ crashes' \in 0..MaxCrashes
        BY <1>6, MigrationAssumption DEF KillMigrator, MigrationInvariant, MigrationType
    <2> QED
        BY <2>1, ProcessEnds
<1> QED
    BY <1>1, <1>2, <1>3, <1>4, <1>5, <1>6 DEF MigratorStep

-----------------------------------------------------------------------------
(***************************************************************************)
(* Backups                                                                 *)
(***************************************************************************)

\* What is known of the archive of the day as the script goes on: none before it
\* runs, none off the host before it is renamed, intact ones once they are tested.
Reached ==
    /\ \A p \in Places, d \in Days : d > day => archives[p][d] = "absent"
    /\ run # "running" => step = 1
    /\ run \in {"due", "migrating"} =>
          tested < day /\ \A p \in Places : archives[p][day] = "absent"
    /\ run = "running" =>
          /\ step <= 5 => archives["offhost"][day] = "absent"
          /\ step > 2 => archives["local"][day] = "whole"
          /\ step = 5 => temporary # "partial"
          /\ step > 6 => archives["offhost"][day] = "whole"
          /\ IF step > 7 THEN tested = day ELSE tested < day

\* A partial copy off the host has a name of its own.
OffhostComplete == \A d \in Days : archives["offhost"][d] # "partial"

BackupType ==
    /\ day \in Days /\ run \in Runs /\ step \in 1..9
    /\ archives \in [Places -> [Days -> Files]]
    /\ temporary \in Files
    /\ sound \in BOOLEAN
    /\ tested \in 0..day
    /\ damage \in 0..MaxDamage

BackupInvariant == BackupType /\ Reached /\ OffhostComplete /\ LastTestedRestorable

StorageInvariant == MigrationInvariant /\ BackupInvariant

\* Where the script is when it does what.
LEMMA ScriptOrder ==
    ASSUME step \in 1..9
    PROVE  /\ DOMAIN Commands = 1..9 /\ Len(Commands) = 9
           /\ Doing("create", "local") => run = "running" /\ step = 1
           /\ Doing("verify", "local") => run = "running" /\ step = 2
           /\ Doing("restore_test", "local") => run = "running" /\ step = 3
           /\ Doing("copy", "offhost") => run = "running" /\ step = 4
           /\ Doing("rename", "offhost") => run = "running" /\ step = 5
           /\ Doing("verify", "offhost") => run = "running" /\ step = 6
           /\ Doing("restore_test", "offhost") => run = "running" /\ step = 7
           /\ Doing("prune", "local") => run = "running" /\ step = 8
           /\ Doing("prune", "offhost") => run = "running" /\ step = 9
<1>1. DOMAIN Commands = 1..9 /\ Len(Commands) = 9
    BY DEF Commands
<1>2. \/ step = 1 /\ Commands[step] = <<"create", "local">>
      \/ step = 2 /\ Commands[step] = <<"verify", "local">>
      \/ step = 3 /\ Commands[step] = <<"restore_test", "local">>
      \/ step = 4 /\ Commands[step] = <<"copy", "offhost">>
      \/ step = 5 /\ Commands[step] = <<"rename", "offhost">>
      \/ step = 6 /\ Commands[step] = <<"verify", "offhost">>
      \/ step = 7 /\ Commands[step] = <<"restore_test", "offhost">>
      \/ step = 8 /\ Commands[step] = <<"prune", "local">>
      \/ step = 9 /\ Commands[step] = <<"prune", "offhost">>
    BY DEF Commands
<1> QED
    BY <1>1, <1>2 DEF Doing

LEMMA BackupStart == BackupInit => BackupInvariant
<1> SUFFICES ASSUME BackupInit PROVE BackupInvariant
    OBVIOUS
<1> USE DEF BackupInit
<1>1. BackupType
    BY StorageAssumption DEF BackupType, Days, Runs, Places, Files
<1>2. Reached
    BY StorageAssumption DEF Reached, Days, Places
<1>3. OffhostComplete
    BY DEF OffhostComplete, Places
<1>4. LastTestedRestorable
    BY DEF LastTestedRestorable
<1> QED
    BY <1>1, <1>2, <1>3, <1>4 DEF BackupInvariant

\* The script goes on, or is over.
LEMMA Onward ==
    ASSUME step \in 1..9, run = "running", Proceed
    PROVE  /\ step # 9 => run' = "running" /\ step' = step + 1
           /\ step = 9 => run' = "over" /\ step' = 1
<1>1. Len(Commands) = 9
    BY ScriptOrder
<1> QED
    BY <1>1 DEF Proceed

\* What an action does that leaves the archives as they are.
LEMMA ArchivesStay ==
    ASSUME BackupInvariant, UNCHANGED archives
    PROVE  /\ OffhostComplete'
           /\ \A p \in Places : Intact(p)' = Intact(p)
           /\ UNCHANGED tested => LastTestedRestorable'
BY DEF BackupInvariant, OffhostComplete, Intact, LastTestedRestorable

LEMMA DayType ==
    ASSUME day \in Days
    PROVE  day \in Nat \ {0} /\ MaxDays \in Nat \ {0} /\ day <= MaxDays
BY StorageAssumption DEF Days

\* A new file takes the name of the day.
LEMMA FilePlaced ==
    ASSUME BackupInvariant, NEW p \in Places, NEW file \in Files, Placed(p, file),
           archives[p][day] # "whole"
    PROVE  /\ archives' \in [Places -> [Days -> Files]]
           /\ archives'[p][day] = file
           /\ \A q \in Places, d \in Days :
                 q # p \/ d # day => archives'[q][d] = archives[q][d]
           /\ \A q \in Places : Intact(q) \subseteq Intact(q)'
<1>1. archives \in [Places -> [Days -> Files]] /\ day \in Days
    BY DEF BackupInvariant, BackupType
<1>2. /\ archives' \in [Places -> [Days -> Files]]
      /\ archives'[p][day] = file
      /\ \A q \in Places, d \in Days :
            q # p \/ d # day => archives'[q][d] = archives[q][d]
    BY <1>1 DEF Placed
<1> QED
    BY <1>1, <1>2 DEF Intact

\* What changes on the host only keeps what is said of the copies off the host.
LEMMA OffhostKept ==
    ASSUME BackupInvariant, UNCHANGED tested,
           \A q \in Places, d \in Days : q # "local" \/ d # day => archives'[q][d] = archives[q][d]
    PROVE  OffhostComplete' /\ LastTestedRestorable' /\ Intact("offhost")' = Intact("offhost")
<1>1. \A d \in Days : archives'["offhost"][d] = archives["offhost"][d]
    BY DEF Places
<1>2. tested # 0 => tested \in Days
    BY DayType DEF BackupInvariant, BackupType, Days
<1> QED
    BY <1>1, <1>2 DEF BackupInvariant, OffhostComplete, LastTestedRestorable, Intact

-----------------------------------------------------------------------------
(***************************************************************************)
(* One step of the script                                                  *)
(***************************************************************************)

\* What every step of the script keeps; an intact archive in every place with one.
StepKeeps == BackupInvariant' /\ \A p \in Places : Intact(p) # {} => Intact(p)' # {}

LEMMA TickKeeps ==
    ASSUME BackupInvariant, Tick
    PROVE  StepKeeps
<1> USE DEF Tick
<1>1. BackupType /\ Reached
    BY DEF BackupInvariant
<1>2. day' \in Days /\ day' = day + 1
    BY <1>1, DayType DEF BackupType, Days
<1>3. BackupType'
    <2>1. tested' \in 0..day' /\ tested' < day'
        BY <1>1, <1>2, DayType DEF BackupType
    <2> QED
        BY <1>1, <1>2, <2>1 DEF BackupType, Runs, Files
<1>4. Reached'
    <2>1. \A p \in Places, d \in Days : d > day' => archives'[p][d] = "absent"
        BY <1>1, <1>2, DayType DEF BackupType, Reached, Days
    <2>2. \A p \in Places : archives'[p][day'] = "absent"
        BY <1>1, <1>2, DayType DEF BackupType, Reached, Days
    <2>3. step' = 1 /\ tested' < day'
        BY <1>1, <1>2, DayType DEF BackupType, Reached
    <2> QED
        BY <2>1, <2>2, <2>3 DEF Reached
<1> QED
    BY <1>3, <1>4, ArchivesStay DEF BackupInvariant, StepKeeps

\* The script starts, or what it needs keeps it from starting.
LEMMA StartKeeps ==
    ASSUME BackupInvariant, StartScript \/ StartUnits
    PROVE  StepKeeps
<1>1. BackupType /\ Reached
    BY DEF BackupInvariant
<1>2. /\ UNCHANGED <<day, step, archives, temporary, sound, tested, damage>>
      /\ run \in {"due", "migrating"}
      /\ run' \in {"migrating", "running", "over"}
    BY DEF StartScript, StartUnits
<1>3. BackupType'
    BY <1>1, <1>2 DEF BackupType, Runs
<1>4. Reached'
    BY <1>1, <1>2 DEF Reached, Places
<1> QED
    BY <1>2, <1>3, <1>4, ArchivesStay DEF BackupInvariant, StepKeeps

\* The script ends early, or is killed.
LEMMA GiveUpKeeps ==
    ASSUME BackupInvariant, GiveUp, UNCHANGED <<day, archives, sound, tested, damage>>,
           temporary' \in Files
    PROVE  StepKeeps
<1>1. BackupType /\ Reached
    BY DEF BackupInvariant
<1>2. BackupType'
    BY <1>1 DEF BackupType, GiveUp, Runs
<1>3. Reached'
    BY <1>1 DEF Reached, GiveUp
<1> QED
    BY <1>2, <1>3, ArchivesStay DEF BackupInvariant, StepKeeps

LEMMA BeginCreateKeeps ==
    ASSUME BackupInvariant, BeginCreate
    PROVE  StepKeeps
<1> USE DEF BeginCreate
<1>1. BackupType /\ Reached /\ step = 1 /\ run = "running"
    BY ScriptOrder DEF BackupInvariant, BackupType
<1>2. "local" \in Places /\ "partial" \in Files /\ Placed("local", "partial")
    BY DEF Places, Files
<1>3. /\ archives' \in [Places -> [Days -> Files]]
      /\ \A q \in Places, d \in Days : q # "local" \/ d # day => archives'[q][d] = archives[q][d]
      /\ \A q \in Places : Intact(q) \subseteq Intact(q)'
    BY <1>2, FilePlaced
<1>4. BackupType'
    BY <1>1, <1>3 DEF BackupType
<1>5. Reached'
    BY <1>1, <1>3, DayType DEF BackupType, Reached, Places, Days
<1>6. OffhostComplete' /\ LastTestedRestorable'
    BY <1>3, OffhostKept
<1>7. \A p \in Places : Intact(p) # {} => Intact(p)' # {}
    BY <1>3
<1> QED
    BY <1>4, <1>5, <1>6, <1>7 DEF BackupInvariant, StepKeeps

\* What a write leaves of a file.
LEMMA WrittenType ==
    ASSUME damage \in 0..MaxDamage, NEW f, NEW g, Written(f, g)
    PROVE  (g = f \/ g = "damaged") /\ damage' \in 0..MaxDamage
BY StorageAssumption DEF Written

LEMMA EndCreateKeeps ==
    ASSUME BackupInvariant, EndCreate
    PROVE  StepKeeps
<1>1. BackupType /\ Reached /\ step = 1 /\ run = "running"
    BY ScriptOrder DEF BackupInvariant, BackupType, EndCreate
<1>2. PICK file \in Files : Written("whole", file) /\ Placed("local", file)
    BY DEF EndCreate
<1>3. UNCHANGED <<day, run, step, temporary, sound, tested>>
    BY DEF EndCreate
<1>4. damage' \in 0..MaxDamage
    BY <1>1, <1>2, WrittenType DEF BackupType
<1>5. /\ archives' \in [Places -> [Days -> Files]]
      /\ \A q \in Places, d \in Days : q # "local" \/ d # day => archives'[q][d] = archives[q][d]
      /\ \A q \in Places : Intact(q) \subseteq Intact(q)'
    BY <1>2, FilePlaced DEF EndCreate, Places
<1>6. BackupType'
    BY <1>1, <1>3, <1>4, <1>5 DEF BackupType
<1>7. Reached'
    BY <1>1, <1>3, <1>5, DayType DEF BackupType, Reached, Places, Days
<1>8. OffhostComplete' /\ LastTestedRestorable'
    BY <1>3, <1>5, OffhostKept
<1>9. \A p \in Places : Intact(p) # {} => Intact(p)' # {}
    BY <1>5
<1> QED
    BY <1>6, <1>7, <1>8, <1>9 DEF BackupInvariant, StepKeeps

LEMMA FinishCreateKeeps ==
    ASSUME BackupInvariant, FinishCreate
    PROVE  StepKeeps
<1>1. BackupType /\ Reached /\ step = 1 /\ run = "running"
    BY ScriptOrder DEF BackupInvariant, BackupType, FinishCreate
<1>2. UNCHANGED <<day, archives, temporary, sound, tested, damage>>
    BY DEF FinishCreate
<1>3. run' = "running" /\ step' = 2
    BY <1>1, Onward DEF BackupType, FinishCreate
<1>4. BackupType' /\ Reached'
    BY <1>1, <1>2, <1>3 DEF BackupType, Reached, Runs
<1> QED
    BY <1>2, <1>4, ArchivesStay DEF BackupInvariant, StepKeeps

\* A test that passes has found an intact archive.
LEMMA PassTestKeeps ==
    ASSUME BackupInvariant, NEW s \in Tests, NEW p \in Places, PassTest(s, p)
    PROVE  StepKeeps
<1>1. /\ BackupType /\ Reached
      /\ UNCHANGED <<day, archives, temporary, sound, damage>>
      /\ archives[p][day] = "whole"
    BY DEF BackupInvariant, PassTest, Reconciles
<1>2. \/ run = "running" /\ step \in {2, 3, 6} /\ tested' = tested
      \/ run = "running" /\ step = 7 /\ tested' = day /\ p = "offhost"
    BY <1>1, ScriptOrder DEF BackupType, PassTest, Tests, Places
<1>3. /\ step = 2 \/ step = 3 => p = "local"
      /\ step = 6 \/ step = 7 => p = "offhost"
    BY <1>1, ScriptOrder DEF BackupType, PassTest, Tests, Places
<1>4. run' = "running" /\ step' = step + 1
    BY <1>1, <1>2, Onward DEF BackupType, PassTest
<1>5. BackupType'
    BY <1>1, <1>2, <1>4, DayType DEF BackupType, Runs
<1>6. Reached'
    BY <1>1, <1>2, <1>3, <1>4 DEF Reached
<1>7. LastTestedRestorable'
    BY <1>1, <1>2 DEF BackupInvariant, LastTestedRestorable
<1> QED
    BY <1>1, <1>5, <1>6, <1>7, ArchivesStay DEF BackupInvariant, StepKeeps

\* The copy is written under its hidden name.
LEMMA CopyKeeps ==
    ASSUME BackupInvariant, BeginCopy \/ EndCopy
    PROVE  StepKeeps
<1>1. BackupType /\ Reached /\ UNCHANGED <<day, archives, sound, tested>>
    BY DEF BackupInvariant, BeginCopy, EndCopy
<1>2. run = "running" /\ step = 4
    BY <1>1, ScriptOrder DEF BackupType, BeginCopy, EndCopy
<1>3. CASE BeginCopy
    <2>1. BackupType' /\ Reached'
        BY <1>1, <1>2, <1>3 DEF BackupType, Reached, BeginCopy, Files
    <2> QED
        BY <1>1, <2>1, ArchivesStay DEF BackupInvariant, StepKeeps
<1>4. CASE EndCopy
    <2>1. temporary' \in {"whole", "damaged"} /\ damage' \in 0..MaxDamage
        BY <1>1, <1>2, <1>4, WrittenType DEF BackupType, Reached, EndCopy
    <2>2. run' = "running" /\ step' = 5
        BY <1>1, <1>2, <1>4, Onward DEF BackupType, EndCopy
    <2>3. BackupType' /\ Reached'
        BY <1>1, <1>2, <2>1, <2>2 DEF BackupType, Reached, Files, Runs
    <2> QED
        BY <1>1, <2>3, ArchivesStay DEF BackupInvariant, StepKeeps
<1> QED
    BY <1>3, <1>4

LEMMA RenameKeeps ==
    ASSUME BackupInvariant, Rename
    PROVE  StepKeeps
<1> USE DEF Rename
<1>1. BackupType /\ Reached /\ step = 5 /\ run = "running"
    BY ScriptOrder DEF BackupInvariant, BackupType
<1>2. archives["offhost"][day] = "absent" /\ temporary # "partial"
    BY <1>1 DEF Reached
<1>3. /\ archives' \in [Places -> [Days -> Files]]
      /\ archives'["offhost"][day] = temporary
      /\ \A q \in Places, d \in Days : q # "offhost" \/ d # day => archives'[q][d] = archives[q][d]
      /\ \A q \in Places : Intact(q) \subseteq Intact(q)'
    BY <1>1, <1>2, FilePlaced DEF BackupType, Places
<1>4. run' = "running" /\ step' = 6
    BY <1>1, Onward DEF BackupType
<1>5. BackupType'
    BY <1>1, <1>3, <1>4 DEF BackupType, Runs, Files
<1>6. Reached'
    BY <1>1, <1>3, <1>4, DayType DEF BackupType, Reached, Places, Days
<1>7. OffhostComplete'
    BY <1>2, <1>3 DEF BackupInvariant, OffhostComplete, Places
<1>8. LastTestedRestorable'
    <2>1. tested' = tested /\ tested < day /\ (tested # 0 => tested \in Days)
        BY <1>1, DayType DEF BackupType, Reached, Days
    <2>2. tested # 0 => archives'["offhost"][tested] = archives["offhost"][tested]
        BY <1>1, <1>3, <2>1, DayType DEF BackupType, Places, Days
    <2> QED
        BY <2>1, <2>2 DEF BackupInvariant, LastTestedRestorable
<1>9. \A p \in Places : Intact(p) # {} => Intact(p)' # {}
    BY <1>3
<1> QED
    BY <1>5, <1>6, <1>7, <1>8, <1>9 DEF BackupInvariant, StepKeeps

\* Tidying comes after the tests: the archive of the day stays in both places.
LEMMA PruneKeeps ==
    ASSUME BackupInvariant, NEW p \in Places, Prune(p)
    PROVE  StepKeeps
<1> USE DEF Prune
<1>1. BackupType /\ Reached /\ step \in {8, 9} /\ run = "running"
    BY ScriptOrder DEF BackupInvariant, BackupType, Places
<1>2. archives["local"][day] = "whole" /\ archives["offhost"][day] = "whole" /\ tested = day
    BY <1>1 DEF Reached
<1>3. /\ archives' \in [Places -> [Days -> Files]]
      /\ \A q \in Places, d \in Days :
            archives'[q][d] = archives[q][d] \/ archives'[q][d] = "absent"
    BY <1>1 DEF BackupType, Files
<1>4. \A q \in Places : archives'[q][day] = "whole"
    <2>1. ~(day - day > Keep)
        BY <1>1, DayType, StorageAssumption DEF BackupType
    <2> QED
        BY <1>1, <1>2, <2>1 DEF BackupType, Places
<1>5. \/ run' = "running" /\ step' = 9
      \/ run' = "over" /\ step' = 1
    BY <1>1, Onward DEF BackupType
<1>6. BackupType'
    BY <1>1, <1>3, <1>5 DEF BackupType, Runs
<1>7. Reached'
    <2>1. \A q \in Places, d \in Days : d > day => archives'[q][d] = "absent"
        BY <1>1, <1>3 DEF Reached
    <2> QED
        BY <1>2, <1>4, <1>5, <2>1 DEF Reached, Places
<1>8. OffhostComplete'
    BY <1>3 DEF BackupInvariant, OffhostComplete, Places
<1>9. \A q \in Places : Intact(q)' # {}
    BY <1>1, <1>4 DEF BackupType, Intact
<1>10. LastTestedRestorable'
    BY <1>2, <1>4 DEF LastTestedRestorable, Places
<1> QED
    BY <1>6, <1>7, <1>8, <1>9, <1>10 DEF BackupInvariant, StepKeeps

LEMMA BreakKeeps ==
    ASSUME BackupInvariant, BreakDatabase
    PROVE  StepKeeps
<1>1. BackupType' /\ Reached'
    BY DEF BackupInvariant, BackupType, Reached, BreakDatabase
<1> QED
    BY <1>1, ArchivesStay DEF BackupInvariant, StepKeeps, BreakDatabase

LEMMA ScriptKeeps ==
    ASSUME BackupInvariant, ScriptStep
    PROVE  StepKeeps
<1>0. temporary \in Files /\ day \in Days
    BY DEF BackupInvariant, BackupType
<1>1. CASE Tick
    BY <1>1, TickKeeps
<1>2. CASE StartScript
    BY <1>2, StartKeeps
<1>3. CASE RefuseCommand \/ FailCreate
    BY <1>0, <1>3, GiveUpKeeps DEF RefuseCommand, FailCreate
<1>4. CASE BeginCreate
    BY <1>4, BeginCreateKeeps
<1>5. CASE EndCreate
    BY <1>5, EndCreateKeeps
<1>6. CASE FinishCreate
    BY <1>6, FinishCreateKeeps
<1>7. ASSUME NEW s \in Tests, NEW p \in Places, PassTest(s, p)
      PROVE  StepKeeps
    BY <1>7, PassTestKeeps
<1>8. ASSUME NEW s \in Tests, NEW p \in Places, FailTest(s, p)
      PROVE  StepKeeps
    BY <1>0, <1>8, GiveUpKeeps DEF FailTest
<1>9. CASE BeginCopy \/ EndCopy
    BY <1>9, CopyKeeps
<1>10. CASE RemoveCopy
    <2>1. temporary' \in Files
        BY <1>10 DEF RemoveCopy, Files
    <2> QED
        BY <1>10, <2>1, GiveUpKeeps DEF RemoveCopy
<1>11. CASE Rename
    BY <1>11, RenameKeeps
<1>12. ASSUME NEW p \in Places, Prune(p)
       PROVE  StepKeeps
    BY <1>12, PruneKeeps
<1>13. CASE KillScript
    BY <1>0, <1>13, GiveUpKeeps DEF KillScript
<1>14. CASE BreakDatabase
    BY <1>14, BreakKeeps
<1> QED
    BY <1>1, <1>2, <1>3, <1>4, <1>5, <1>6, <1>7, <1>8, <1>9, <1>10, <1>11, <1>12, <1>13, <1>14
       DEF ScriptStep

-----------------------------------------------------------------------------
(***************************************************************************)
(* Losses of power                                                         *)
(***************************************************************************)

\* All migrators end, and what they have committed stays.
LEMMA MigratorsLosePower ==
    ASSUME MigrationInvariant, PowerLoss
    PROVE  MigrationInvariant'
<1>1. /\ UNCHANGED databaseVars
      /\ crashes' \in 0..MaxCrashes
      /\ phase' \in [Migrators -> Phases]
      /\ seen' = [w \in Migrators |-> {}]
      /\ next' = [w \in Migrators |-> 1]
    BY MigrationAssumption DEF PowerLoss, MigrationInvariant, MigrationType, Phases
<1>2. MigrationType'
    BY <1>1 DEF MigrationInvariant, MigrationType, databaseVars
<1>3. ASSUME NEW w \in Migrators
      PROVE  Underway(w)'
    <2>1. seen'[w] = {} /\ next'[w] = 1
        BY <1>1
    <2> QED
        BY <2>1 DEF Underway
<1> QED
    BY <1>1, <1>2, <1>3, DatabaseStays

\* The script ends, and only the archive of the day on the host may be lost.
LEMMA ScriptLosesPower ==
    ASSUME BackupInvariant, PowerLoss
    PROVE  BackupInvariant' /\ Intact("offhost")' = Intact("offhost")
<1>1. BackupType /\ Reached /\ UNCHANGED <<day, temporary, sound, tested, damage>>
    BY DEF BackupInvariant, PowerLoss
<1>2. PICK file \in Remains(archives["local"][day]) : Placed("local", file)
    BY DEF PowerLoss
<1>3. archives["local"][day] \in Files /\ file \in Files
    BY <1>1, <1>2 DEF BackupType, Places, Files, Remains
<1>4. /\ archives' \in [Places -> [Days -> Files]]
      /\ \A q \in Places, d \in Days : q # "local" \/ d # day => archives'[q][d] = archives[q][d]
      /\ archives["local"][day] = "absent" => archives' = archives
    BY <1>1, <1>2, <1>3 DEF BackupType, Placed, Places, Remains
<1>5. step' = 1 /\ (run = "due" => run' = run) /\ (run # "due" => run' = "over")
    BY DEF PowerLoss
<1>6. BackupType'
    BY <1>1, <1>4, <1>5 DEF BackupType, Runs
<1>7. Reached'
    <2>1. \A p \in Places, d \in Days : d > day => archives'[p][d] = "absent"
        BY <1>1, <1>4, DayType DEF BackupType, Reached, Days
    <2>2. run = "due" => UNCHANGED archives
        BY <1>1, <1>4 DEF Reached, Places
    <2> QED
        BY <1>1, <1>5, <2>1, <2>2 DEF Reached
<1>8. OffhostComplete' /\ LastTestedRestorable' /\ Intact("offhost")' = Intact("offhost")
    BY <1>1, <1>4, OffhostKept
<1> QED
    BY <1>6, <1>7, <1>8 DEF BackupInvariant

-----------------------------------------------------------------------------
(***************************************************************************)
(* The specification                                                       *)
(***************************************************************************)

LEMMA StorageStart == StorageInit => StorageInvariant
BY MigrationStart, BackupStart DEF StorageInit, StorageInvariant

LEMMA StorageStep ==
    ASSUME StorageInvariant, [StorageNext]_storageVars
    PROVE  /\ StorageInvariant'
           /\ \A p \in Places :
                 Intact(p) # {} => Intact(p)' # {} \/ (p = "local" /\ PowerLoss)
<1> USE DEF StorageInvariant
<1>1. CASE MigrationNext /\ UNCHANGED backupVars
    <2>1. MigrationInvariant'
        BY <1>1, MigrationStep
    <2>2. BackupType' /\ Reached'
        BY <1>1 DEF BackupInvariant, BackupType, Reached, backupVars
    <2> QED
        BY <1>1, <2>1, <2>2, ArchivesStay DEF BackupInvariant, backupVars
<1>2. CASE StartUnits
    <2>1. phase' \in [Migrators -> Phases]
        BY <1>2 DEF StartUnits, MigrationInvariant, MigrationType, Phases
    <2>2. MigrationInvariant'
        BY <1>2, <2>1, PhaseOnly DEF StartUnits, databaseVars
    <2> QED
        BY <1>2, <2>2, StartKeeps DEF StepKeeps
<1>3. CASE ScriptStep /\ UNCHANGED migrationVars
    <2>1. MigrationInvariant'
        BY <1>3, PhaseOnly DEF migrationVars, databaseVars, MigrationInvariant, MigrationType
    <2> QED
        BY <1>3, <2>1, ScriptKeeps DEF StepKeeps
<1>4. CASE PowerLoss
    BY <1>4, MigratorsLosePower, ScriptLosesPower DEF Places
<1>5. CASE UNCHANGED storageVars
    <2>1. MigrationInvariant'
        BY <1>5, PhaseOnly
           DEF storageVars, migrationVars, databaseVars, MigrationInvariant, MigrationType
    <2>2. BackupType' /\ Reached'
        BY <1>5 DEF BackupInvariant, BackupType, Reached, storageVars, backupVars
    <2> QED
        BY <1>5, <2>1, <2>2, ArchivesStay DEF BackupInvariant, storageVars, backupVars
<1> QED
    BY <1>1, <1>2, <1>3, <1>4, <1>5 DEF StorageNext

LEMMA StorageInvariantHolds == StorageSpec => []StorageInvariant
<1>1. StorageInvariant /\ [StorageNext]_storageVars => StorageInvariant'
    BY StorageStep
<1> QED
    BY <1>1, StorageStart, PTL DEF StorageSpec

\* Every variable has its type, and no partial copy has the name of an archive off
\* the host (hermodr-backup).
THEOREM StorageTypeCorrect == StorageSpec => []StorageTypeOK
<1>1. StorageInvariant => StorageTypeOK
    BY ScriptOrder
       DEF StorageInvariant, MigrationInvariant, MigrationType, BackupInvariant, BackupType,
           OffhostComplete, StorageTypeOK
<1> QED
    BY <1>1, StorageInvariantHolds, PTL

\* Every script changes the database once and in order, and builds do not mix
\* (database.py, migrate).
THEOREM MigratedOnce == StorageSpec => []SchemaOnce
<1>1. StorageInvariant => SchemaOnce
    BY DEF StorageInvariant, MigrationInvariant
<1> QED
    BY <1>1, StorageInvariantHolds, PTL

\* The last copy off the host that has passed its restore test can be restored
\* (hermodr-backup).
THEOREM LastTestedKept == StorageSpec => []LastTestedRestorable
<1>1. StorageInvariant => LastTestedRestorable
    BY DEF StorageInvariant, BackupInvariant
<1> QED
    BY <1>1, StorageInvariantHolds, PTL

\* Only a loss of power takes the last archive of a directory that can be restored, and
\* only the one on the host (hermodr-backup).
THEOREM LastArchiveKept == StorageSpec => LastGoodKept
<1>1. StorageInvariant /\ [StorageNext]_storageVars
        => [\A p \in Places :
               Intact(p) # {} => Intact(p)' # {} \/ (p = "local" /\ PowerLoss)]_storageVars
    BY StorageStep
<1> QED
    BY <1>1, StorageInvariantHolds, PTL DEF StorageSpec, LastGoodKept
=============================================================================
