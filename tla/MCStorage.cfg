\* Three builds race; the archive of a day is deleted the day after.
SPECIFICATION StorageSpec
CONSTANTS
    unit = unit  newer = newer  edited = edited
    a = a  b = b  x = x  y = y
    None = None
    Migrators = {unit, newer, edited}
    Digests = {a, b, x, y}
    Script <- MCScript
    MaxCrashes = 1
    Unit = unit
    Build = 1
    Keep = 0
    MaxDays = 2
    MaxDamage = 1
INVARIANTS
    StorageTypeOK
    SchemaOnce
    LastTestedRestorable
PROPERTIES
    LastGoodKept
    MigrationsComplete
