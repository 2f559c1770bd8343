\* A message of every kind, two handler threads, two faults; only the main thread is fair.
SPECIFICATION MainSpec
CONSTANTS
    e1 = e1  e2 = e2  e3 = e3  r1 = r1  r2 = r2
    None = None
    Events = {e1, e2, e3}
    Requests = {r1, r2}
    Kind <- MixedKinds
    MaxFaults = 2
INVARIANTS
    TypeOK
    AckedIsDurable
    StoredOnce
PROPERTIES
    NothingStoredAfterDrain
    ImplementsInbox
    ShutdownEnds
    ReportsDelivered
