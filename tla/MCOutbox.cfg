\* One record of each kind, one consumer with batches of two, one failure.
SPECIFICATION FairSpec
CONSTANTS
    a1 = a1  a2 = a2  a3 = a3  a4 = a4  a5 = a5  c1 = c1
    None = None
    Aggregates = {a1, a2, a3, a4, a5}
    Consumers = {c1}
    Kind <- OneOfEach
    PlaceOf <- VisitedPlace
    Limit = 2
    MaxSequence = 5
    MaxFaults = 1
CHECK_DEADLOCK FALSE
INVARIANTS
    TypeOK
    NothingSkipped
    ReceiptsMeaningful
    ProjectionMirrors
PROPERTIES
    SequencesNeverReused
    ConsumersCatchUp
