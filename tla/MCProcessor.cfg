\* Two instances under the one name of serve(), two observations of a subject, a poisoned job.
SPECIFICATION Spec
CONSTANTS
    j1 = j1  j2 = j2  j3 = j3  s1 = s1  s2 = s2  w1 = w1  w2 = w2  main = main
    None = None
    Jobs = {j1, j2, j3}
    Subjects = {s1}
    Workers = {w1, w2}
    Owners = {main}
    SubjectOf <- OneSubject
    Kind <- ThirdPoisoned
    ClaimOrder <- MCClaimOrder
    OwnerOf <- OneName
    LeaseMs = 1
    MaxAttempts = 2
    BaseBackoff = 1
    MaxBackoff = 2
    MaxClock = 2
    MaxFaults = 1
SYMMETRY WorkerSymmetry
INVARIANTS
    TypeOK
    ExactlyOnce
    EvidenceCovered
PROPERTIES
    LeaseExcludes
    ImplementsLedger
