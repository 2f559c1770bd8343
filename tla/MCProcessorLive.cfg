\* The deployed processor: one instance, three jobs of two subjects, two faults.
SPECIFICATION FairSpec
CONSTANTS
    j1 = j1  j2 = j2  j3 = j3  s1 = s1  s2 = s2  w1 = w1  w2 = w2  main = main
    None = None
    Jobs = {j1, j2, j3}
    Subjects = {s1, s2}
    Workers = {w1}
    Owners = {main}
    SubjectOf <- MCSubjectOf
    Kind <- OneOfEach
    ClaimOrder <- MCClaimOrder
    OwnerOf <- OneName
    LeaseMs = 1
    MaxAttempts = 2
    BaseBackoff = 1
    MaxBackoff = 2
    MaxClock = 3
    MaxFaults = 2
PROPERTIES
    JobsSettle
    DerivationCatchesUp
