\* Two operators on a device and a key.
SPECIFICATION Spec
CONSTANTS
    d1 = d1  k1 = k1  k2 = k2  o1 = o1  o2 = o2  r1 = r1  s1 = s1
    None = None
    Devices = {d1}
    Keys = {k1}
    Subjects = {s1}
    Operators = {o1, o2}
    Requests = {r1}
    SubjectOf <- OneSubject
    MaxClock = 1
    MaxLost = 0
SYMMETRY Interchangeable
INVARIANTS
    ChainVerifies
