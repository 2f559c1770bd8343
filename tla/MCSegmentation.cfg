\* Two stays at home with a report of no place between them, then work; reports
\* arrive in any order, the place is reviewed once, derivations are cut off anywhere.
SPECIFICATION SegmentationSpec
CONSTANTS
    home = home  work = work
    None = None
    Events = {1, 2, 3, 4, 5, 6}
    Time <- MCTime
    Kind <- MCKind
    Spot <- MCSpot
    Places = {home, work}
    Dwell = 1
    Silence = 2
    Tolerance = 1
    Reviews = {1}
    MaxVersions = 2
INVARIANTS
    SegmentationTypeOK
    TimelineConsistent
    ProvenanceComplete
PROPERTIES
    ImplementsDerivation
