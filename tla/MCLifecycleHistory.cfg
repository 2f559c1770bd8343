\* Retention, and a reprocessing.
SPECIFICATION LifecycleSpec
CONSTANTS
    home = home  work = work  p1 = p1  o1 = o1
    None = None  Nothing = Nothing
    Events = {1, 2, 3}
    Time <- MCTime
    Kind <- MCKind
    Spot <- MCSpot
    Places = {home, work}
    Dwell = 0
    Silence = 0
    Tolerance = 1
    Reviews = {}
    MaxVersions = 1
    Plans = {p1}
    Operators = {o1}
    Ranges <- MCRanges
    RawAge = 1
    NormAge = 1
    PlanLife = 0
    BatchSize = 1
    SortsLast = {2}
    MaxClock = 2
PROPERTIES
    ConfirmedRetained
