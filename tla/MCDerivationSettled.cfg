\* A visit that is derived before and after it is over.
SPECIFICATION Spec
CONSTANTS
    home = home  work = work
    None = None
    Events = {1, 2, 3, 4, 5, 6}
    Time <- MCTime
    Kind <- PlainKind
    Spot <- MCSpot
    Places = {home, work}
    Dwell = 1
    Silence = 2
    Tolerance = 1
    Reviews = {1}
    MaxVersions = 1
INVARIANTS
    SettledIsConfirmed
