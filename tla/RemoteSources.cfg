\* Up to two sources found at the start, three URLs, two buttons, a failed statement, a restart.
SPECIFICATION Spec
CONSTANTS
    Urls = {u1, u2, u3}
    Secrets = {s1}
    None = None
    FirstRows = 2
    MaxActs = 2
    MaxFailures = 1
    MaxStarts = 1
CHECK_DEADLOCK FALSE
SYMMETRY Symmetry
INVARIANTS
    ListTrue
    ClientsTrue
    PatienceServed
PROPERTIES
    PlacesKept
