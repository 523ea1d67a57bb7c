\* Three paths, two of them with one stem; contents with and one without
\* metadata; two scans, one step of the user or of somebody else.
SPECIFICATION Spec
CONSTANTS
    p1 = p1
    p2 = p2
    p3 = p3
    g1 = g1
    g2 = g2
    Paths = {p1, p2, p3}
    Groups = {g1, g2}
    GroupOf <- Places
    Contents = {a, b, c}
    Described = {a, b}
    User = User
    None = None
    MaxDocuments = 3
    MaxScans = 2
    MaxChanges = 1
SYMMETRY Symmetry
CHECK_DEADLOCK FALSE
INVARIANTS
    GroupsTogether
    DescribedAfterScan
PROPERTIES
    TitlesKept
