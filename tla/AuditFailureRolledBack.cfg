\* No process stops.
SPECIFICATION Spec
CONSTANTS
    Procs = {desktop, server}
    Ops = {o1, o2}
    None = None
    MaxCrashes = 0
SYMMETRY Symmetry
\* Every operation may be over and the bound on crashes reached.
CHECK_DEADLOCK FALSE
INVARIANT
    FailureRecorded
