\* Two operations of any kinds in one or two processes, one of which may stop.
SPECIFICATION Spec
CONSTANTS
    Procs = {desktop, server}
    Ops = {o1, o2}
    None = None
    MaxCrashes = 1
SYMMETRY Symmetry
\* Every operation may be over and the bound on crashes reached.
CHECK_DEADLOCK FALSE
INVARIANTS
    HistoryTrue
    Recovered
PROPERTIES
    OverIsOver
