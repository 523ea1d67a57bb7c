\* Three files, two fingerprinting tasks, room for one everywhere else.
SPECIFICATION FairSpec
CONSTANTS
    Files = {f1, f2, f3}
    Concurrency = 2
    Ch1Capacity = 1
    Ch2Capacity = 1
    Progress = 1
    MaxBatch = 2
INVARIANTS
    NothingForgotten
    CountersTrue
    CallerSeesAll
PROPERTY
    ScanEnds
\* A scan that has ended does nothing more.
CHECK_DEADLOCK FALSE
