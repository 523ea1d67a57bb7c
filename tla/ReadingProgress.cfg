CONSTANTS
    Sources = {local, server}
    Viewers = {book, tab}
    Epub = {book}
    Web = {tab}
    MaxTime = 2
    MaxSaves = 2
    MaxEdits = 1
    MaxFailures = 1
    Percentages = {"middle", "end"}
    StatusChoices = {0, 2}
SPECIFICATION ProgressSpec
SYMMETRY Symmetry
INVARIANTS
    LastWriterWins
    SwitchingResumes
CHECK_DEADLOCK FALSE
