\* Two formats, one tag, two titles, two pages, four steps, two of them changes.
SPECIFICATION Spec
CONSTANTS
    f = f
    g = g
    a = a
    b = b
    Contents <- TwoFormats
    Titles <- TwoTitles
    Tags = {t}
    Pages = {0, 1}
    None = None
    MaxChanges = 2
    MaxSteps = 4
SYMMETRY Alike
CONSTRAINT Told
ACTION_CONSTRAINT Prompt
CHECK_DEADLOCK FALSE
INVARIANTS
    
    PreviewTrue
    CoversTrue
    ChosenCoverKept
