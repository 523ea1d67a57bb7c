\* Two documents, one tag, three steps, one of them a change.
SPECIFICATION Spec
CONSTANTS
    Docs = {1, 2}
    Found = {1}
    Tag = Tag
    Tags <- OneTag
    None = None
    Libraries <- FirstLibraries
    MaxChanges = 1
    MaxSteps = 3
CHECK_DEADLOCK FALSE
INVARIANTS
    FilterTrue
    ListTrue
    SelectionExists
PROPERTIES
    Settles
