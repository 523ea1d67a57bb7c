\* A task that reads the chain and, being told, the documents, racing two of a REST
\* update, a preference form and a hand edit.
SPECIFICATION FairSpec
CONSTANTS
    Readers = {r1}
    Views = {r1}
    Updaters = {u1}
    Forms = {f1}
    Editors = {e1}
    MaxWrites = 2
    Free = Free
INVARIANTS
    ReadYourWrites
    UpdatesKept
PROPERTIES
    NobodyWaitsForEver
