\* In the EPUB viewer: three chapters of one to four blocks, three layouts, two readings, three
\* steps of the user.  In the MuPDF viewer: three pages or four, one reading, two steps.
SPECIFICATION ViewersSpec
CONSTANTS
    Gap = 1
    Book <- SmallBook
    Spine = 2
    Hits <- SmallHits
    Layouts <- AllLayouts
    None = None
    MaxOpens = 2
    MaxActs = 3
    Sizes = {12, 18}
    PageCount <- ThreeOrFour
    Reflowable = TRUE
    MaxPdfOpens = 1
    MaxPdfActs = 2
CHECK_DEADLOCK FALSE
INVARIANTS
    PagesReadAsWhole
    OnScreen
    PlaceRestored
PROPERTIES
    ClosingKeepsPlaces
    TurningInOrder
