SPECIFICATION PagesSpec
CONSTANTS
    NULL = NULL
    Page <- Pages
    Id = {i1, i2}
    MaxForms = 2
    MaxWrites = 3
    Dev = {d1, d2}
    MaxRuns = 2
    Action = {"assign", "firmware", "push", "delete"}
    Context = 2
    Length = {1, 2, 5}
    MaxParts = 4
    Slot = {m1, m2}
SYMMETRY Symmetry
INVARIANTS
    RecordsTypeOK
    ReadYourWrites
    NoDangling
    CreatedOnce
    ScreensTypeOK
    ResultsAreTrue
    DeletedLeaveList
    OnePushAModal
    DriftIsShown
