SPECIFICATION LiveSpec
CONSTANTS
    lookup = lookup
    file = file
    both = both
    Capabilities = {lookup, file, both}
    Catalogs <- MCCatalogs
    Params <- MCParams
    KeyFrom <- MCKeyFrom
    Numeric = {"memberId"}
    Mutating = {file, both}
    Given <- MCGiven
    Choices <- MCChoices
    Blank = ""
    Digits = "123"
    Hits <- MCHits
    Window = 2
    MaxRuns = 2
    MaxDepth = 6
INVARIANT
    RowsAreOwn
    NoForeignInputs
    ConfirmsOnce
    DriftHasACause
    CallsNestNoDeeper
PROPERTY
    CallsAreAnswered
\* No run is started after MaxRuns.
CHECK_DEADLOCK FALSE
