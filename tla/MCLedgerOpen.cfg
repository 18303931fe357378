SPECIFICATION OpenSpec
CONSTANTS
    Proc = {p1, p2}
    None = None
    Calls = {"Open", "OpenForRead"}
    Starts <- AllStarts
    Older = TRUE
    Impatient = TRUE
    MayFail = TRUE
    Retries = 1
    MaxCrashes = 1
    MaxRecords = 1
SYMMETRY Symmetry
INVARIANTS
    OpenedIsCurrent
    NobodyWaitsForever
PROPERTIES
    KeepsFormat
    AlienUntouched
    AcceptedCopyExisted
    RejectedCopyWasInvalid
    UnmarkedStaysInWAL
CHECK_DEADLOCK FALSE
