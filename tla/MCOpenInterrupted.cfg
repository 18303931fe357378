SPECIFICATION OpenSpec
CONSTANTS
    Proc = {p1}
    None = None
    Calls = {"Open"}
    Starts <- UnmarkedStarts
    Older = FALSE
    Impatient = FALSE
    MayFail = FALSE
    Retries = 0
    MaxCrashes = 1
    MaxRecords = 0
INVARIANTS
    InterruptedLedgerReopens
CHECK_DEADLOCK FALSE
