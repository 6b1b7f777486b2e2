CONSTANTS
    Patches <- MCPatches
    MaxLog = 1
    MaxMessages = 1
    MaxPosted = 1
    Survives <- Ends
SPECIFICATION ReportSpec
INVARIANTS
    FailedOffersStart
