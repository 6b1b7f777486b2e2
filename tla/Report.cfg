CONSTANTS
    Patches <- MCPatches
    MaxLog = 1
    MaxMessages = 1
    MaxPosted = 1
    Survives <- MayEnd
SPECIFICATION FairReportSpec
INVARIANTS
    HandleUsedByOne
    NothingMissed
    MirrorAgrees
PROPERTIES
    CrashIsHandled
