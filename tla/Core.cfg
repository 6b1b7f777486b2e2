CONSTANTS
    Patches <- MCPatches
    Files <- MCFiles
    Diffs <- MCDiffs
    PatchOf <- MCPatchOf
    Creates <- SharedCreates
    Edits <- SharedEdits
    Fits <- OneOutdated
    Clash <- NoClash
    Needs <- NoNeeds
    MaxVersion = 2
    None = None
    Empty = Empty
    DirRank <- MCDirRank
    Systems <- OneSystem
    BootSettings = {TRUE, FALSE}
    Orders <- BFirst
    Inputs <- CoreInputs
    MaxQueue = 2
SPECIFICATION Spec
INVARIANTS
    TypeOK SettingsAgree EnabledIsInEffect FailureOutlivesProcess
PROPERTIES
    WorkingSetWasInEffect SetIsKept
