CONSTANTS
    Patches <- MCPatches
    Files <- MCFiles
    Diffs <- MCDiffs
    PatchOf <- MCPatchOf
    Creates <- SeparateCreates
    Edits <- SeparateEdits
    Fits <- AllFit
    Clash <- NoClash
    Needs <- NoNeeds
    MaxVersion = 2
    None = None
    Empty = Empty
    DirRank <- MCDirRank
    Systems <- OneSystem
    BootSettings = {TRUE, FALSE}
    Orders <- NoOrder
    Inputs <- SettlingInputs
    MaxQueue = 1
SPECIFICATION FairSpec
PROPERTIES
    ServerStarts
    ComesToRest
