CONSTANTS
    Patches <- MCPatches
    Files <- MCFiles
    Diffs <- MCDiffs
    PatchOf <- MCPatchOf
    Creates <- SharedCreates
    Edits <- SharedEdits
    Fits <- AllFit
    Clash <- NoClash
    Needs <- NoNeeds
    MaxVersion = 2
    None = None
    Empty = Empty
    DirRank <- MCDirRank
    Systems <- OneSystem
    BootSettings = {TRUE, FALSE}
    Orders <- BFirst
    Inputs <- SharedInputs
    MaxQueue = 1
SPECIFICATION Spec
INVARIANT
    UnpatchedReadsOriginal
