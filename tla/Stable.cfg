CONSTANTS
    Patches <- MCPatches
    Files <- MCFiles
    Diffs <- MCDiffs
    PatchOf <- MCPatchOf
    Creates <- SeparateCreates
    Edits <- SeparateEdits
    Fits <- AllFit
    Clash <- NoClash
    Needs <- NoNeeds
    MaxVersion = 2
    None = None
    Empty = Empty
    DirRank <- MCDirRank
    Systems <- OneSystem
    BootSettings = {TRUE}
    Orders <- BFirst
    Inputs <- StableInputs
    MaxQueue = 2
SPECIFICATION Spec
INVARIANTS
    EnabledIsInEffect
    OnlyEnabledInCache
    CopiesAreFresh
