CONSTANTS
    Patches <- OnePatch
    Files <- MCFiles
    Diffs <- TwoVersions
    PatchOf <- TwoOfA
    Creates <- TwoCreates
    Edits <- TwoEdits
    Fits <- TwoFit
    Clash <- NoClash
    Needs <- TwoNeed
    MaxVersion = 2
    None = None
    Empty = Empty
    DirRank <- OneRank
    Systems <- OneSystem
    BootSettings = {FALSE}
    Orders <- NoOrder
    Inputs <- LifecycleInputs
    MaxQueue = 1
SPECIFICATION Spec
INVARIANTS
    SettingsAgree
    NoGhostPatches
PROPERTIES
    SetIsKept
