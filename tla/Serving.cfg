CONSTANTS
    Patches <- MCPatches
    Files <- MCFiles
    Diffs <- MCDiffs
    PatchOf <- MCPatchOf
    Creates <- MCCreates
    Edits <- MCEdits
    Fits <- MCFits
    Clash <- NoClash
    Needs <- MCNeeds
    MaxVersion = 1
    None = None
    Empty = Empty
    DirRank <- MCDirRank
    Systems <- OneSystem
    BootSettings = {TRUE}
    Orders <- NoOrder
    Inputs <- ServingInputs
    MaxQueue = 1
    Clients = {c}
SPECIFICATION FairClientsSpec
PROPERTIES
    ReadsEnabled
    ClientsAreServed
