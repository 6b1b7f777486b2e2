CONSTANTS
    Patches <- MCPatches
    Latest = 3
    Calls = {c1, c2}
    MaxChecks = 1
    None = None
SPECIFICATION FairCatalogSpec
INVARIANTS
    UpdatesAreNewer
    ResultIsLast
PROPERTIES
    CallsAreAnswered
