SPECIFICATION Spec
CONSTANTS
    domain = domain
    server = server
    version1 = version1
    version2 = version2
    small = small
    large = large
    Components <- MCComponents
    Images = {small, large}
    ComponentSize <- MCComponentSize
    Calls = {h1, h2}
    U64 = 64
    MaxPulls = 2
    OverflowChecks = TRUE
    Faults = {"create", "write", "cancel", "restart"}
    None = None
    Poisoned = Poisoned
SYMMETRY Symmetry
INVARIANTS
    StoreTypeOK
    FilesHoldOneImage
    QuietReadsFindPulled
    UsageExactUntilDrift
