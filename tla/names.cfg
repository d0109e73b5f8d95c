SPECIFICATION Spec
CONSTANTS
    Tokens <- MCTokens
    Domains <- MCDomains
    Servers <- MCServers
    Versions <- MCVersions
    Digit <- MCDigit
    Canonical = {"a", "0", "1"}
    PodIdDigits = 2
    HexBytes <- MCHexBytes
    Chunk = 2
    Starts <- MCStarts
    MaxWritten = 5
    HexStarts <- MCHexStarts
    MaxHex = 4
    None = None
INVARIANTS
    ParsesTheGrammar
    NamesLeadBack
    HexLeadsBack
CHECK_DEADLOCK FALSE
