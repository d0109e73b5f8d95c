SPECIFICATION Spec
CONSTANTS
    ByteBits = 4
    W32 = 8
    W64 = 16
    None = None
    Cases <- MCCases
INVARIANTS
    LengthsMatchBytes
    SentWhenEncodable
    ReadersAgree
