SPECIFICATION FairSpec
CONSTANTS
    Component = {foo}
    MaxPods = 2
    Address = {a1}
    None = None
    Config = {k1}
    MaxAttempt = 0
    Call = {c1, c2}
    Initialization = {i1}
    Server = {s1, s2}
    Faults = {"init", "bind", "activate"}
PROPERTIES
    CallsReturn
    KilledServerEnds
