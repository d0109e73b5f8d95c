SPECIFICATION Spec
CONSTANTS
    Component = {foo}
    MaxPods = 1
    Address = {a1}
    None = None
    Config = {k1}
    MaxAttempt = 0
    Call = {c1}
    Initialization = {i1, i2}
    Server = {s1, s2}
    Faults = {"deactivate"}
INVARIANT KilledPodHasFreedAddress
