SPECIFICATION Spec
CONSTANTS
    Component = {foo}
    MaxPods = 1
    Address = {a1}
    None = None
    Config = {k1}
    MaxAttempt = 1
    Call = {c1, c2, c3}
    Initialization = {i1, i2}
    Server = {s1, s2}
    Faults = {"init", "bind", "activate"}
SYMMETRY Symmetry
INVARIANTS
    RunningIsKillable
    NoOrphanServer
    NoLeakedAddress
PROPERTIES
    ImplementsLifecycle
