SPECIFICATION Spec
CONSTANTS
    Component = {foo, bar}
    MaxPods = 2
    Address = {a1, a2}
    None = None
    Config = {k1}
    MaxAttempt = 0
    Call = {c1, c2}
    Initialization = {i1}
    Server = {s1}
    Faults = {"plugin", "decode", "activate", "deactivate", "bind", "serve", "shutdown",
              "cancel", "crash"}
SYMMETRY Symmetry
INVARIANTS
    TypeOK
    RunningIsKillable
    ActiveIsAllocated
    LivePodOwnsAddress
