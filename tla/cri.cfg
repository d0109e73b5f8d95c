SPECIFICATION Spec
CONSTANTS
    Pods = {"a"}
    DownstreamPods <- MCDownstreamPods
    DownstreamContainers <- MCDownstreamContainers
    Parent <- MCParent
    Calls = {h1, h2}
    Filters = {"SandboxNotready", "ContainerExited"}
    MaxOrphans = 1
    Faults = {"downstream", "cancel", "unlink", "crash"}
    None = None
SYMMETRY Symmetry
INVARIANTS
    RoutedHome
    FiltersMatchReports
    ClientIsInUse
PROPERTIES
    ListsComplete
