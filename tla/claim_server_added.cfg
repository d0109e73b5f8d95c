SPECIFICATION FairSpec
CONSTANTS
    None = None
    Objects <- MCObjects
    Vimanas = {"v"}
    Domains = {"d", "e"}
    Id <- MCId
    Servers = {"s", "t"}
    Components = {"c"}
    Variants = {1, 2}
    Worlds <- MCNamed
    Defaulted = {"GRPCRoute", "Gateway", "Deployment", "Service"}
    Versions = {0, 1, 2}
    Faults = {}
PROPERTY
    ServersRouted
CHECK_DEADLOCK FALSE
