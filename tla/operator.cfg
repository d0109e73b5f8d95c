SPECIFICATION FairSpec
CONSTANTS
    None = None
    Objects <- MCObjects
    Vimanas = {"v"}
    Domains = {"d", "e"}
    Id <- MCId
    Servers = {"s", "t"}
    Components = {"c"}
    Variants = {1, 2}
    Worlds <- MCWorlds
    Defaulted = {"GRPCRoute", "Gateway", "Deployment", "Service"}
    Versions = {0, 1, 2}
    Faults = {"write", "read", "restart"}
PROPERTIES
    
    
    
    ReplicasKept
CHECK_DEADLOCK FALSE
