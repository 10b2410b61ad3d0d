SPECIFICATION Spec
CONSTANTS
    c1 = c1
    c2 = c2
    c3 = c3
    h1 = h1
    h2 = h2
    h3 = h3
    p1 = p1
    p2 = p2
    n1 = n1
    n2 = n2
    n3 = n3
    Containers = {c1, c2, c3}
    Initial = {c1, c2}
    NameOf <- SharedName
    BornAs <- FirstNames
    ProjectOf <- TwoProjects
    Routed = {p1}
    Handlers = {h1, h2, h3}
    OpKinds = {"create", "start", "stop", "restart", "remove", "update", "allocatePort", "removePort", "adminRestart", "adminDelete", "suspend", "resume"}
    PoolPorts = {1}
    ExternalPorts = {2, 3}
    Modes <- PairsAndSequences
SYMMETRY AnyOrder
INVARIANT TypeOK
INVARIANT ZombieRecreatable
INVARIANT StoppedIsDown
INVARIANT PortsDistinct
INVARIANT NoOrphan
PROPERTY StopsOnlyOwnProject
PROPERTY RestartSyncs
CHECK_DEADLOCK FALSE
