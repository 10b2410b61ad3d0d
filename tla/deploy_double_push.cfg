SPECIFICATION Spec
CONSTANTS
    p1 = p1
    p2 = p2
    r1 = r1
    r2 = r2
    r3 = r3
    Projects = {p1}
    Requests = {r1, r2}
    ProjectOf <- OneProject
    KindOf <- MixedKinds
    Routed = {p1}
    MinPort = 1
    MaxPort = 3
    Modes <- NoFaults
INVARIANT DeployedIsRunning
CHECK_DEADLOCK FALSE
