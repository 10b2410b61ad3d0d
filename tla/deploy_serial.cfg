SPECIFICATION Spec
CONSTANTS
    p1 = p1
    p2 = p2
    r1 = r1
    r2 = r2
    r3 = r3
    Projects = {p1, p2}
    Requests = {r1, r2, r3}
    ProjectOf <- TwoProjects
    KindOf <- MixedKinds
    Routed = {p1}
    MinPort = 1
    MaxPort = 2
    Modes <- OneAtATime
INVARIANT ActiveServed
PROPERTY ImplementsRollout
CHECK_DEADLOCK FALSE
