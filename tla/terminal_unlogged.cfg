SPECIFICATION Spec
CONSTANTS
    s1 = s1
    q1 = q1
    q2 = q2
    q3 = q3
    q4 = q4
    a = a
    b = b
    None = None
    Clients = {s1}
    Requests = {q1, q2}
    ClientOf <- OneClient
    KindOf <- Mixed
    ContainerOf <- TwoContainers
    Overlap = FALSE
    Faults = {}
INVARIANT ShellIsLogged
CHECK_DEADLOCK FALSE
