SPECIFICATION SocketsSpec
CONSTANTS
    s1 = s1
    q1 = q1
    q2 = q2
    q3 = q3
    q4 = q4
    a = a
    b = b
    None = None
    Clients = {s1}
    Requests = {q1, q2, q3, q4}
    ClientOf <- OneClient
    KindOf <- Mixed
    ContainerOf <- TwoContainers
    Overlap = FALSE
    Faults = {"docker"}
    k1 = k1
    k2 = k2
    u1 = u1
    u2 = u2
    u3 = u3
    w1 = w1
    w2 = w2
    w3 = w3
    NoStream = None
    Sockets = {k1, k2}
    Subscriptions = {u1, u2, u3}
    Rows = {a}
    Watchers = {w1, w2, w3}
    MaxPending = 2
INVARIANT AllTypesOK
INVARIANT SoleStream
INVARIANT LoggedWhereTyped
INVARIANT NothingLeftBehind
INVARIANT FedWhileWatched
PROPERTY ExitedShellGivenUp
CHECK_DEADLOCK FALSE
