SPECIFICATION FairSpec
CONSTANTS
    u1 = u1
    s1 = s1
    s2 = s2
    a1 = a1
    Users = {u1}
    Dumps = {s1, s2}
    Archives = {a1}
    Retention = 1
    Providers = {"local", "remote"}
    Faults = {"crash", "db", "docker", "upload"}
INVARIANT TypeOK
INVARIANT FilesMatchRows
PROPERTY KeepsNewest
PROPERTY PendingSettles
CHECK_DEADLOCK FALSE
