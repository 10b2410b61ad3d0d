SPECIFICATION Spec
CONSTANTS
    u1 = u1
    s1 = s1
    s2 = s2
    a1 = a1
    Users = {u1}
    Dumps = {s1}
    Archives = {}
    Retention = 1
    Providers = {"local", "remote"}
    Faults = {}
INVARIANT OnDemandKept
CHECK_DEADLOCK FALSE
