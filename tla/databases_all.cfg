SPECIFICATION Spec
CONSTANTS
    d1 = d1
    d2 = d2
    d3 = d3
    d4 = d4
    h1 = h1
    h2 = h2
    h3 = h3
    n1 = n1
    n2 = n2
    None = None
    Databases = {d1, d2, d3, d4}
    Initial = {d1}
    NameOf <- Names
    Supported = {d1, d2, d3}
    Strict = {d1}
    Handlers = {h1, h2, h3}
    Ports = {1, 2}
    Modes <- AllModes
INVARIANT TypeOK
INVARIANT OneWriter
INVARIANT DataKept
INVARIANT PortsDistinct
INVARIANT RowInSync
INVARIANT NoOrphan
SYMMETRY AnyOrder
CHECK_DEADLOCK FALSE
