SPECIFICATION PlatformSpec
CONSTANTS
    h1 = h1
    h2 = h2
    v1 = v1
    v2 = v2
    p1 = p1
    p2 = p2
    slug = slug
    slug2 = slug2
    own = own
    Users = {v1, v2}
    Projects = {p1, p2}
    OwnerOf <- Owners
    FirstProject = p1
    FirstPort = 1
    Domains = {slug, slug2, own}
    NoDomain = NoDomain
    SlugOf <- Slugs
    SuffixOf <- Suffixes
    SystemCerts = {own}
    Ports = {1, 2, 3}
    NoPort = NoPort
    Handlers = {h1, h2}
    NoUser = NoUser
    NoProject = NoProject
    Plans <- AllPlans
    Members = {m1, m2}
    Clients = {c1, c2}
    SessionIds = {1, 2, 3}
    NoMember = NoMember
    NoSession = NoSession
    Secrets = {x1, x2, x3, x4}
    NoSecret = NoSecret
    MaxAttempts = 2
    Regimes <- AllRegimes
    Admins = {a1, a2}
    SshPorts = {22, 2222}
    FirstSshPort = 22
    NoSshPort = NoSshPort
    Policies <- AllPolicies
INVARIANT AllRowsTypeOK
INVARIANT NotShutOut
INVARIANT RoutesServeOwner
INVARIANT NoLeftovers
INVARIANT SshReachable
SYMMETRY Interchangeable
CHECK_DEADLOCK FALSE
