SPECIFICATION RoutesSpec
CONSTANTS
    h1 = h1
    h2 = h2
    v1 = v1
    v2 = v2
    p1 = p1
    p2 = p2
    slug = slug
    slug2 = slug2
    own = own
    Users = {v1, v2}
    Projects = {p1, p2}
    OwnerOf <- Owners
    FirstProject = p1
    FirstPort = 1
    Domains = {slug, slug2, own}
    NoDomain = NoDomain
    SlugOf <- Slugs
    SuffixOf <- Suffixes
    SystemCerts = {own}
    Ports = {1, 2, 3}
    NoPort = NoPort
    Handlers = {h1, h2}
    NoUser = NoUser
    NoProject = NoProject
    Plans <- OneRequest
INVARIANT AllResourcesGone
CHECK_DEADLOCK FALSE
