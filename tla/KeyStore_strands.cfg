SPECIFICATION Spec
CONSTANTS
    k1 = k1
    k2 = k2
    k3 = k3
    k4 = k4
    alice = alice
    bob = bob
    eve = eve
    read = read
    write = write
    star = star
    r1 = r1
    r2 = r2
    r3 = r3
    NoKey = NoKey
    NoUser = NoUser
    NoRequest = NoRequest
    Null = Null
    Keys <- ThreeKeys
    Principals <- OnePrincipal
    Users <- OneUser
    Scopes <- ThreeScopes
    Wildcards <- Star
    ScopeLists <- OneList
    Requests <- TwoRequests
    Ops <- CreateRotate
    MaxKeys = 2
    GraceHours = 1
    HalfWord = 100
    Representable <- Hours
    Readable <- Hours
    MaxTime = 0
    Faults = TRUE
SYMMETRY Symmetry
INVARIANT NoStrandedLineage
