SPECIFICATION Spec
CONSTANTS
    k1 = k1
    k2 = k2
    k3 = k3
    alice = alice
    bob = bob
    s1 = s1
    s2 = s2
    r1 = r1
    r2 = r2
    eva = eva
    corso = corso
    all = all
    NoKey = NoKey
    NoUser = NoUser
    NoToken = NoToken
    Nobody = Nobody
    Null = Null
    Services <- TwoServices
    All = all
    Keys <- TwoKeys
    Users <- OneUser
    Principals <- TwoUsers
    Secrets <- TwoSecrets
    Lifetimes <- EdgeLifetimes
    AskedScopes <- SomeScopes
    Requests <- TwoRequests
    Uses <- OneEach
    MaxKeys = 1
    GraceHours = 0
    Readable <- FirstHour
    HalfWord = 8
    Leeway = 1
    MaxTokens = 1
    MaxTime = 2
    Torn = TRUE
SYMMETRY Symmetry
INVARIANT TypeOK
INVARIANT PrincipalIsTrue
INVARIANT TokensLast
PROPERTY ActedForOwner
