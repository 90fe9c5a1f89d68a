SPECIFICATION Spec
CONSTANTS
    Backends = {"keychain", "file"}
    Environments <- AnyEnvironment
    None = None
    TooShort = TooShort
    MaxPairs = 3
INVARIANT TypeOK
INVARIANT SavedIsFound
INVARIANT SetupIsFound
INVARIANT KeysSurvive
