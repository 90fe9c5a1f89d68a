SPECIFICATION HSpec
CONSTANTS
    Clients = {c1}
    Limits = {1, 3}
    WindowSecs = 2
    Second = 2
    Word = 7
    Precision = 9
    RoundedDown <- AllDown
    RoundedUp = {}
    Absent = Absent
    Unasked = Unasked
    MaxTime = 13
INVARIANT TypeOK
INVARIANT BurstBound
INVARIANT DenialsAreEarned
PROPERTY RemainingIsTrue
PROPERTY SlidingSpec
