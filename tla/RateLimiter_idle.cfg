SPECIFICATION HSpec
CONSTANTS
    Clients = {c1}
    Limits = {2}
    WindowSecs = 2
    Second = 2
    Word = 7
    Precision = 9
    RoundedDown = {}
    RoundedUp = {}
    Absent = Absent
    Unasked = Unasked
    MaxTime = 13
INVARIANT DeniedOnlyWhenBusy
