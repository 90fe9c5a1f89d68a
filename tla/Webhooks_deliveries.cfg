SPECIFICATION Spec
CONSTANTS
    plain = plain
    torn = torn
    tornToo = tornToo
    s1 = s1
    s2 = s2
    None = None
    Garbled = Garbled
    Bodies <- ThreeBodies
    Texts <- TwoTexts
    Text <- Lossy
    Secrets <- TwoSecrets
    Tolerance = 1
    Skew = 2
    HalfWord = 8
    Stray <- EdgeTimes
    MaxSent = 2
    MaxParts = 3
    MaxTime = 3
SYMMETRY Symmetry
INVARIANT AcceptedWasSigned
INVARIANT UnalteredVerifies
