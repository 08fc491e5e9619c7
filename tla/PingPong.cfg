SPECIFICATION FairSpec
CONSTANTS
    PingEvery = 1
    Wrap = 5
    Lag = 1
    MaxClock = 4
PROPERTIES NeverTooShort Resent
