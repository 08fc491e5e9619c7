SPECIFICATION FairSpec
CONSTANTS
    SeqMod = 8
    RestartGap = 2
    FirstSeq = {0, 3, 6}
    Delay = 2
    Timeout = 2
    Stale = 1
    MaxSent = 6
    MaxRestarts = 2
    MaxClock = 5
INVARIANTS FreezeBounded
PROPERTIES NoStepBack SilentVanishes
