SPECIFICATION FairSpec
CONSTANTS
    Tasks = {t1, t2}
    Depth = 1
    Sizes = {1, 2}
    Lengths = {0, 1, 2}
    Timeouts = {0, 1}
    MaxTime = 1
    MaxSends = 2
    MaxCrashes = 1
INVARIANT TypeOK
INVARIANT ExactlyOnce
PROPERTY TimedCallsReturn
