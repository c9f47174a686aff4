SPECIFICATION FairSpec
CONSTANTS
    c1 = c1
    c2 = c2
    TimerMax = 1
    ThreadMax = 1
    Clients = {c1}
    Prios = {1}
    Periods = {1, 2}
    MaxTime = 3
    ClientOps = {"add", "del"}
    HandlerOps = {"start", "del"}
PROPERTY DueIsServed
PROPERTY DeleteReturns
