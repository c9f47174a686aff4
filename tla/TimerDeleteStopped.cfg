SPECIFICATION Spec
CONSTANTS
    c1 = c1
    c2 = c2
    TimerMax = 2
    ThreadMax = 1
    Clients = {c1, c2}
    Prios = {1}
    Periods = {1}
    MaxTime = 2
    ClientOps = {"add", "stop", "del"}
    HandlerOps = {}
INVARIANT ServicedIntact
