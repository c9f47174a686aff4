SPECIFICATION Spec
CONSTANTS
    c1 = c1
    c2 = c2
    TimerMax = 2
    ThreadMax = 1
    Clients = {c1, c2}
    Prios = {1}
    Periods = {1, 2}
    MaxTime = 2
    ClientOps = {"add", "start"}
    HandlerOps = {}
INVARIANT TypeOK
INVARIANT QueueSorted
INVARIANT NoLostWakeup
SYMMETRY ClientSymmetry
PROPERTY ServesDue
PROPERTY ImplementsService
