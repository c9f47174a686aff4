SPECIFICATION Spec
CONSTANTS
    c1 = c1
    c2 = c2
    TimerMax = 1
    ThreadMax = 2
    Clients = {c1, c2}
    Prios = {1, 2, 3}
    Periods = {1}
    MaxTime = 2
    ClientOps = {"add", "del"}
    HandlerOps = {"start"}
INVARIANT OneThreadPerPrio
INVARIANT ServicedIntact
SYMMETRY ClientSymmetry
PROPERTY ImplementsService
