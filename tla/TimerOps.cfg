SPECIFICATION Spec
CONSTANTS
    c1 = c1
    c2 = c2
    TimerMax = 1
    ThreadMax = 1
    Clients = {c1, c2}
    Prios = {1}
    Periods = {1, 2}
    MaxTime = 2
    ClientOps = {"add", "stop", "period", "change"}
    HandlerOps = {"start", "change", "del"}
INVARIANT ListsExact
INVARIANT PeriodicQueued
INVARIANT PoolConserved
INVARIANT IdsLive
INVARIANT TimersReachable
SYMMETRY ClientSymmetry
