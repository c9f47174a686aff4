SPECIFICATION Spec
CONSTANTS
    Tasks = {t1}
    Millis = {1, 400, 1000}
    Ticks = {60000000, 150000500}
    Ahead = {100000001}
    Back = {300000000}
    WallStarts = {0, 599999500, 600000000}
    MaxMono = 150000000
    MaxSettings = 1
    MaxCount = 1
INVARIANT TypeOK
INVARIANT NotEarly
INVARIANT OversleepBounded
INVARIANT TakeDeadline
