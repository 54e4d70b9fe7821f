\* The clock is set up to twice, back by less or more than the interval, or
\* ahead.
SPECIFICATION Spec
CONSTANTS
    Interval = 3
    Word = 64
    Start = 20
    ClockBack = {2, 5}
    ClockAhead = {3}
    MaxSteps = 2
    MaxTime = 14
INVARIANTS HeardInTime PingsBounded
PROPERTY PingOnlyIdle
