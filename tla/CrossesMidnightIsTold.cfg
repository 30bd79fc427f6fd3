SPECIFICATION DaySpec
CONSTANTS
    Times = {1, 4, 20}
    Stops = {p}
    MaxCalls = 3
INVARIANT
    CrossesMidnightIsTold
