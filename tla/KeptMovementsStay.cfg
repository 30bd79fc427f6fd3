SPECIFICATION OsmsSpec
CONSTANTS
    Workers = {w1, w2}
    OsmsTrains = {a, b}
    BaseStops = {1, 2, 3}
    ExtraStops = {4}
    TimeOf <- MCTimeOf
    MaxMessages = 3
    MaxLocations = 1
CHECK_DEADLOCK FALSE
PROPERTY
    KeptMovementsStay
