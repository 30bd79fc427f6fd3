SPECIFICATION Spec
CONSTANTS
    None = None
    Equal = Equal
    Schedules = {1, 2, 3, 4}
    Mvts = {2, 3}
    Uid <- MCUid
    Stp <- MCStp
    Parent <- MCParent
    Updates <- MCUpdates
CHECK_DEADLOCK FALSE
INVARIANT
    ScheduledCallsAreShown
