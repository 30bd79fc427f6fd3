SPECIFICATION FairSpec
CONSTANTS
    Requests = {r1}
    MaxVersion = 2
    MaxRestarts = 0
    MaxFailures = 1
CHECK_DEADLOCK FALSE
PROPERTY
    UpdatesAreServed
