SPECIFICATION Spec
CONSTANTS
    Keys = {k}
    Validities = {weekdays, weekends}
    Timetables = {m1, m2}
    MaxDay = 4
    MaxVersion = 4
    MaxRecords = 1
    MaxRetries = 1
    MaxFailures = 1
    MaxKills = 1
    Week = 2
CHECK_DEADLOCK FALSE
PROPERTY
    RecordIsUpdated
