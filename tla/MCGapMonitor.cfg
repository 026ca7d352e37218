CONSTANTS
    Slots <- MCSlots
    Tolerance = 1
    QueueCap = 1
    DbMayFail = TRUE
    MaxOutages = 1
    MaxRuns = 2
SPECIFICATION FairSpec
INVARIANTS
    TypeOK
    HolesAreReported
    ClaimedOnce
PROPERTIES
    ReportsSettle
\* After the last of MaxRuns runs the process stays down.
CHECK_DEADLOCK FALSE
