CONSTANTS
    p1 = p1
    p2 = p2
    Pages <- MCPages
    MaxSeq <- MCMaxSeq
    MaxDials = 2
    MaxSleeps = 1
    Limit = 2
SPECIFICATION FairSpec
INVARIANTS
    OncePerCommand
    RunsInOrder
    Watched
PROPERTIES
    RowsLeaveOnTheWire
    HealthyAgentStays
    AbsenceIsNoticed
CHECK_DEADLOCK FALSE
