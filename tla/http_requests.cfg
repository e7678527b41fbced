SPECIFICATION FairHSpec
CONSTANTS
    Requests = {r1, r2}
    Forms <- MCForms
    MaxCrashes = 1
INVARIANTS
    SuccessIsBacked
PROPERTIES
    EveryWaitEnds
CHECK_DEADLOCK FALSE
