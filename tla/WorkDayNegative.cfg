CONSTANTS
    ann = ann
    b1 = b1
    office = office
    night = night
    None = None
    Employees = {ann}
    Branches = {b1}
    BranchOf <- MCBranchOf
    Schedules = {office}
    Shifts = {night}
    Windows <- MCWindows
    Graces = {0, 1}
    LastDate = 3
    Today = 2
    Calls = {i1}
    OffSets = {{1}, {2, 3}}
    Starts <- MCCorrectionStarts
    Worker = ann
    LastTime = 4
    Policies <- MCPolicies
    MaxSessions = 2
    MaxCorrections = 1
SPECIFICATION Spec
INVARIANTS WorkedIsNotNegative
CHECK_DEADLOCK FALSE
