SPECIFICATION Spec
CONSTANTS
    Employees = {e1}
    Requests = {r1, r2, r3}
    SessionIds = {s1, s2, s3, s4}
    CorrectionIds = {}
    Keys = {}
    Ops = {"CHECK_IN", "CLOSE", "REOPEN"}
    Fields = {}
    LastTime = 2
    LastDate = 2
    MaxBreakEvents = 2
    DateOf <- TwoMonthsDateOf
    MonthOf <- TwoMonthsMonthOf
    ExpectedEnd <- NoShift
    None = None
SYMMETRY Symmetry
INVARIANTS
    OneOpenSession
    NoDeadlock
